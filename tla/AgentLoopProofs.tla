-------------------------- MODULE AgentLoopProofs --------------------------
(***************************************************************************)
(* What AgentLoop promises, for every set of tools, every visibility and   *)
(* every cap.  Two facts are inductive on their own or with the counters   *)
(* of Progress: the types, and what the model was told.  The shape of the  *)
(* conversation needs to say, in the middle of a round, that its last      *)
(* message is the unanswered response.                                     *)
(***************************************************************************)
EXTENDS AgentLoop, TLAPS

\* What Append adds, and what it leaves alone.
LEMMA AppendFacts ==
  ASSUME NEW S, NEW s \in Seq(S), NEW v \in S
  PROVE  /\ Append(s, v) \in Seq(S) /\ Len(Append(s, v)) = Len(s) + 1
         /\ DOMAIN Append(s, v) = 1..(Len(s) + 1)
         /\ \A i \in DOMAIN s : Append(s, v)[i] = s[i]
         /\ Append(s, v)[Len(s) + 1] = v
OBVIOUS

\* How far the loop has come bounds what it has recorded.
Progress ==
  /\ pc \in {"ask", "tools"} => iteration < MaxIterations
  /\ pc = "ask" => recorded <= iteration
  /\ recorded <= iteration + 1

TypeInv == TypeOK /\ Progress

\* The types and the counters are kept by every step.
LEMMA TypeStep == ASSUME TypeInv, [Next]_vars PROVE TypeInv'
<1> USE AgentLoopAssumption DEF TypeInv, TypeOK, Progress, Verdicts, work
<1>1. CASE UNCHANGED vars
  BY <1>1 DEF vars
<1>2. CASE Answer
  BY <1>2 DEF Answer, RecordUsage
<1>3. CASE ModelFails
  BY <1>3 DEF ModelFails
<1>4. ASSUME NEW names \in Responses, UseTools(names) PROVE TypeInv'
  <2>1. names \in Seq(Names) /\ names \in Seq(Names \cup Verdicts)
    BY <1>4 DEF Responses
  <2>2. [role |-> "assistant", round |-> iteration, blocks |-> names] \in Message
    BY <2>1 DEF Message
  <2>3. turns' \in Seq(Message) /\ calls' \in Seq(Names) /\ results' \in Seq(Verdicts)
    BY <1>4, <2>1, <2>2 DEF UseTools
  <2>4. Len(results') <= Len(calls')
    BY <1>4, <2>1 DEF UseTools
  <2>. QED
    BY <1>4, <2>3, <2>4 DEF UseTools, RecordUsage
<1>5. CASE Refuse
  BY <1>5 DEF Refuse, Result, InBlock
<1>6. CASE Handle
  <2>1. Id \in Ids
    BY <1>6 DEF Handle, InBlock, Id, Ids, Name, Block
  <2>2. ran' \subseteq Ids /\ committed' \subseteq ran'
    BY <1>6, <2>1 DEF Handle
  <2>3. results' \in Seq(Verdicts) /\ Len(results') <= Len(calls')
    <3>1. PICK v \in Verdicts : results' = Append(results, v) /\ calls' = calls
      BY <1>6 DEF Handle, Result
    <3>2. Len(results) < Len(calls)
      BY <1>6 DEF Handle, InBlock
    <3>. HIDE DEF Verdicts
    <3>3. results \in Seq(Verdicts) /\ Len(results) \in Nat /\ Len(calls) \in Nat
      OBVIOUS
    <3>4. results' \in Seq(Verdicts) /\ Len(results') = Len(results) + 1
      BY <3>1, <3>3, AppendFacts
    <3>. QED
      BY <3>1, <3>2, <3>3, <3>4
  <2>4. UNCHANGED <<pc, iteration, turns, calls, recorded, reply>>
    BY <1>6 DEF Handle, Result
  <2>. QED
    BY <2>2, <2>3, <2>4
<1>7. CASE Return
  <2>1. [role |-> "user", round |-> iteration, blocks |-> results] \in Message
    BY DEF Message
  <2>2. turns' \in Seq(Message)
    BY <1>7, <2>1 DEF Return
  <2>. QED
    BY <1>7, <2>2 DEF Return
<1>8. CASE Kill
  BY <1>8 DEF Kill
<1>. QED
  BY <1>1, <1>2, <1>3, <1>4, <1>5, <1>6, <1>7, <1>8 DEF Next, AskModel, Dispatch

\* The initial state has the types and the counters.
LEMMA TypeInit == Init => TypeInv
BY AgentLoopAssumption DEF Init, TypeInv, TypeOK, Progress, Message

\* Every variable has its type, and no run has more rows of usage than the cap
\* (llm_calls groups them by turn_id).
THEOREM LoopTypeCorrect == Spec => []TypeOK
<1>1. TypeInv => TypeOK
  BY DEF TypeInv
<1>. QED
  BY <1>1, TypeInit, TypeStep, PTL DEF Spec

-----------------------------------------------------------------------------
\* The model hears "ok" of a tool call only if its transaction committed.
LEMMA ToldStep == ASSUME TypeInv, ToldIsDone, [Next]_vars PROVE ToldIsDone'
<1> USE DEF TypeInv, TypeOK
<1>1. CASE UNCHANGED vars
  BY <1>1 DEF vars, work, ToldIsDone
<1>2. CASE Answer \/ ModelFails \/ Kill
  BY <1>2 DEF Answer, ModelFails, Kill, work, ToldIsDone
<1>3. ASSUME NEW names \in Responses, UseTools(names) PROVE ToldIsDone'
  <2> DEFINE m == [role |-> "assistant", round |-> iteration, blocks |-> names]
  <2>1. turns' = Append(turns, m) /\ results' = <<>> /\ committed' = committed
    BY <1>3 DEF UseTools, work
  <2>2. \A k \in DOMAIN turns' : turns'[k].role = "user" => k \in DOMAIN turns /\ turns'[k] = turns[k]
    BY <2>1
  <2>3. \A i \in DOMAIN results' : ~(pc' = "tools" /\ results'[i] = "ok")
    BY <2>1
  <2>4. \A k \in DOMAIN turns' : turns'[k].role = "user" =>
          \A i \in DOMAIN turns'[k].blocks : turns'[k].blocks[i] = "ok" =>
            \E id \in committed' : id[1] = turns'[k].round /\ id[2] = i
    <3>1. \A k \in DOMAIN turns : turns[k].role = "user" =>
            \A i \in DOMAIN turns[k].blocks : turns[k].blocks[i] = "ok" =>
              \E id \in committed : id[1] = turns[k].round /\ id[2] = i
      BY DEF ToldIsDone
    <3>2. committed' = committed
      BY <2>1
    <3> HIDE DEF m
    <3>. QED
      BY <2>2, <3>1, <3>2
  <2>. QED
    BY <2>3, <2>4 DEF ToldIsDone
<1>4. CASE Refuse
  <2>1. /\ UNCHANGED <<turns, committed, iteration, calls, pc>>
        /\ \E v \in {"hidden", "unknown"} : results' = Append(results, v)
    BY <1>4 DEF Refuse, Result, work
  <2>. QED
    BY <2>1 DEF ToldIsDone
<1>5. CASE Handle
  <2>1. /\ UNCHANGED <<turns, iteration, calls, pc>>
        /\ committed \subseteq committed'
    BY <1>5 DEF Handle, Result
  <2>2. \/ results' = Append(results, "failed")
        \/ results' = Append(results, "ok") /\ <<iteration, Len(results) + 1, calls[Len(results) + 1]>> \in committed'
    BY <1>5 DEF Handle, Result, Id, Name, Block
  <2>3. \A i \in DOMAIN results' : results'[i] = "ok" =>
          \/ i \in DOMAIN results /\ results[i] = "ok"
          \/ i = Len(results) + 1 /\ <<iteration, i, calls[i]>> \in committed'
    <3> DEFINE n == Len(results)
    <3> SUFFICES ASSUME NEW i \in DOMAIN results', results'[i] = "ok", i \notin DOMAIN results
                 PROVE  i = n + 1 /\ <<iteration, i, calls[i]>> \in committed'
      <4>1. PICK v \in Verdicts : results' = Append(results, v)
        BY <2>2 DEF Verdicts
      <4>2. \A i \in DOMAIN results : results'[i] = results[i]
        BY <4>1, AppendFacts
      <4>. QED
        BY <4>2
    <3>1. i = n + 1 /\ results'[n + 1] = "ok"
      BY <2>2
    <3>2. results' = Append(results, "ok")
      BY <3>1, <2>2
    <3>3. <<iteration, n + 1, calls[n + 1]>> \in committed'
      BY <3>1, <2>2
    <3>. QED
      BY <3>1, <3>3
  <2>4. pc = "tools"
    BY <1>5 DEF Handle, InBlock
  <2>5. \A i \in DOMAIN results' : pc' = "tools" /\ results'[i] = "ok" =>
          <<iteration', i, calls'[i]>> \in committed'
    BY <2>1, <2>3, <2>4 DEF ToldIsDone
  <2>6. \A k \in DOMAIN turns' : turns'[k].role = "user" =>
          \A i \in DOMAIN turns'[k].blocks : turns'[k].blocks[i] = "ok" =>
            \E id \in committed' : id[1] = turns'[k].round /\ id[2] = i
    BY <2>1 DEF ToldIsDone
  <2>. QED
    BY <2>5, <2>6 DEF ToldIsDone
<1>6. CASE Return
  <2> DEFINE m == [role |-> "user", round |-> iteration, blocks |-> results]
  <2>1. turns' = Append(turns, m) /\ committed' = committed /\ pc = "tools" /\ pc' # "tools"
    BY <1>6 DEF Return, work
  <2>2. ASSUME NEW k \in DOMAIN turns', turns'[k].role = "user", NEW i \in DOMAIN turns'[k].blocks,
               turns'[k].blocks[i] = "ok"
        PROVE  \E id \in committed' : id[1] = turns'[k].round /\ id[2] = i
    <3>1. CASE k \in DOMAIN turns
      BY <2>1, <2>2, <3>1 DEF ToldIsDone
    <3>2. CASE k \notin DOMAIN turns
      <4>1. turns'[k] = m
        BY <2>1, <3>2
      <4>2. <<iteration, i, calls[i]>> \in committed
        BY <2>1, <2>2, <4>1 DEF ToldIsDone
      <4>3. turns'[k].round = iteration /\ committed' = committed
        BY <2>1, <4>1
      <4>4. \E id \in committed : id[1] = iteration /\ id[2] = i
        BY <4>2
      <4>. QED
        BY <4>3, <4>4
    <3>. QED
      BY <3>1, <3>2
  <2>. QED
    BY <2>1, <2>2 DEF ToldIsDone
<1>. QED
  BY <1>1, <1>2, <1>3, <1>4, <1>5, <1>6 DEF Next, AskModel, Dispatch

\* A tool call the model believes in is in the database.
THEOREM ToldIsTrue == Spec => []ToldIsDone
<1>1. Init => ToldIsDone
  BY DEF Init, ToldIsDone
<1>. QED
  BY <1>1, TypeInit, TypeStep, ToldStep, PTL DEF Spec
-----------------------------------------------------------------------------
\* The first n rounds are pairs of a response and its complete answer.
Pairs(n) ==
  \A k \in 0..(n - 1) :
    /\ turns[2 * k + 1].role = "assistant" /\ turns[2 * k + 2].role = "user"
    /\ Len(turns[2 * k + 1].blocks) = Len(turns[2 * k + 2].blocks)

\* Within a round the response stands last and awaits its answer.
Shape ==
  /\ pc = "ask" => Len(turns) = 2 * iteration /\ Pairs(iteration)
  /\ pc = "tools" => /\ Len(turns) = 2 * iteration + 1 /\ Pairs(iteration)
                     /\ turns[2 * iteration + 1].role = "assistant"
                     /\ Len(turns[2 * iteration + 1].blocks) = Len(calls)

\* Appending a message leaves the pairs before it as they were.
LEMMA PairsStay ==
  ASSUME TypeInv, NEW m \in Message, turns' = Append(turns, m),
         NEW n \in Nat, 2 * n <= Len(turns), Pairs(n)
  PROVE  Pairs(n)'
<1>1. turns \in Seq(Message) /\ Len(turns) \in Nat
  BY DEF TypeInv, TypeOK
<1>2. \A i \in DOMAIN turns : turns'[i] = turns[i]
  BY <1>1, AppendFacts
<1>3. \A k \in 0..(n - 1) : 2 * k + 1 \in DOMAIN turns /\ 2 * k + 2 \in DOMAIN turns
  BY <1>1
<1>. QED
  BY <1>2, <1>3 DEF Pairs

\* Every step of the loop keeps the shape.
LEMMA ShapeStep == ASSUME TypeInv, Shape, [Next]_vars PROVE Shape'
<1>1. iteration \in Nat /\ turns \in Seq(Message) /\ Len(turns) \in Nat
  BY AgentLoopAssumption DEF TypeInv, TypeOK
<1>2. CASE UNCHANGED <<pc, iteration, turns, calls>>
  BY <1>2 DEF Shape, Pairs
<1>3. CASE Answer \/ ModelFails \/ Kill
  BY <1>3 DEF Answer, ModelFails, Kill, Shape
<1>4. ASSUME NEW names \in Responses, UseTools(names) PROVE Shape'
  <2> DEFINE m == [role |-> "assistant", round |-> iteration, blocks |-> names]
  <2>1. names \in Seq(Names \cup Verdicts)
    BY <1>4, AgentLoopAssumption DEF Responses
  <2>2. m \in Message
    BY <1>1, <2>1 DEF Message
  <2>3. /\ turns' = Append(turns, m) /\ calls' = names /\ iteration' = iteration
        /\ pc = "ask" /\ pc' = "tools"
    BY <1>4 DEF UseTools
  <2>4. Len(turns) = 2 * iteration /\ Pairs(iteration)
    BY <2>3 DEF Shape
  <2>5. Pairs(iteration)'
    BY <1>1, <2>2, <2>3, <2>4, PairsStay DEF Pairs
  <2>6. Len(turns') = 2 * iteration + 1 /\ turns'[2 * iteration + 1] = m
    BY <1>1, <2>2, <2>3, <2>4, AppendFacts
  <2>. QED
    BY <2>3, <2>5, <2>6 DEF Shape
<1>5. CASE Refuse \/ Handle
  BY <1>5, <1>2 DEF Refuse, Handle, Result
<1>6. CASE Return
  <2> DEFINE m == [role |-> "user", round |-> iteration, blocks |-> results]
  <2>1. m \in Message
    BY <1>1 DEF Message, TypeInv, TypeOK
  <2>2. /\ turns' = Append(turns, m) /\ iteration' = iteration + 1
        /\ pc = "tools" /\ pc' # "tools" /\ Len(results) = Len(calls)
    BY <1>6 DEF Return
  <2>3. /\ Len(turns) = 2 * iteration + 1 /\ Pairs(iteration)
        /\ turns[2 * iteration + 1].role = "assistant"
        /\ Len(turns[2 * iteration + 1].blocks) = Len(calls)
    BY <2>2 DEF Shape
  <2>4. /\ Len(turns') = 2 * iteration + 2 /\ turns'[2 * iteration + 2] = m
        /\ turns'[2 * iteration + 1] = turns[2 * iteration + 1]
    BY <1>1, <2>1, <2>2, <2>3, AppendFacts
  <2>5. \A k \in 0..(iteration - 1) :
          /\ turns'[2 * k + 1].role = "assistant" /\ turns'[2 * k + 2].role = "user"
          /\ Len(turns'[2 * k + 1].blocks) = Len(turns'[2 * k + 2].blocks)
    <3>1. 2 * iteration <= Len(turns)
      BY <1>1, <2>3
    <3>2. \A i \in DOMAIN turns : turns'[i] = turns[i]
      BY <1>1, <2>1, <2>2, AppendFacts
    <3>3. \A k \in 0..(iteration - 1) : 2 * k + 1 \in DOMAIN turns /\ 2 * k + 2 \in DOMAIN turns
      BY <1>1, <3>1
    <3>. QED
      BY <2>3, <3>2, <3>3 DEF Pairs
  <2>6. \A k \in 0..iteration : k \in 0..(iteration - 1) \/ k = iteration
    BY <1>1
  <2>7. Pairs(iteration)'
    <3>1. \A k \in 0..iteration :
            /\ turns'[2 * k + 1].role = "assistant" /\ turns'[2 * k + 2].role = "user"
            /\ Len(turns'[2 * k + 1].blocks) = Len(turns'[2 * k + 2].blocks)
      <4>1. turns'[2 * iteration + 1].role = "assistant" /\ turns'[2 * iteration + 2].role = "user"
        BY <2>3, <2>4
      <4>2. Len(turns'[2 * iteration + 1].blocks) = Len(turns'[2 * iteration + 2].blocks)
        <5>1. turns'[2 * iteration + 2].blocks = results
          BY <2>4
        <5>2. turns'[2 * iteration + 1].blocks = turns[2 * iteration + 1].blocks
          BY <2>4
        <5>. QED
          BY <2>2, <2>3, <5>1, <5>2
      <4>. QED
        BY <2>5, <2>6, <4>1, <4>2
    <3>2. iteration' - 1 = iteration
      BY <1>1, <2>2
    <3>. QED
      BY <3>1, <3>2 DEF Pairs
  <2>8. Len(turns') = 2 * iteration'
    BY <1>1, <2>2, <2>4
  <2>. QED
    BY <2>2, <2>7, <2>8 DEF Shape
<1>. QED
  BY <1>2, <1>3, <1>4, <1>5, <1>6 DEF Next, AskModel, Dispatch, vars

\* Every request to the model answers all its earlier tool_use blocks, each
\* response in the one message that follows it.
THEOREM ConversationIsWellFormed == Spec => []ResultsArePaired
<1>1. Init => Shape
  BY DEF Init, Shape, Pairs
<1>2. Shape => ResultsArePaired
  BY DEF Shape, Pairs, ResultsArePaired
<1>. QED
  BY <1>1, <1>2, TypeInit, TypeStep, ShapeStep, PTL DEF Spec
=============================================================================
