---------------------------- MODULE TurnsProofs ----------------------------
(***************************************************************************)
(* Safety of the inbound path, and that its queue implements Inbox, for    *)
(* any users, messages, payloads, request slots and bounds.                *)
(***************************************************************************)
EXTENDS TurnsInbox, FiniteSetTheorems, SequenceTheorems, TLAPS

\* A request is idle exactly when its loop has no message left, so the head
\* that Check, LogInbound and Submit take is a message.
Busy == \A r \in Requests : rpc[r] = "idle" <=> todo[r] = <<>>

Typed == TypeOK /\ Busy

\* The initial state is typed.
LEMMA TypedInit == Init => Typed
  BY TurnsAssumption DEF Init, Typed, TypeOK, Busy, RowStates, RequestStates, TurnStates,
     Outcomes, Items, Turns

\* The messages left after one of them are messages again.
LEMMA RestOfLoop ==
  ASSUME NEW s \in Seq(Messages), s # <<>>
  PROVE  Head(s) \in Messages /\ Tail(s) \in Seq(Messages)
  OBVIOUS

\* A burst with one more message is not empty.
LEMMA AppendIsNotEmpty ==
  ASSUME NEW s \in Seq(Messages), NEW m \in Messages
  PROVE  Append(s, m) # <<>>
<1>1. Len(Append(s, m)) = Len(s) + 1 /\ Len(s) \in Nat
  OBVIOUS
<1>2. Len(<<>>) = 0
  OBVIOUS
<1> QED BY <1>1, <1>2

\* A burst holds messages only.
LEMMA RangeOfBurst ==
  ASSUME NEW t \in Turns, TypeOK
  PROVE  Range(batch[t]) \subseteq Messages
<1>1. batch[t] \in Seq(Messages)
  BY DEF TypeOK
<1> QED BY <1>1 DEF Range

\* Every step keeps the types and the link between a request and its loop.
LEMMA TypedStep == Typed /\ [Next]_vars => Typed'
<1> SUFFICES ASSUME Typed, [Next]_vars PROVE Typed'
  OBVIOUS
<1> USE TurnsAssumption DEF Typed
<1>0. \A t \in Turns : Range(batch[t]) \subseteq Messages
  BY RangeOfBurst
<1>1. ASSUME NEW r \in Requests, NEW p \in Payloads, Deliver(r, p) PROVE Typed'
  <2>1. Carries[p] \in Seq(Messages) /\ Carries[p] # <<>>
    BY <1>1 DEF Deliver
  <2>2. attempts' \in [Payloads -> Nat] /\ todo' \in [Requests -> Seq(Messages)]
    BY <1>1, <2>1 DEF Deliver, TypeOK
  <2>3. Busy'
    BY <1>1, <2>1 DEF Deliver, TypeOK, Busy
  <2> QED BY <1>1, <2>2, <2>3 DEF Deliver, TypeOK, database, queue, tasks, RequestStates
<1>2. ASSUME NEW r \in Requests, Check(r) PROVE Typed'
  <2>1. todo[r] \in Seq(Messages) /\ todo[r] # <<>>
    BY <1>2 DEF Check, TypeOK, Busy
  <2>2. Tail(todo[r]) \in Seq(Messages)
    BY <2>1, RestOfLoop
  <2>3. UNCHANGED <<database, delivered, attempts, queue, tasks, crashes>>
    BY <1>2 DEF Check
  <2>4. \/ /\ todo' = [todo EXCEPT ![r] = Tail(@)]
           /\ rpc' = [rpc EXCEPT ![r] = IF Tail(todo[r]) = <<>> THEN "idle" ELSE "check"]
        \/ todo' = todo /\ rpc' = [rpc EXCEPT ![r] = "log"]
    BY <1>2 DEF Check, Advance
  <2>5. todo' \in [Requests -> Seq(Messages)] /\ rpc' \in [Requests -> RequestStates]
    BY <2>2, <2>4 DEF TypeOK, RequestStates
  <2>6. Busy'
    BY <2>1, <2>4 DEF TypeOK, Busy
  <2> QED BY <2>3, <2>5, <2>6 DEF TypeOK, database, queue, tasks
<1>3. ASSUME NEW r \in Requests, LogInbound(r) PROVE Typed'
  BY <1>3 DEF LogInbound, TypeOK, Busy, queue, tasks, RequestStates, RowStates
<1>4. ASSUME NEW r \in Requests, Submit(r) PROVE Typed'
  <2>1. todo[r] \in Seq(Messages) /\ todo[r] # <<>>
    BY <1>4 DEF Submit, TypeOK, Busy
  <2>2. Head(todo[r]) \in Messages /\ Tail(todo[r]) \in Seq(Messages)
    BY <2>1, RestOfLoop
  <2>3. pending' \in [Users -> Seq(Messages)]
    BY <1>4, <2>2 DEF Submit, TypeOK
  <2> QED BY <1>4, <2>1, <2>2, <2>3
          DEF Submit, Advance, TypeOK, Busy, database, tasks, RequestStates
<1>5. ASSUME NEW r \in Requests, RequestFails(r) PROVE Typed'
  BY <1>5 DEF RequestFails, TypeOK, Busy, database, queue, tasks, RequestStates
<1>6. ASSUME NEW u \in Users, Deactivate(u) PROVE Typed'
  BY <1>6 DEF Deactivate, TypeOK, Busy, webhook, queue, tasks
<1>7. ASSUME NEW u \in Users, Fire(u) PROVE Typed'
  <2> USE DEF Fire, TypeOK, Busy, database, webhook
  <2>1. CASE pending[u] = <<>>
    BY <1>7, <2>1 DEF tasks
  <2>2. CASE pending[u] # <<>>
    <3>1. started + 1 \in Turns
      BY <1>7, <2>2 DEF Turns
    <3>2. started' \in 0..MaxTurns /\ started' = started + 1
      BY <1>7, <2>2
    <3>3. pending' \in [Users -> Seq(Messages)] /\ timer' \in [Users -> BOOLEAN]
      BY <1>7
    <3>4. /\ pc' \in [Turns -> TurnStates]
          /\ owner' \in [Turns -> Users]
          /\ batch' \in [Turns -> Seq(Messages)]
      <4>1. pc \in [Turns -> TurnStates] /\ owner \in [Turns -> Users]
            /\ batch \in [Turns -> Seq(Messages)] /\ pending[u] \in Seq(Messages)
        OBVIOUS
      <4>2. /\ pc' = [pc EXCEPT ![started + 1] = "waiting"]
            /\ owner' = [owner EXCEPT ![started + 1] = u]
            /\ batch' = [batch EXCEPT ![started + 1] = pending[u]]
        BY <1>7, <2>2
      <4> HIDE DEF Fire, TypeOK
      <4> QED BY <4>1, <4>2, <3>1 DEF TurnStates
    <3>5. UNCHANGED <<row, assistant, active, delivered, attempts, rpc, todo, locked,
                      noted, heard, recalled, outcome, crashes>>
      BY <1>7, <2>2
    <3> QED BY <3>2, <3>3, <3>4, <3>5
  <2> QED BY <2>1, <2>2
<1>8. ASSUME NEW t \in Turns, Acquire(t) PROVE Typed'
  BY <1>8 DEF Acquire, TypeOK, Busy, database, webhook, TurnStates
<1>9. ASSUME NEW t \in Turns, HandleTurn(t) PROVE Typed'
  <2> USE DEF TypeOK, Busy, TurnStates
  <2>0. <<t, "reply">> \in Items /\ <<t, "apology">> \in Items /\ <<t, "part">> \in Items
    BY DEF Items
  <2>1. CASE BuildBlocks(t)
    <3>1. PICK bad \in SUBSET Media(t) :
             /\ noted' = [noted EXCEPT ![t] = bad]
             /\ row' = [m \in Messages |->
                         IF m \in bad THEN "failed"
                         ELSE IF m \in Media(t) /\ Kind[m] = "audio" THEN "transcribed"
                         ELSE row[m]]
      BY <2>1 DEF BuildBlocks
    <3>2. Media(t) \subseteq Messages
      BY <1>0 DEF Media
    <3>3. row' \in [Messages -> RowStates]
      BY <3>1 DEF RowStates
    <3>4. noted' \in [Turns -> SUBSET Messages]
      BY <3>1, <3>2
    <3> QED BY <2>1, <3>3, <3>4 DEF BuildBlocks, Goto, queue, webhook
  <2>2. CASE ReadHistory(t)
    BY <2>2 DEF ReadHistory, Goto, database, queue, webhook, Logged
  <2>3. CASE RunAgent(t)
    BY <2>3 DEF RunAgent, Goto, database, queue, webhook
  <2>4. CASE Break(t)
    BY <2>4 DEF Break, Goto, database, queue, webhook
  <2>5. CASE SendReply(t)
    BY <2>0, <2>5 DEF SendReply, CutShort, Goto, End, database, queue, webhook, Outcomes
  <2>6. CASE LogReply(t)
    BY <2>0, <2>6 DEF LogReply, End, webhook, Outcomes
  <2>7. CASE SendApology(t)
    BY <2>0, <2>7 DEF SendApology, Goto, End, database, queue, webhook, Outcomes
  <2>8. CASE LogApology(t)
    BY <2>0, <2>8 DEF LogApology, End, webhook, Outcomes
  <2> QED BY <1>9, <2>1, <2>2, <2>3, <2>4, <2>5, <2>6, <2>7, <2>8 DEF HandleTurn
<1>10. CASE Crash
  BY <1>10 DEF Crash, TypeOK, Busy, database, RequestStates, TurnStates, Outcomes
<1>11. CASE UNCHANGED vars
  BY <1>11 DEF vars, database, webhook, queue, tasks, TypeOK, Busy
<1> QED
  BY <1>1, <1>2, <1>3, <1>4, <1>5, <1>6, <1>7, <1>8, <1>9, <1>10, <1>11 DEF Next, RequestStep

\* Every variable keeps its type, whatever the constants are.
THEOREM TypeCorrect == Spec => []TypeOK
<1>1. Typed => TypeOK
  BY DEF Typed
<1> QED BY TypedInit, TypedStep, <1>1, PTL DEF Spec

-----------------------------------------------------------------------------
(* The lock and the burst.                                                  *)

\* A turn that runs holds its user's lock.
RunnerHoldsLock == \A t \in Turns : pc[t] \in Running => locked[owner[t]]

\* What a turn is about to record has reached the user.
SentBeforeLog ==
  \A t \in Turns : /\ pc[t] = "log" => <<t, "reply">> \in delivered
                   /\ pc[t] = "logsorry" => <<t, "apology">> \in delivered

Safe == /\ Typed
        /\ RunnerHoldsLock /\ MutualExclusion
        /\ BurstHasTimer
        /\ SentBeforeLog /\ LoggedWasDelivered

\* The initial state is safe.
LEMMA SafeInit == Init => Safe
<1> SUFFICES ASSUME Init PROVE Safe
  OBVIOUS
<1>1. \A t \in Turns : pc[t] = "unborn"
  BY DEF Init
<1> QED
  BY <1>1, TypedInit DEF Init, Safe, RunnerHoldsLock, MutualExclusion, Running, BurstHasTimer,
                         SentBeforeLog, LoggedWasDelivered

\* A step of a turn that neither takes nor frees the lock: the turn was
\* running and still is.
LEMMA StaysRunning ==
  ASSUME Safe, NEW t \in Turns, NEW where \in Running, Goto(t, where), pc[t] \in Running
  PROVE  RunnerHoldsLock' /\ MutualExclusion' /\ BurstHasTimer'
  BY DEF Safe, Typed, TypeOK, Goto, queue, RunnerHoldsLock, MutualExclusion, BurstHasTimer, Running

\* The end of a turn frees the lock, which no other turn of the user holds.
LEMMA EndsRunning ==
  ASSUME Safe, NEW t \in Turns, NEW how, End(t, how), pc[t] \in Running
  PROVE  RunnerHoldsLock' /\ MutualExclusion' /\ BurstHasTimer'
  BY DEF Safe, Typed, TypeOK, End, RunnerHoldsLock, MutualExclusion, BurstHasTimer, Running

\* Every step keeps the invariant.
LEMMA SafeStep == Safe /\ [Next]_vars => Safe'
<1> SUFFICES ASSUME Safe, [Next]_vars PROVE Safe'
  OBVIOUS
<1>0. Typed'
  BY TypedStep DEF Safe
<1> DEFINE Lock == RunnerHoldsLock /\ MutualExclusion /\ BurstHasTimer
           Sent == SentBeforeLog /\ LoggedWasDelivered
<1> SUFFICES Lock' /\ Sent'
  BY <1>0 DEF Safe
<1> USE DEF Safe
<1>1. ASSUME NEW r \in Requests, NEW p \in Payloads, Deliver(r, p) PROVE Lock' /\ Sent'
  BY <1>1 DEF Deliver, database, queue, tasks, RunnerHoldsLock, MutualExclusion, BurstHasTimer,
              SentBeforeLog, LoggedWasDelivered
<1>2. ASSUME NEW r \in Requests, Check(r) \/ LogInbound(r) \/ RequestFails(r)
      PROVE  Lock' /\ Sent'
  BY <1>2 DEF Check, LogInbound, RequestFails, database, queue, tasks, RunnerHoldsLock,
              MutualExclusion, BurstHasTimer, SentBeforeLog, LoggedWasDelivered
<1>3. ASSUME NEW r \in Requests, Submit(r) PROVE Lock' /\ Sent'
  <2>1. BurstHasTimer'
    <3>1. todo[r] \in Seq(Messages) /\ todo[r] # <<>>
      BY <1>3 DEF Submit, Busy, Typed, TypeOK
    <3>2. Head(todo[r]) \in Messages
      BY <3>1, RestOfLoop
    <3> DEFINE m == Head(todo[r])
               u == From[m]
    <3>3. pending' = [pending EXCEPT ![u] = Append(@, m)] /\ timer' = [timer EXCEPT ![u] = TRUE]
      BY <1>3 DEF Submit
    <3>4. pending \in [Users -> Seq(Messages)] /\ timer \in [Users -> BOOLEAN] /\ u \in Users
      BY <3>2, TurnsAssumption DEF Typed, TypeOK
    <3>5. Append(pending[u], m) # <<>>
      BY <3>2, <3>4, AppendIsNotEmpty
    <3> HIDE DEF m, u
    <3> QED BY <3>3, <3>4, <3>5 DEF BurstHasTimer
  <2> QED BY <1>3, <2>1 DEF Submit, database, tasks, RunnerHoldsLock, MutualExclusion,
                            SentBeforeLog, LoggedWasDelivered
<1>4. ASSUME NEW u \in Users, Deactivate(u) PROVE Lock' /\ Sent'
  BY <1>4 DEF Deactivate, queue, tasks, RunnerHoldsLock, MutualExclusion, BurstHasTimer,
              SentBeforeLog, LoggedWasDelivered
<1>5. ASSUME NEW u \in Users, Fire(u) PROVE Lock' /\ Sent'
  <2>1. BurstHasTimer'
    BY <1>5 DEF Fire, BurstHasTimer, Typed, TypeOK
  <2>2. \A t \in Turns : \/ pc'[t] = pc[t] /\ owner'[t] = owner[t]
                         \/ pc'[t] = "waiting"
    BY <1>5 DEF Fire, tasks, Typed, TypeOK
  <2>3. UNCHANGED <<locked, delivered, assistant>>
    BY <1>5 DEF Fire, database
  <2> QED BY <2>1, <2>2, <2>3 DEF RunnerHoldsLock, MutualExclusion, Running,
                                  SentBeforeLog, LoggedWasDelivered
<1>6. ASSUME NEW t \in Turns, Acquire(t) PROVE Lock' /\ Sent'
  <2>1. \A s \in Turns : pc[s] \in Running => owner[s] # owner[t]
    BY <1>6 DEF Acquire, RunnerHoldsLock
  <2>2. BurstHasTimer' /\ Sent'
    BY <1>6 DEF Acquire, BurstHasTimer, SentBeforeLog, LoggedWasDelivered, database, Typed, TypeOK
  <2>3. RunnerHoldsLock' /\ MutualExclusion'
    BY <1>6, <2>1 DEF Acquire, RunnerHoldsLock, MutualExclusion, Running, Typed, TypeOK
  <2> QED BY <2>2, <2>3
<1>7. ASSUME NEW t \in Turns, HandleTurn(t) PROVE Lock' /\ Sent'
  <2> DEFINE Ends == \E how : End(t, how)
             Goes == \E where \in Running : Goto(t, where)
  <2>1. pc[t] \in Running /\ (Ends \/ Goes)
    <3> USE DEF Running, TurnStates
    <3>1. CASE BuildBlocks(t)
      BY <3>1 DEF BuildBlocks
    <3>2. CASE ReadHistory(t)
      BY <3>2 DEF ReadHistory
    <3>3. CASE RunAgent(t) \/ Break(t)
      BY <3>3 DEF RunAgent, Break
    <3>4. CASE SendReply(t) \/ SendApology(t)
      BY <3>4 DEF SendReply, CutShort, SendApology
    <3>5. CASE LogReply(t) \/ LogApology(t)
      BY <3>5 DEF LogReply, LogApology
    <3> QED BY <1>7, <3>1, <3>2, <3>3, <3>4, <3>5 DEF HandleTurn
  <2>2. Lock'
    BY <2>1, StaysRunning, EndsRunning
  <2>3. Sent'
    <3> USE DEF Goto, End, SentBeforeLog, LoggedWasDelivered, Typed, TypeOK
    <3>1. CASE BuildBlocks(t)
      BY <3>1 DEF BuildBlocks
    <3>2. CASE ReadHistory(t) \/ RunAgent(t) \/ Break(t)
      BY <3>2 DEF ReadHistory, RunAgent, Break, database
    <3>3. CASE SendReply(t)
      BY <3>3 DEF SendReply, CutShort, database
    <3>4. CASE LogReply(t) \/ LogApology(t)
      <4>1. UNCHANGED delivered
        BY <3>4 DEF LogReply, LogApology
      <4>2. assistant' \subseteq delivered
        <5>1. ASSUME NEW what \in delivered,
                     assistant' = assistant \cup {what} \/ assistant' = assistant
              PROVE  assistant' \subseteq delivered
          BY <5>1
        <5> HIDE DEF Goto, End, Typed, TypeOK
        <5>2. CASE LogReply(t)
          <6>1. <<t, "reply">> \in delivered
            BY <5>2 DEF LogReply
          <6> QED BY <5>1, <5>2, <6>1 DEF LogReply
        <5>3. CASE LogApology(t)
          <6>1. <<t, "apology">> \in delivered
            BY <5>3 DEF LogApology
          <6> QED BY <5>1, <5>3, <6>1 DEF LogApology
        <5> QED BY <3>4, <5>2, <5>3
      <4>3. \A s \in Turns : pc'[s] = pc[s] \/ pc'[s] = "ended"
        BY <3>4 DEF LogReply, LogApology
      <4> QED BY <4>1, <4>2, <4>3
    <3>5. CASE SendApology(t)
      BY <3>5 DEF SendApology, database
    <3> QED BY <1>7, <3>1, <3>2, <3>3, <3>4, <3>5 DEF HandleTurn
  <2> QED BY <2>2, <2>3
<1>8. CASE Crash
  <2>1. \A t \in Turns : pc'[t] = "ended" \/ pc'[t] = "unborn"
    BY <1>8 DEF Crash, Live
  <2> QED BY <1>8, <2>1 DEF Crash, Running, RunnerHoldsLock, MutualExclusion, BurstHasTimer,
                            SentBeforeLog, LoggedWasDelivered, database
<1>9. CASE UNCHANGED vars
  BY <1>9 DEF vars, database, queue, tasks, RunnerHoldsLock, MutualExclusion, BurstHasTimer,
              SentBeforeLog, LoggedWasDelivered
<1> QED
  BY <1>1, <1>2, <1>3, <1>4, <1>5, <1>6, <1>7, <1>8, <1>9 DEF Next, RequestStep

\* Two turns of one user never overlap.  The invariant adds that a running
\* turn holds its user's lock: Acquire needs the lock free, and End frees a
\* lock that no other turn of the user can hold.
THEOREM TurnsExcludeEachOther == Spec => []MutualExclusion
<1>1. Safe => MutualExclusion
  BY DEF Safe
<1> QED BY SafeInit, SafeStep, <1>1, PTL DEF Spec

\* No burst is stranded without a timer, whatever arrives, fires or crashes.
THEOREM NoBurstIsStranded == Spec => []BurstHasTimer
<1>1. Safe => BurstHasTimer
  BY DEF Safe
<1> QED BY SafeInit, SafeStep, <1>1, PTL DEF Spec

\* Nothing is recorded as said to a user that never reached her: a turn that
\* is about to log has delivered, and what is delivered stays so.
THEOREM OnlyDeliveredIsLogged == Spec => []LoggedWasDelivered
<1>1. Safe => LoggedWasDelivered
  BY DEF Safe
<1> QED BY SafeInit, SafeStep, <1>1, PTL DEF Spec
-----------------------------------------------------------------------------
(* What a turn answers, and what it knows when it does.                     *)
(*                                                                          *)
(* When Meta redelivers a payload only after its previous attempt ended,    *)
(* the check-then-insert of receive is enough: a message is queued once     *)
(* and runs in one turn, through retries, rollbacks and restarts.           *)
(*                                                                          *)
(* A turn that has read its history knows the whole past of the thread:     *)
(* turns of a user take the lock in the order they were started, one at a   *)
(* time, so every earlier one is over when a turn reads; that its messages  *)
(* are not excluded as the reader's own rests on the first part.            *)

\* What Append adds to the range.
LEMMA RangeOfAppend ==
  ASSUME NEW s \in Seq(Messages), NEW m \in Messages
  PROVE  Range(Append(s, m)) = Range(s) \cup {m}
<1>1. \A i \in 1..Len(s) : Append(s, m)[i] = s[i]
  OBVIOUS
<1>2. Append(s, m)[Len(s) + 1] = m /\ DOMAIN Append(s, m) = 1..(Len(s) + 1)
  OBVIOUS
<1> QED BY <1>1, <1>2 DEF Range

\* What Tail may take from the range.
LEMMA RangeOfTail ==
  ASSUME NEW s \in Seq(Messages), s # <<>>
  PROVE  Head(s) \in Range(s) /\ Range(Tail(s)) \subseteq Range(s)
<1>1. DOMAIN s = 1..Len(s) /\ Len(s) >= 1 /\ Head(s) = s[1]
  OBVIOUS
<1>2. DOMAIN Tail(s) = 1..(Len(s) - 1) /\ \A i \in 1..(Len(s) - 1) : Tail(s)[i] = s[i + 1]
  BY <1>1
<1> QED BY <1>1, <1>2 DEF Range

\* A burst stays free of repetitions when a new message joins it.
LEMMA AppendStaysInjective ==
  ASSUME NEW s \in Seq(Messages), NEW m \in Messages, IsInjective(s), m \notin Range(s)
  PROVE  IsInjective(Append(s, m))
<1>1. \A i \in 1..Len(s) : Append(s, m)[i] = s[i] /\ s[i] # m
  BY DEF Range
<1>2. Append(s, m)[Len(s) + 1] = m /\ DOMAIN Append(s, m) = 1..(Len(s) + 1)
  OBVIOUS
<1>3. DOMAIN s = 1..Len(s)
  OBVIOUS
<1> QED BY <1>1, <1>2, <1>3 DEF IsInjective

-----------------------------------------------------------------------------
\* Requests in flight walk different messages.
LoopsApart ==
  \A r, s \in Requests : r # s => Range(todo[r]) \cap Range(todo[s]) = {}

\* A request about to insert is right that its message is new; one about to
\* submit holds a message that nobody has queued.
Fresh ==
  \A r \in Requests :
    /\ rpc[r] = "log" => Head(todo[r]) \notin Logged
    /\ rpc[r] = "submit" => /\ Head(todo[r]) \in Logged
                            /\ \A u \in Users : Head(todo[r]) \notin Range(pending[u])
                            /\ \A t \in Turns : Head(todo[r]) \notin Range(batch[t])

\* A burst, debouncing or running, is made of logged messages of its user,
\* each once.
Burst(s, u) ==
  /\ IsInjective(s)
  /\ \A m \in Range(s) : m \in Logged /\ From[m] = u

BurstsApart ==
  /\ \A u \in Users : Burst(pending[u], u)
  /\ \A t \in Turns : Burst(batch[t], owner[t])
  /\ \A u \in Users, t \in Turns : Range(pending[u]) \cap Range(batch[t]) = {}
  /\ \A s, t \in Turns : s # t => Range(batch[s]) \cap Range(batch[t]) = {}

Once == Typed /\ LoopsApart /\ Fresh /\ BurstsApart

\* The empty burst names nothing, hence nothing twice.
LEMMA EmptyBurst == Range(<<>>) = {} /\ IsInjective(<<>>)
  BY DEF Range, IsInjective

\* No message is claimed at first.
LEMMA OnceInit == Init => Once
  BY TypedInit, EmptyBurst DEF Init, Once, LoopsApart, Fresh, BurstsApart, Burst

\* Advance drops a message from one loop and leaves it at its next check.
LEMMA AdvanceKeepsApart ==
  ASSUME Once, NEW r \in Requests, Advance(r), todo[r] # <<>>
  PROVE  /\ LoopsApart'
         /\ rpc'[r] \in {"idle", "check"}
         /\ \A s \in Requests : s # r => todo'[s] = todo[s] /\ rpc'[s] = rpc[s]
<1>1. Range(Tail(todo[r])) \subseteq Range(todo[r])
  BY RangeOfTail DEF Once, Typed, TypeOK
<1>2. /\ \A s \in Requests : s # r => todo'[s] = todo[s] /\ rpc'[s] = rpc[s]
      /\ todo'[r] = Tail(todo[r]) /\ rpc'[r] \in {"idle", "check"}
  BY DEF Advance, Once, Typed, TypeOK
<1> QED BY <1>1, <1>2 DEF Once, LoopsApart

\* A step that leaves the bursts alone and only adds to the log keeps them.
LEMMA BurstsKept ==
  ASSUME Once, UNCHANGED <<pending, batch, owner>>, Logged \subseteq Logged'
  PROVE  BurstsApart'
  BY DEF Once, BurstsApart, Burst

\* Every step keeps a message in at most one place.
LEMMA OnceStep == ASSUME SerialDelivery PROVE Once /\ [Next]_vars => Once'
<1> SUFFICES ASSUME Once, [Next]_vars PROVE LoopsApart' /\ Fresh' /\ BurstsApart'
  BY TypedStep DEF Once
<1>0. \A r \in Requests : rpc[r] # "idle" =>
        /\ todo[r] \in Seq(Messages) /\ todo[r] # <<>>
        /\ Head(todo[r]) \in Messages /\ Head(todo[r]) \in Range(todo[r])
        /\ From[Head(todo[r])] \in Users
  BY RestOfLoop, RangeOfTail, TurnsAssumption DEF Once, Typed, TypeOK, Busy
<1>1. ASSUME NEW r \in Requests, NEW p \in Payloads, Deliver(r, p)
      PROVE  LoopsApart' /\ Fresh' /\ BurstsApart'
  <2>1. /\ todo'[r] = Carries[p] /\ rpc'[r] = "check"
        /\ \A s \in Requests : s # r => todo'[s] = todo[s] /\ rpc'[s] = rpc[s]
    BY <1>1 DEF Deliver, Once, Typed, TypeOK
  <2>2. \A s \in Requests : Range(todo[s]) \cap Range(Carries[p]) = {}
    BY <1>1, SerialDelivery DEF Deliver
  <2>3. UNCHANGED <<row, pending, batch, owner>>
    BY <1>1 DEF Deliver, database, queue, tasks
  <2> QED BY <2>1, <2>2, <2>3, BurstsKept DEF Once, LoopsApart, Fresh, Logged
<1>2. ASSUME NEW r \in Requests, Check(r) PROVE LoopsApart' /\ Fresh' /\ BurstsApart'
  <2>1. UNCHANGED <<row, pending, batch, owner>>
    BY <1>2 DEF Check, database, queue, tasks
  <2>2. CASE Advance(r)
    BY <1>0, <1>2, <2>1, <2>2, AdvanceKeepsApart, BurstsKept DEF Check, Once, Fresh, Logged
  <2>3. CASE Head(todo[r]) \notin Logged /\ rpc' = [rpc EXCEPT ![r] = "log"] /\ UNCHANGED todo
    BY <2>1, <2>3, BurstsKept DEF Once, Typed, TypeOK, LoopsApart, Fresh, Logged
  <2> QED BY <1>2, <2>2, <2>3 DEF Check
<1>3. ASSUME NEW r \in Requests, LogInbound(r) PROVE LoopsApart' /\ Fresh' /\ BurstsApart'
  <2> DEFINE m == Head(todo[r])
  <2>1. m \in Messages /\ m \in Range(todo[r]) /\ m \notin Logged
    BY <1>0, <1>3 DEF LogInbound, Once, Fresh
  <2>2. Logged' = Logged \cup {m}
    BY <1>3, <2>1 DEF LogInbound, Logged, Once, Typed, TypeOK, RowStates
  <2>3. UNCHANGED <<todo, pending, batch, owner>>
    BY <1>3 DEF LogInbound, queue, tasks
  <2>4. rpc'[r] = "submit" /\ \A s \in Requests : s # r => rpc'[s] = rpc[s]
    BY <1>3 DEF LogInbound, Once, Typed, TypeOK
  <2>5. \A s \in Requests : s # r /\ rpc[s] = "log" => Head(todo[s]) # m
    BY <1>0, <2>1 DEF Once, LoopsApart
  <2>6. /\ \A u \in Users : m \notin Range(pending[u])
        /\ \A t \in Turns : m \notin Range(batch[t])
    BY <2>1 DEF Once, BurstsApart, Burst
  <2> HIDE DEF m
  <2>7. Fresh'
    BY <2>2, <2>3, <2>4, <2>5, <2>6 DEF Once, Fresh, m
  <2>8. LoopsApart' /\ BurstsApart'
    BY <2>2, <2>3, BurstsKept DEF Once, LoopsApart
  <2> QED BY <2>7, <2>8
<1>4. ASSUME NEW r \in Requests, Submit(r) PROVE LoopsApart' /\ Fresh' /\ BurstsApart'
  <2> DEFINE m == Head(todo[r])
             u == From[m]
  <2>1. /\ m \in Messages /\ m \in Range(todo[r]) /\ u \in Users /\ m \in Logged
        /\ todo[r] # <<>>
    BY <1>0, <1>4 DEF Submit, Once, Fresh
  <2>2. /\ \A v \in Users : m \notin Range(pending[v])
        /\ \A t \in Turns : m \notin Range(batch[t])
    BY <1>4 DEF Submit, Once, Fresh
  <2>3. pending' = [pending EXCEPT ![u] = Append(@, m)] /\ UNCHANGED <<row, batch, owner>>
    BY <1>4 DEF Submit, database, tasks
  <2>4. \A v \in Users : pending[v] \in Seq(Messages)
    BY DEF Once, Typed, TypeOK
  <2>5. /\ pending'[u] = Append(pending[u], m)
        /\ \A v \in Users : v # u => pending'[v] = pending[v]
    BY <2>1, <2>3 DEF Once, Typed, TypeOK
  <2> HIDE DEF m, u
  <2>6. Range(pending'[u]) = Range(pending[u]) \cup {m} /\ IsInjective(pending'[u])
    BY <2>1, <2>2, <2>4, <2>5, RangeOfAppend, AppendStaysInjective DEF Once, BurstsApart, Burst
  <2>7. BurstsApart'
    <3>1. Logged' = Logged
      BY <2>3 DEF Logged
    <3>2. From[m] = u
      BY DEF u
    <3>3. \A v \in Users : Burst(pending[v], v)'
      <4>1. \A v \in Users : Burst(pending[v], v)
        BY DEF Once, BurstsApart
      <4>2. ASSUME NEW v \in Users, v # u PROVE Burst(pending[v], v)'
        BY <2>5, <3>1, <4>1, <4>2 DEF Burst
      <4>3. \A n \in Range(pending[u]) : n \in Logged /\ From[n] = u
        BY <2>1, <4>1 DEF Burst
      <4>4. \A n \in Range(pending'[u]) : n \in Logged' /\ From[n] = u
        BY <2>1, <2>6, <3>1, <3>2, <4>3
      <4> QED BY <2>6, <4>2, <4>4 DEF Burst
    <3>4. \A t \in Turns : Burst(batch[t], owner[t])'
      <4>1. \A t \in Turns : Burst(batch[t], owner[t])
        BY DEF Once, BurstsApart
      <4> QED BY <2>3, <3>1, <4>1 DEF Burst
    <3>5. \A v \in Users, t \in Turns : Range(pending'[v]) \cap Range(batch'[t]) = {}
      <4>1. \A v \in Users, t \in Turns : Range(pending[v]) \cap Range(batch[t]) = {}
        BY DEF Once, BurstsApart
      <4>2. \A v \in Users : v # u => Range(pending'[v]) = Range(pending[v])
        BY <2>5
      <4>3. batch' = batch /\ \A t \in Turns : m \notin Range(batch[t])
        BY <2>2, <2>3
      <4> QED BY <2>1, <2>6, <4>1, <4>2, <4>3
    <3> QED BY <2>3, <3>3, <3>4, <3>5 DEF Once, BurstsApart
  <2>8. Advance(r)
    BY <1>4 DEF Submit
  <2>9. LoopsApart'
    BY <2>1, <2>8, AdvanceKeepsApart
  <2>10. Fresh'
    <3>1. \A s \in Requests : s # r /\ rpc[s] = "submit" => Head(todo[s]) # m
      BY <1>0, <2>1 DEF Once, LoopsApart
    <3>2. \A s \in Requests : s # r => todo'[s] = todo[s] /\ rpc'[s] = rpc[s]
      BY <2>1, <2>8, AdvanceKeepsApart
    <3>3. rpc'[r] \in {"idle", "check"}
      BY <2>1, <2>8, AdvanceKeepsApart
    <3>4. Logged' = Logged
      BY <2>3 DEF Logged
    <3> QED BY <2>3, <2>5, <2>6, <3>1, <3>2, <3>3, <3>4 DEF Once, Fresh
  <2> QED BY <2>7, <2>9, <2>10
<1>5. ASSUME NEW r \in Requests, RequestFails(r) PROVE LoopsApart' /\ Fresh' /\ BurstsApart'
  <2>1. /\ todo'[r] = <<>> /\ rpc'[r] = "idle"
        /\ \A s \in Requests : s # r => todo'[s] = todo[s] /\ rpc'[s] = rpc[s]
    BY <1>5 DEF RequestFails, Once, Typed, TypeOK
  <2>2. UNCHANGED <<row, pending, batch, owner>>
    BY <1>5 DEF RequestFails, database, queue, tasks
  <2> QED BY <2>1, <2>2, EmptyBurst, BurstsKept DEF Once, LoopsApart, Fresh, Logged
<1>6. ASSUME NEW u \in Users, Fire(u) PROVE LoopsApart' /\ Fresh' /\ BurstsApart'
  <2>1. UNCHANGED <<row, rpc, todo>>
    BY <1>6 DEF Fire, database, webhook
  <2>2. pending'[u] = <<>> /\ \A v \in Users : v # u => pending'[v] = pending[v]
    BY <1>6 DEF Fire, Once, Typed, TypeOK
  <2>3. CASE pending[u] = <<>>
    <3>1. UNCHANGED <<batch, owner>> /\ \A v \in Users : pending'[v] = pending[v]
      BY <1>6, <2>2, <2>3 DEF Fire, tasks
    <3>2. LoopsApart' /\ Fresh'
      BY <2>1, <3>1 DEF Once, LoopsApart, Fresh, Logged
    <3> QED BY <2>1, <3>1, <3>2 DEF Once, BurstsApart, Burst, Logged
  <2>4. CASE pending[u] # <<>>
    <3> DEFINE n == started + 1
    <3>1. n \in Turns
      BY <1>6, <2>4, TurnsAssumption DEF Fire, Once, Typed, TypeOK, Turns
    <3>2. /\ batch' = [batch EXCEPT ![n] = pending[u]]
          /\ owner' = [owner EXCEPT ![n] = u]
      BY <1>6, <2>4 DEF Fire
    <3> HIDE DEF n
    <3>3. /\ batch'[n] = pending[u] /\ owner'[n] = u
          /\ \A t \in Turns : t # n => batch'[t] = batch[t] /\ owner'[t] = owner[t]
      BY <3>1, <3>2 DEF Once, Typed, TypeOK
    <3>4. Logged' = Logged
      BY <2>1 DEF Logged
    <3>5. BurstsApart'
      <4>1. \A v \in Users : Burst(pending[v], v)'
        BY <2>2, <3>4, EmptyBurst DEF Once, BurstsApart, Burst
      <4>2. \A t \in Turns : Burst(batch[t], owner[t])'
        BY <3>1, <3>3, <3>4 DEF Once, BurstsApart, Burst
      <4>3. \A v \in Users, t \in Turns : Range(pending'[v]) \cap Range(batch'[t]) = {}
        <5>1. \A v \in Users : v # u => Range(pending[v]) \cap Range(pending[u]) = {}
          BY DEF Once, BurstsApart, Burst
        <5> QED BY <2>2, <3>1, <3>3, <5>1, EmptyBurst DEF Once, BurstsApart
      <4>4. \A s, t \in Turns : s # t => Range(batch'[s]) \cap Range(batch'[t]) = {}
        BY <3>1, <3>3 DEF Once, BurstsApart
      <4> QED BY <4>1, <4>2, <4>3, <4>4 DEF BurstsApart
    <3>6. Fresh'
      BY <2>1, <2>2, <3>1, <3>3, <3>4, EmptyBurst DEF Once, Fresh
    <3> QED BY <2>1, <3>5, <3>6 DEF Once, LoopsApart
  <2> QED BY <2>3, <2>4
<1>7. ASSUME NEW t \in Turns, BuildBlocks(t) PROVE LoopsApart' /\ Fresh' /\ BurstsApart'
  <2>1. UNCHANGED <<rpc, todo, pending, batch, owner>>
    BY <1>7 DEF BuildBlocks, Goto, queue, webhook
  <2>2. Media(t) \subseteq Logged
    BY DEF Media, Once, BurstsApart, Burst
  <2>3. Logged' = Logged
    BY <1>7, <2>2 DEF BuildBlocks, Logged
  <2> QED BY <2>1, <2>3, BurstsKept DEF Once, LoopsApart, Fresh
<1>8. ASSUME UNCHANGED <<row, rpc, todo, pending, batch, owner>>
      PROVE  LoopsApart' /\ Fresh' /\ BurstsApart'
  BY <1>8, BurstsKept DEF Once, LoopsApart, Fresh, Logged
<1>9. CASE Crash
  <2>1. /\ UNCHANGED <<row, batch, owner>>
        /\ rpc' = [r \in Requests |-> "idle"] /\ todo' = [r \in Requests |-> <<>>]
        /\ pending' = [u \in Users |-> <<>>]
    BY <1>9 DEF Crash, database
  <2> QED BY <2>1, EmptyBurst DEF Once, LoopsApart, Fresh, BurstsApart, Burst, Logged
<1>10. ASSUME NEW u \in Users, Deactivate(u) PROVE LoopsApart' /\ Fresh' /\ BurstsApart'
  BY <1>8, <1>10 DEF Deactivate, webhook, queue, tasks
<1>11. ASSUME NEW t \in Turns, Acquire(t) PROVE LoopsApart' /\ Fresh' /\ BurstsApart'
  BY <1>8, <1>11 DEF Acquire, webhook, database
<1>12. ASSUME NEW t \in Turns, HandleTurn(t) PROVE LoopsApart' /\ Fresh' /\ BurstsApart'
  <2>1. CASE ReadHistory(t) \/ RunAgent(t) \/ Break(t)
    BY <1>8, <2>1 DEF ReadHistory, RunAgent, Break, Goto, webhook, database, queue
  <2>2. CASE SendReply(t) \/ SendApology(t)
    BY <1>8, <2>2 DEF SendReply, SendApology, Goto, End, webhook, database, queue
  <2>3. CASE LogReply(t) \/ LogApology(t)
    BY <1>8, <2>3 DEF LogReply, LogApology, End, webhook
  <2> QED BY <1>7, <1>12, <2>1, <2>2, <2>3 DEF HandleTurn
<1>13. CASE UNCHANGED vars
  BY <1>8, <1>13 DEF vars, webhook, database, queue, tasks
<1> QED
  BY <1>1, <1>2, <1>3, <1>4, <1>5, <1>6, <1>9, <1>10, <1>11, <1>12, <1>13 DEF Next, RequestStep

\* Where the invariant holds, two claims on a message are the same claim.
LEMMA OnceIsAtMostOnce == Once => AtMostOnce
<1> SUFFICES ASSUME Once, NEW m \in Messages, NEW a \in Claims(m), NEW b \in Claims(m)
             PROVE  a = b
  BY DEF AtMostOnce
<1> DEFINE AtRequest(c) == \E r \in Requests : /\ c = <<"request", r>>
                                               /\ rpc[r] = "submit" /\ Head(todo[r]) = m
           InPending(c) == \E i \in DOMAIN pending[From[m]] : /\ c = <<"pending", i>>
                                                              /\ pending[From[m]][i] = m
           InTurn(c) == \E t \in Turns : \E i \in DOMAIN batch[t] : /\ c = <<"turn", t, i>>
                                                                    /\ batch[t][i] = m
<1>1. \A c \in Claims(m) : AtRequest(c) \/ InPending(c) \/ InTurn(c)
  BY DEF Claims
<1>2. \A r \in Requests : rpc[r] = "submit" => Head(todo[r]) \in Range(todo[r])
  BY RangeOfTail DEF Once, Typed, TypeOK, Busy
<1>3. From[m] \in Users
  BY TurnsAssumption
<1>4. ASSUME AtRequest(a), AtRequest(b) PROVE a = b
  BY <1>2, <1>4 DEF Once, LoopsApart
<1>5. ASSUME InPending(a), InPending(b) PROVE a = b
  BY <1>3, <1>5 DEF Once, BurstsApart, Burst, IsInjective
<1>6. ASSUME InTurn(a), InTurn(b) PROVE a = b
  BY <1>6 DEF Once, BurstsApart, Burst, IsInjective, Range
<1>7. ASSUME NEW c, NEW d, AtRequest(c), InPending(d) \/ InTurn(d) PROVE FALSE
  BY <1>3, <1>7 DEF Once, Fresh, Range
<1>8. ASSUME NEW c, NEW d, InPending(c), InTurn(d) PROVE FALSE
  BY <1>3, <1>8 DEF Once, BurstsApart, Range
<1> HIDE DEF AtRequest, InPending, InTurn
<1> QED BY <1>1, <1>4, <1>5, <1>6, <1>7, <1>8

\* receive's dedup is exact as long as no two attempts at one payload are in
\* flight together; Turns_race shows that this assumption is needed.
THEOREM SerialDeliveryRunsOnce == ASSUME SerialDelivery PROVE Spec => []AtMostOnce
<1>1. Once /\ [Next]_vars => Once'
  BY OnceStep, SerialDelivery
<1> QED BY OnceInit, <1>1, OnceIsAtMostOnce, PTL DEF Spec

-----------------------------------------------------------------------------
(* The past of a turn.                                                      *)

Born(t) == pc[t] # "unborn"
Past(t) == pc[t] \notin {"unborn", "waiting"}   \* it has had the lock

\* Turn tasks are numbered in the order they start.
StartedInOrder == \A t \in Turns : Born(t) <=> t <= started

\* The lock is first in, first out.
LockedInOrder ==
  \A s, t \in Turns : s < t /\ owner[s] = owner[t] /\ Past(t) => pc[s] # "waiting"

\* A turn that ended with a logged answer has its row in the thread.
LoggedHasRow ==
  \A s \in Turns : outcome[s] = "logged" => \E i \in assistant : i[1] = s

\* What a reader t knows of an earlier turn s.
Knows(t, s) ==
  /\ pc[s] = "ended"
  /\ ~Full(t) => /\ Range(batch[s]) \subseteq heard[t]
                 /\ outcome[s] = "logged" => \E i \in recalled[t] : i[1] = s

Readers == {"agent", "send", "log"}

Informed ==
  \A s, t \in Turns :
    s < t /\ owner[s] = owner[t] /\ Born(s) /\ pc[t] \in Readers => Knows(t, s)

InOrder == StartedInOrder /\ LockedInOrder /\ LoggedHasRow /\ Informed
Read == Safe /\ Once /\ InOrder

\* Nothing has been read at first.
LEMMA ReadInit == Init => Read
<1> SUFFICES ASSUME Init PROVE InOrder
  BY SafeInit, OnceInit DEF Read
<1>1. \A t \in Turns : pc[t] = "unborn" /\ outcome[t] = "none"
  BY DEF Init
<1>2. started = 0 /\ \A t \in Turns : t \in Nat /\ ~(t <= 0)
  BY DEF Init, Turns
<1> QED BY <1>1, <1>2 DEF InOrder, StartedInOrder, LockedInOrder, LoggedHasRow, Informed,
                          Born, Past, Readers

\* Steps outside the turns disturb none of this.
LEMMA ReadKept ==
  ASSUME Read, UNCHANGED <<assistant, started, tasks>>
  PROVE  InOrder'
  BY DEF Read, InOrder, StartedInOrder, LockedInOrder, LoggedHasRow, Informed, Knows,
         Full, Born, Past, Readers, tasks

\* A running turn that moves on, or ends, and has not just read its history.
LEMMA MovesOn ==
  ASSUME Read, NEW t \in Turns, pc[t] \in Running,
         UNCHANGED <<started, owner, batch, heard, recalled>>,
         assistant \subseteq assistant',
         \A s \in Turns : s # t => pc'[s] = pc[s] /\ outcome'[s] = outcome[s],
         pc'[t] \in Running \cup {"ended"},
         pc'[t] \in Readers => pc[t] \in Readers,
         outcome'[t] = "logged" => \E i \in assistant' : i[1] = t,
         pc[t] \in Readers => outcome'[t] = outcome[t] \/ pc'[t] = "ended"
  PROVE  InOrder'
<1> USE DEF Read, InOrder
<1>1. StartedInOrder' /\ LockedInOrder'
  BY DEF StartedInOrder, LockedInOrder, Born, Past, Running
<1>2. LoggedHasRow'
  BY DEF LoggedHasRow
<1>3. ASSUME NEW r \in Turns, NEW s \in Turns, s < r, owner[s] = owner[r], Born(s)',
             pc'[r] \in Readers
      PROVE  Knows(r, s)'
  <2>1. Born(s) /\ pc[r] \in Readers
    BY <1>3 DEF Born, Running
  <2>2. Knows(r, s)
    BY <1>3, <2>1 DEF Informed
  <2>3. s # t
    BY <2>2 DEF Knows, Running
  <2> QED BY <2>2, <2>3 DEF Knows, Full
<1>4. Informed'
  BY <1>3 DEF Informed
<1> QED BY <1>1, <1>2, <1>4

\* Every step keeps what a turn that has read may rely on.
LEMMA ReadStep == ASSUME SerialDelivery PROVE Read /\ [Next]_vars => Read'
<1> SUFFICES ASSUME Read, [Next]_vars PROVE InOrder'
  BY SafeStep, OnceStep, SerialDelivery DEF Read
<1>0. TypeOK /\ MutualExclusion /\ \A t \in Turns : t \in Nat
  BY DEF Read, Safe, Typed, Turns
<1>1. ASSUME NEW r \in Requests, NEW p \in Payloads, Deliver(r, p) PROVE InOrder'
  BY <1>1, ReadKept DEF Deliver, database, queue
<1>2. ASSUME NEW r \in Requests, Check(r) \/ LogInbound(r) \/ Submit(r) \/ RequestFails(r)
      PROVE  InOrder'
  BY <1>2, ReadKept DEF Check, LogInbound, Submit, RequestFails, database, queue
<1>3. ASSUME NEW u \in Users, Deactivate(u) PROVE InOrder'
  BY <1>3, ReadKept DEF Deactivate, queue
<1>4. ASSUME NEW u \in Users, Fire(u) PROVE InOrder'
  <2>1. CASE UNCHANGED <<started, tasks>>
    BY <1>4, <2>1, ReadKept DEF Fire, database
  <2>2. CASE pending[u] # <<>>
    <3> DEFINE n == started + 1
    <3>1. n \in Turns /\ started \in Nat
      BY <1>0, <1>4, <2>2, TurnsAssumption DEF Fire, TypeOK, Turns
    <3>2. started' = n /\ UNCHANGED <<assistant, heard, recalled, outcome>>
      BY <1>4, <2>2 DEF Fire, database
    <3>3. /\ pc' = [pc EXCEPT ![n] = "waiting"]
          /\ owner' = [owner EXCEPT ![n] = u]
          /\ batch' = [batch EXCEPT ![n] = pending[u]]
      BY <1>4, <2>2 DEF Fire
    <3>4. \A t \in Turns : t <= started' <=> t <= started \/ t = n
      BY <1>0, <3>1, <3>2
    <3> HIDE DEF n
    <3>5. /\ pc'[n] = "waiting"
          /\ \A t \in Turns : t # n => pc'[t] = pc[t] /\ owner'[t] = owner[t] /\ batch'[t] = batch[t]
      BY <1>0, <3>1, <3>3 DEF TypeOK
    <3>6. \A t \in Turns : n < t => ~Born(t)
      BY <1>0, <3>1 DEF Read, InOrder, StartedInOrder, n
    <3>7. StartedInOrder'
      BY <3>4, <3>5 DEF Read, InOrder, StartedInOrder, Born
    <3>8. LockedInOrder' /\ LoggedHasRow'
      BY <3>2, <3>5, <3>6 DEF Read, InOrder, LockedInOrder, LoggedHasRow, Born, Past
    <3>9. Informed'
      BY <3>1, <3>2, <3>5, <3>6 DEF Read, InOrder, Informed, Knows, Full, Born, Readers
    <3> QED BY <3>7, <3>8, <3>9 DEF InOrder
  <2> QED BY <1>4, <2>1, <2>2 DEF Fire
<1>5. ASSUME NEW t \in Turns, Acquire(t) PROVE InOrder'
  <2>1. /\ pc[t] = "waiting" /\ pc'[t] = "build"
        /\ \A s \in Turns : s # t => pc'[s] = pc[s]
        /\ UNCHANGED <<assistant, started, owner, batch, heard, recalled, outcome>>
    BY <1>0, <1>5 DEF Acquire, TypeOK, database
  <2>2. \A s \in Turns : pc[s] = "waiting" /\ owner[s] = owner[t] => t <= s
    BY <1>5 DEF Acquire
  <2>3. \A s \in Turns : s < t => ~(t <= s)
    BY <1>0
  <2>4. StartedInOrder' /\ LoggedHasRow'
    BY <2>1 DEF Read, InOrder, StartedInOrder, LoggedHasRow, Born
  <2>5. LockedInOrder'
    BY <2>1, <2>2, <2>3 DEF Read, InOrder, LockedInOrder, Past
  <2>6. Informed'
    BY <2>1 DEF Read, InOrder, Informed, Knows, Full, Born, Readers
  <2> QED BY <2>4, <2>5, <2>6 DEF InOrder
<1>6. ASSUME NEW t \in Turns, BuildBlocks(t) \/ RunAgent(t) \/ Break(t) PROVE InOrder'
  <2>1. /\ pc[t] \in Running /\ pc'[t] \in Running
        /\ \A s \in Turns : s # t => pc'[s] = pc[s]
        /\ UNCHANGED <<assistant, started, owner, batch, heard, recalled, outcome>>
        /\ pc'[t] \in Readers => pc[t] \in Readers
    BY <1>0, <1>6 DEF BuildBlocks, RunAgent, Break, Goto, TypeOK, database, queue, Running,
                      TurnStates, Readers
  <2>2. outcome'[t] = "logged" => \E i \in assistant' : i[1] = t
    BY <2>1 DEF Read, InOrder, LoggedHasRow
  <2> QED BY <2>1, <2>2, MovesOn
<1>7. ASSUME NEW t \in Turns, SendReply(t) \/ SendApology(t) PROVE InOrder'
  <2>1. /\ pc[t] \in Running /\ pc'[t] \in Running \cup {"ended"}
        /\ \A s \in Turns : s # t => pc'[s] = pc[s] /\ outcome'[s] = outcome[s]
        /\ UNCHANGED <<assistant, started, owner, batch, heard, recalled>>
        /\ pc'[t] \in Readers => pc[t] \in Readers
        /\ pc'[t] # "ended" => outcome'[t] = outcome[t]
        /\ outcome'[t] = outcome[t] \/ outcome'[t] \in {"silent", "unlogged"}
    BY <1>0, <1>7 DEF SendReply, SendApology, Goto, End, TypeOK, database, queue, Running,
                      TurnStates, Readers
  <2>2. outcome'[t] = "logged" => \E i \in assistant' : i[1] = t
    BY <2>1 DEF Read, InOrder, LoggedHasRow
  <2> QED BY <2>1, <2>2, MovesOn
<1>8. ASSUME NEW t \in Turns, LogReply(t) \/ LogApology(t) PROVE InOrder'
  <2>1. /\ pc[t] \in Running /\ pc'[t] = "ended"
        /\ \A s \in Turns : s # t => pc'[s] = pc[s] /\ outcome'[s] = outcome[s]
        /\ UNCHANGED <<started, owner, batch, heard, recalled>>
    BY <1>0, <1>8 DEF LogReply, LogApology, End, TypeOK, Running, TurnStates
  <2>2. assistant \subseteq assistant'
    BY <1>8 DEF LogReply, LogApology
  <2>3. outcome'[t] = "logged" => \E i \in assistant' : i[1] = t
    <3>1. \A how : End(t, how) => outcome'[t] = how
      BY <1>0 DEF End, TypeOK
    <3>2. \/ End(t, "unlogged")
          \/ \E what \in {"reply", "apology"} : assistant' = assistant \cup {<<t, what>>}
      BY <1>8 DEF LogReply, LogApology
    <3>3. ASSUME NEW what, assistant' = assistant \cup {<<t, what>>}
          PROVE  \E i \in assistant' : i[1] = t
      <4>1. <<t, what>> \in assistant' /\ <<t, what>>[1] = t
        BY <3>3
      <4> QED BY <4>1
    <3> QED BY <3>1, <3>2, <3>3
  <2>4. pc'[t] \notin Readers
    BY <2>1 DEF Readers
  <2> QED BY <2>1, <2>2, <2>3, <2>4, MovesOn
<1>9. ASSUME NEW t \in Turns, ReadHistory(t) PROVE InOrder'
  <2> DEFINE u == owner[t]
  <2>1. /\ pc[t] = "read" /\ pc'[t] = "agent"
        /\ \A s \in Turns : s # t => /\ pc'[s] = pc[s]
                                     /\ heard'[s] = heard[s] /\ recalled'[s] = recalled[s]
        /\ UNCHANGED <<assistant, started, owner, batch, outcome>>
    BY <1>0, <1>9 DEF ReadHistory, Goto, TypeOK, database, queue
  <2>2. ~Full(t)' => /\ heard'[t] = {m \in Logged : From[m] = u} \ Range(batch[t])
                     /\ recalled'[t] = {i \in assistant : owner[i[1]] = u}
    BY <1>0, <1>9 DEF ReadHistory, Full, TypeOK
  <2>3. StartedInOrder' /\ LoggedHasRow'
    BY <2>1 DEF Read, InOrder, StartedInOrder, LoggedHasRow, Born
  <2>4. LockedInOrder'
    BY <2>1 DEF Read, InOrder, LockedInOrder, Past
  <2>5. ASSUME NEW s \in Turns, s < t, owner[s] = u, Born(s) PROVE Knows(t, s)'
    <3>1. s # t
      BY <1>0, <2>5
    <3>2. pc[s] # "waiting" /\ pc[s] \notin Running
      BY <1>0, <2>1, <2>5, <3>1 DEF Read, InOrder, LockedInOrder, Past, MutualExclusion,
                                    Running, TurnStates
    <3>3. pc[s] = "ended"
      BY <1>0, <2>5, <3>2 DEF TypeOK, Born, Running
    <3>4. ~Full(t)' => Range(batch[s]) \subseteq heard'[t]
      BY <2>2, <2>5, <3>1 DEF Read, Once, BurstsApart, Burst
    <3>5. ~Full(t)' => (outcome[s] = "logged" => \E i \in recalled'[t] : i[1] = s)
      BY <2>2, <2>5 DEF Read, InOrder, LoggedHasRow
    <3> QED BY <2>1, <3>1, <3>3, <3>4, <3>5 DEF Knows
  <2>6. ASSUME NEW r \in Turns, NEW s \in Turns, s < r, owner[s] = owner[r], Born(s),
               r # t, pc[r] \in Readers
        PROVE  Knows(r, s)'
    <3>1. Knows(r, s)
      BY <2>6 DEF Read, InOrder, Informed
    <3>2. s # t
      BY <2>1, <3>1 DEF Knows
    <3> QED BY <2>1, <2>6, <3>1, <3>2 DEF Knows, Full
  <2>7. Informed'
    <3> HIDE DEF u
    <3> SUFFICES ASSUME NEW s \in Turns, NEW r \in Turns, s < r, owner'[s] = owner'[r],
                        Born(s)', pc'[r] \in Readers
                 PROVE  Knows(r, s)'
      BY DEF Informed
    <3>1. Born(s) /\ owner[s] = owner[r]
      BY <2>1 DEF Born
    <3>2. CASE r = t
      BY <2>5, <3>1, <3>2 DEF u
    <3>3. CASE r # t
      BY <2>1, <2>6, <3>1, <3>3
    <3> QED BY <3>2, <3>3
  <2> QED BY <2>3, <2>4, <2>7 DEF InOrder
<1>10. CASE Crash
  <2>1. /\ UNCHANGED <<assistant, started, owner, batch, heard, recalled>>
        /\ \A t \in Turns : /\ pc'[t] = IF Live(t) THEN "ended" ELSE pc[t]
                            /\ outcome'[t] = IF Live(t) THEN "killed" ELSE outcome[t]
    BY <1>10 DEF Crash, database
  <2>2. \A t \in Turns : /\ Born(t)' <=> Born(t)
                         /\ pc'[t] \notin Readers \cup {"waiting"}
                         /\ outcome'[t] = "logged" => outcome[t] = "logged"
    BY <2>1 DEF Born, Live, Readers
  <2> QED BY <2>1, <2>2 DEF Read, InOrder, StartedInOrder, LockedInOrder, LoggedHasRow, Informed
<1>11. CASE UNCHANGED vars
  BY <1>11, ReadKept DEF vars, database, queue, tasks
<1>12. ASSUME NEW t \in Turns, HandleTurn(t) PROVE InOrder'
  BY <1>6, <1>7, <1>8, <1>9, <1>12 DEF HandleTurn
<1> QED
  BY <1>1, <1>2, <1>3, <1>4, <1>5, <1>10, <1>11, <1>12 DEF Next, RequestStep

\* Every earlier turn of the thread is over; its messages are in the history
\* the model is given, and so is the answer it logged, unless that history has
\* as many rows as messages.recent reads (design 5.1).
THEOREM HistoryIsComplete == ASSUME SerialDelivery PROVE Spec => []SeesThePast
<1>1. Read /\ [Next]_vars => Read'
  BY ReadStep, SerialDelivery
<1>2. Read => SeesThePast
  BY DEF Read, InOrder, Informed, Knows, Born, Readers, SeesThePast
<1> QED BY ReadInit, <1>1, <1>2, PTL DEF Spec

-----------------------------------------------------------------------------
(* The failure notes.                                                       *)

\* Until its blocks are built, nothing is noted about a burst, and no row of it
\* is amended.
Unamended ==
  /\ \A t \in Turns : pc[t] \in {"unborn", "waiting", "build"} => noted[t] = {}
  /\ \A u \in Users : \A m \in Range(pending[u]) : row[m] # "failed"
  /\ \A r \in Requests : rpc[r] = "submit" => row[Head(todo[r])] # "failed"

Visible == Unamended /\ FailureIsVisible

\* Nothing has failed at first.
LEMMA VisibleInit == Init => Visible
  BY EmptyBurst DEF Init, Visible, Unamended, FailureIsVisible, Live

\* Steps outside the burst's rows, notes and queue.
LEMMA VisibleKept ==
  ASSUME Visible, UNCHANGED <<row, noted, pending, batch>>,
         \A t \in Turns : pc'[t] \in {"unborn", "waiting", "build"} =>
                            pc[t] \in {"unborn", "waiting", "build"},
         \A t \in Turns : Live(t)' => Live(t),
         \A r \in Requests : rpc'[r] = "submit" => rpc[r] = "submit" /\ todo'[r] = todo[r]
  PROVE  Visible'
  BY DEF Visible, Unamended, FailureIsVisible

\* Every step keeps the notes and the rows in agreement.
LEMMA VisibleStep == Read /\ Visible /\ [Next]_vars => Visible'
<1> SUFFICES ASSUME Read, Visible, [Next]_vars PROVE Visible'
  OBVIOUS
<1>0. TypeOK /\ BurstsApart
  BY DEF Read, Safe, Typed, Once
<1>1. ASSUME NEW r \in Requests, NEW p \in Payloads, Deliver(r, p) PROVE Visible'
  <2>1. \A q \in Requests : rpc'[q] = "submit" => rpc[q] = "submit" /\ todo'[q] = todo[q]
    BY <1>0, <1>1 DEF Deliver, TypeOK
  <2> QED BY <1>1, <2>1, VisibleKept DEF Deliver, database, queue, tasks, Live
<1>2. ASSUME NEW r \in Requests, Check(r) \/ RequestFails(r) PROVE Visible'
  <2>1. \A q \in Requests : rpc'[q] = "submit" => rpc[q] = "submit" /\ todo'[q] = todo[q]
    BY <1>0, <1>2 DEF Check, RequestFails, Advance, TypeOK
  <2> QED BY <1>2, <2>1, VisibleKept DEF Check, RequestFails, database, queue, tasks, Live
<1>3. ASSUME NEW r \in Requests, LogInbound(r) PROVE Visible'
  <2> DEFINE m == Head(todo[r])
  <2>1. m \in Messages /\ row[m] = "absent"
    BY <1>3, RestOfLoop DEF LogInbound, Read, Once, Typed, TypeOK, Busy, Fresh, Logged
  <2>2. row'[m] = "received" /\ \A n \in Messages : n # m => row'[n] = row[n]
    BY <1>0, <1>3, <2>1 DEF LogInbound, TypeOK
  <2>3. /\ UNCHANGED <<todo, pending, pc, batch, noted>>
        /\ \A q \in Requests : q # r => rpc'[q] = rpc[q]
    BY <1>0, <1>3 DEF LogInbound, queue, tasks, TypeOK
  <2>4. \A q \in Requests : rpc[q] = "submit" => Head(todo[q]) \in Messages
    BY RestOfLoop DEF Read, Once, Typed, TypeOK, Busy
  <2>5. \A t \in Turns : \A n \in Range(batch[t]) : n # m /\ n \in Messages
    BY <1>0, <2>1 DEF BurstsApart, Burst, Logged
  <2>6. \A u \in Users : \A n \in Range(pending[u]) : n # m /\ n \in Messages
    BY <1>0, <2>1 DEF BurstsApart, Burst, Logged
  <2> HIDE DEF m
  <2>7. Unamended'
    BY <2>2, <2>3, <2>4, <2>6 DEF Visible, Unamended, m
  <2>8. FailureIsVisible'
    BY <2>2, <2>3, <2>5 DEF Visible, FailureIsVisible, Live
  <2> QED BY <2>7, <2>8 DEF Visible
<1>4. ASSUME NEW r \in Requests, Submit(r) PROVE Visible'
  <2> DEFINE m == Head(todo[r])
             u == From[m]
  <2>1. m \in Messages /\ u \in Users /\ todo[r] # <<>> /\ row[m] # "failed"
    BY <1>4, RestOfLoop, TurnsAssumption
       DEF Submit, Read, Once, Typed, TypeOK, Busy, Visible, Unamended
  <2>2. pending' = [pending EXCEPT ![u] = Append(@, m)] /\ UNCHANGED <<row, pc, batch, noted>>
    BY <1>4 DEF Submit, database, tasks
  <2>3. \A q \in Requests : rpc'[q] = "submit" => rpc[q] = "submit" /\ todo'[q] = todo[q]
    BY <1>4, <2>1, AdvanceKeepsApart DEF Submit, Read
  <2> HIDE DEF m, u
  <2>4. \A v \in Users : \A n \in Range(pending'[v]) : n \in Range(pending[v]) \/ n = m
    BY <1>0, <2>1, <2>2, RangeOfAppend DEF TypeOK
  <2> QED BY <2>1, <2>2, <2>3, <2>4 DEF Visible, Unamended, FailureIsVisible, Live
<1>5. ASSUME NEW u \in Users, Deactivate(u) PROVE Visible'
  BY <1>5, VisibleKept DEF Deactivate, webhook, queue, tasks, Live
<1>6. ASSUME NEW u \in Users, Fire(u) PROVE Visible'
  <2>0. UNCHANGED <<row, rpc, todo>>
    BY <1>6 DEF Fire, database, webhook
  <2>1. \A v \in Users : Range(pending'[v]) \subseteq Range(pending[v])
    BY <1>0, <1>6, EmptyBurst DEF Fire, TypeOK
  <2>2. CASE UNCHANGED <<started, tasks>>
    BY <2>0, <2>1, <2>2 DEF tasks, Visible, Unamended, FailureIsVisible, Live
  <2>3. CASE pending[u] # <<>> /\ started < MaxTurns
    <3> DEFINE n == started + 1
    <3>1. n \in Turns /\ started \in Nat
      BY <1>0, <2>3, TurnsAssumption DEF TypeOK, Turns
    <3>2. pc[n] = "unborn"
      BY <3>1 DEF Read, InOrder, StartedInOrder, Born
    <3>3. /\ pc' = [pc EXCEPT ![n] = "waiting"] /\ batch' = [batch EXCEPT ![n] = pending[u]]
          /\ UNCHANGED noted
      BY <1>6, <2>3 DEF Fire
    <3> HIDE DEF n
    <3>4. /\ batch'[n] = pending[u] /\ noted'[n] = {}
          /\ \A t \in Turns \ {n} : pc'[t] = pc[t] /\ batch'[t] = batch[t]
      BY <1>0, <3>1, <3>2, <3>3 DEF TypeOK, Visible, Unamended
    <3>5. Unamended'
      BY <2>0, <2>1, <3>3, <3>4 DEF Visible, Unamended
    <3>6. \A m \in Range(batch'[n]) : m \notin noted'[n] /\ row'[m] # "failed"
      BY <2>0, <3>4 DEF Visible, Unamended
    <3>7. FailureIsVisible'
      BY <2>0, <3>3, <3>4, <3>6 DEF Visible, FailureIsVisible, Live
    <3> QED BY <3>5, <3>7 DEF Visible
  <2> QED BY <1>6, <2>2, <2>3 DEF Fire
<1>7. ASSUME NEW t \in Turns, BuildBlocks(t) PROVE Visible'
  <2>1. PICK bad \in SUBSET Media(t) :
           /\ noted' = [noted EXCEPT ![t] = bad]
           /\ row' = [m \in Messages |->
                       IF m \in bad THEN "failed"
                       ELSE IF m \in Media(t) /\ Kind[m] = "audio" THEN "transcribed"
                       ELSE row[m]]
    BY <1>7 DEF BuildBlocks
  <2>2. /\ pc[t] = "build" /\ pc'[t] = "read" /\ \A s \in Turns \ {t} : pc'[s] = pc[s]
        /\ UNCHANGED <<rpc, todo, pending, batch>>
    BY <1>0, <1>7 DEF BuildBlocks, Goto, queue, webhook, TypeOK
  <2>3. noted'[t] = bad /\ \A s \in Turns \ {t} : noted'[s] = noted[s]
    BY <1>0, <2>1 DEF TypeOK
  <2>4. Media(t) \subseteq Range(batch[t])
    BY DEF Media
  <2>5. \A m \in Messages : m \notin Range(batch[t]) => row'[m] = row[m]
    BY <2>1, <2>4
  <2>6. \A m \in Range(batch[t]) : m \in Messages /\ row[m] # "failed"
    BY <1>0, <2>2 DEF BurstsApart, Burst, Logged, Visible, Unamended, FailureIsVisible, Live
  <2>7. \A m \in Range(batch[t]) : m \in noted'[t] <=> row'[m] = "failed"
    BY <2>1, <2>3, <2>6
  <2>8. ASSUME NEW s \in Turns \ {t}, NEW m \in Range(batch[s]) PROVE row'[m] = row[m]
    BY <1>0, <2>5, <2>8 DEF BurstsApart, Burst, Logged
  <2>9. ASSUME NEW u \in Users, NEW m \in Range(pending[u]) PROVE row'[m] = row[m]
    BY <1>0, <2>5, <2>9 DEF BurstsApart, Burst, Logged
  <2>10. ASSUME NEW r \in Requests, rpc[r] = "submit"
         PROVE  row'[Head(todo[r])] = row[Head(todo[r])]
    BY <2>5, <2>10, RestOfLoop DEF Read, Once, Typed, TypeOK, Busy, Fresh
  <2>11. Unamended'
    BY <2>2, <2>3, <2>9, <2>10 DEF Visible, Unamended
  <2>12. FailureIsVisible'
    BY <2>2, <2>3, <2>7, <2>8 DEF Visible, FailureIsVisible, Live
  <2> QED BY <2>11, <2>12 DEF Visible
<1>8. ASSUME NEW t \in Turns, Acquire(t) PROVE Visible'
  <2>1. /\ pc[t] = "waiting" /\ \A s \in Turns : pc'[s] = pc[s] \/ s = t
        /\ UNCHANGED <<row, rpc, todo, pending, batch, noted>>
    BY <1>0, <1>8 DEF Acquire, TypeOK, database, webhook
  <2> QED BY <2>1, VisibleKept DEF Live
<1>9. ASSUME NEW t \in Turns, HandleTurn(t), ~BuildBlocks(t) PROVE Visible'
  <2>1. UNCHANGED <<row, rpc, todo, pending, batch, noted>>
    BY <1>9 DEF HandleTurn, ReadHistory, RunAgent, Break, SendReply, LogReply, SendApology,
                LogApology, Goto, End, database, webhook, queue
  <2>2. /\ Live(t) /\ pc'[t] \notin {"unborn", "waiting", "build"}
        /\ \A s \in Turns \ {t} : pc'[s] = pc[s]
    BY <1>0, <1>9 DEF HandleTurn, ReadHistory, RunAgent, Break, SendReply, LogReply, SendApology,
                      LogApology, Goto, End, Live, TypeOK
  <2> QED BY <2>1, <2>2, VisibleKept DEF Live
<1>10. CASE Crash
  <2>1. /\ UNCHANGED <<row, batch, noted>>
        /\ rpc' = [r \in Requests |-> "idle"] /\ pending' = [u \in Users |-> <<>>]
        /\ \A t \in Turns : pc'[t] = IF Live(t) THEN "ended" ELSE pc[t]
    BY <1>10 DEF Crash, database
  <2> QED BY <2>1, EmptyBurst DEF Visible, Unamended, FailureIsVisible, Live
<1>11. CASE UNCHANGED vars
  BY <1>11, VisibleKept DEF vars, database, webhook, queue, tasks, Live
<1> QED
  BY <1>1, <1>2, <1>3, <1>4, <1>5, <1>6, <1>7, <1>8, <1>9, <1>10, <1>11 DEF Next, RequestStep

\* A photo or voice note that could not be read is a failure for the model and
\* for the thread alike: no other turn touches the rows of a burst, and a
\* message that is still queued has not been amended.
THEOREM FailuresAreShared == ASSUME SerialDelivery PROVE Spec => []FailureIsVisible
<1>1. Read /\ Visible /\ [Next]_vars => (Read /\ Visible)'
  BY ReadStep, VisibleStep, SerialDelivery
<1>2. Read /\ Visible => FailureIsVisible
  BY DEF Visible
<1> QED BY ReadInit, VisibleInit, <1>1, <1>2, PTL DEF Spec
-----------------------------------------------------------------------------
(* The queue implements Inbox.  First, the order of the turns in a set.     *)

\* Sets of turns are finite, and a turn's rank in one is a number.
LEMMA RankType ==
  ASSUME NEW W \in SUBSET Turns
  PROVE  /\ IsFiniteSet(W) /\ Cardinality(W) \in Nat
         /\ \A t \in W : Rank(W, t) \in 1..Cardinality(W)
<1>1. IsFiniteSet(Turns)
  BY FS_Interval, TurnsAssumption DEF Turns
<1>2. \A S \in SUBSET Turns : IsFiniteSet(S) /\ Cardinality(S) \in Nat
  BY <1>1, FS_Subset, FS_CardinalityType
<1>3. ASSUME NEW t \in W PROVE Rank(W, t) \in 1..Cardinality(W)
  <2> DEFINE S == {s \in W : s <= t}
  <2>1. S \in SUBSET W /\ t \in S
    BY DEF Turns
  <2>2. Cardinality(S) <= Cardinality(W) /\ Cardinality(S) \in Nat /\ Cardinality(S) # 0
    BY <1>2, <2>1, FS_Subset, FS_EmptySet
  <2> QED BY <1>2, <2>2 DEF Rank
<1> QED BY <1>2, <1>3

\* Two turns of a set differ in rank.
LEMMA RanksDiffer ==
  ASSUME NEW W \in SUBSET Turns, NEW s \in W, NEW t \in W, s < t
  PROVE  Rank(W, s) # Rank(W, t)
<1> DEFINE S == {r \in W : r <= s}
           T == {r \in W : r <= t}
<1>1. s \in Nat /\ t \in Nat /\ \A r \in W : r \in Nat
  BY DEF Turns
<1>2. S \in SUBSET T /\ t \in T /\ t \notin S
  <2>1. \A r \in W : r <= s => r <= t
    BY <1>1
  <2>2. t <= t /\ ~(t <= s)
    BY <1>1
  <2> QED BY <2>1, <2>2
<1>3. IsFiniteSet(T)
  BY RankType
<1>4. Cardinality(S) # Cardinality(T)
  BY <1>2, <1>3, FS_Subset
<1> QED BY <1>4 DEF Rank

\* Every rank is taken.
LEMMA NthIsThere ==
  ASSUME NEW W \in SUBSET Turns, NEW i \in 1..Cardinality(W)
  PROVE  Nth(W, i) \in W
<1> DEFINE N == 1..Cardinality(W)
           rank == [t \in W |-> Rank(W, t)]
<1>1. rank \in [W -> N]
  BY RankType
<1>2. \A s, t \in W : s \in Int /\ t \in Int
  BY DEF Turns
<1>3. \A s, t \in W : rank[s] = rank[t] => s = t
  BY <1>2, RanksDiffer
<1> HIDE DEF rank
<1>4. rank \in Injection(W, N)
  BY <1>1, <1>3 DEF Injection, IsInjective
<1>5. IsFiniteSet(N) /\ Cardinality(N) = Cardinality(W)
  <2>1. Cardinality(W) \in Nat
    BY RankType
  <2> QED BY <2>1, FS_Interval
<1>6. rank \in Surjection(W, N)
  BY <1>4, <1>5, FS_Injection
<1>7. \E t \in W : Rank(W, t) = i
  BY <1>6 DEF Surjection, rank
<1> QED BY <1>7 DEF Nth, Ranked

\* A turn after all the others is the last, and they keep their places.
LEMMA LastInOrder ==
  ASSUME NEW W \in SUBSET Turns, NEW n \in Turns, \A s \in W : s < n
  PROVE  /\ Cardinality(W \cup {n}) = Cardinality(W) + 1
         /\ Nth(W \cup {n}, Cardinality(W) + 1) = n
         /\ \A i \in 1..Cardinality(W) : Nth(W \cup {n}, i) = Nth(W, i)
<1> DEFINE V == W \cup {n}
<1>1. n \notin W /\ V \in SUBSET Turns /\ IsFiniteSet(W) /\ Cardinality(W) \in Nat
  BY RankType DEF Turns
<1>2. Cardinality(V) = Cardinality(W) + 1
  BY <1>1, FS_AddElement
<1>3. ASSUME NEW s \in W PROVE Rank(V, s) = Rank(W, s)
  <2>1. {r \in V : r <= s} = {r \in W : r <= s}
    BY DEF Turns
  <2> QED BY <2>1 DEF Rank
<1>4. Rank(V, n) = Cardinality(W) + 1
  <2>1. n <= n /\ \A r \in W : r <= n
    BY DEF Turns
  <2>2. {r \in V : r <= n} = V
    BY <2>1
  <2> QED BY <1>2, <2>2 DEF Rank
<1>5. \A s \in W : Rank(W, s) \in 1..Cardinality(W)
  BY RankType
<1>6. Ranked(V, Cardinality(W) + 1) = {n}
  BY <1>1, <1>3, <1>4, <1>5 DEF Ranked
<1>7. \A i \in 1..Cardinality(W) : Ranked(V, i) = Ranked(W, i)
  BY <1>1, <1>3, <1>4, <1>5 DEF Ranked
<1> HIDE DEF V
<1>8. Nth(V, Cardinality(W) + 1) = n
  BY <1>6 DEF Nth
<1>9. \A i \in 1..Cardinality(W) : Nth(V, i) = Nth(W, i)
  BY <1>7 DEF Nth
<1> QED BY <1>2, <1>8, <1>9 DEF V

\* When the first leaves, the others move up.
LEMMA FirstInOrder ==
  ASSUME NEW W \in SUBSET Turns, NEW t \in W, \A s \in W : t <= s
  PROVE  /\ Cardinality(W \ {t}) = Cardinality(W) - 1 /\ Cardinality(W) >= 1
         /\ Nth(W, 1) = t
         /\ \A i \in 1..Cardinality(W \ {t}) : Nth(W \ {t}, i) = Nth(W, i + 1)
<1> DEFINE V == W \ {t}
<1>1. V \in SUBSET Turns /\ IsFiniteSet(W) /\ Cardinality(W) \in Nat /\ W # {}
  BY RankType
<1>2. Cardinality(V) = Cardinality(W) - 1 /\ Cardinality(W) >= 1
  BY <1>1, FS_RemoveElement, FS_EmptySet
<1>3. ASSUME NEW s \in V PROVE Rank(V, s) = Rank(W, s) - 1
  <2> DEFINE S == {r \in W : r <= s}
  <2>1. {r \in V : r <= s} = S \ {t} /\ t \in S /\ S \in SUBSET W
    OBVIOUS
  <2>2. IsFiniteSet(S)
    BY <1>1, <2>1, FS_Subset
  <2>3. Cardinality(S \ {t}) = Cardinality(S) - 1
    BY <2>1, <2>2, FS_RemoveElement
  <2> QED BY <2>1, <2>3 DEF Rank
<1>4. Rank(W, t) = 1
  <2>1. t <= t /\ \A r \in W : r <= t => r = t
    BY DEF Turns
  <2>2. {r \in W : r <= t} = {t}
    BY <2>1
  <2> QED BY <2>2, FS_Singleton DEF Rank
<1>5. \A s \in V : Rank(V, s) \in 1..Cardinality(V)
  BY <1>1, RankType
<1>6. \A s \in W : Rank(W, s) \in Nat
  BY RankType
<1>7. Ranked(W, 1) = {t}
  BY <1>3, <1>4, <1>5, <1>6 DEF Ranked
<1>8. \A i \in 1..Cardinality(V) : Ranked(V, i) = Ranked(W, i + 1)
  BY <1>2, <1>3, <1>4, <1>5, <1>6 DEF Ranked
<1> HIDE DEF V
<1>9. Nth(W, 1) = t
  BY <1>7 DEF Nth
<1>10. \A i \in 1..Cardinality(V) : Nth(V, i) = Nth(W, i + 1)
  BY <1>8 DEF Nth
<1> QED BY <1>2, <1>9, <1>10 DEF V
-----------------------------------------------------------------------------
(* Then, what waits.                                                        *)

Bursts == Seq(Messages)

\* A line is a sequence of bursts.
LEMMA LineType ==
  ASSUME NEW W \in SUBSET Turns, NEW b \in [Turns -> Bursts]
  PROVE  /\ Line(W, b) \in Seq(Bursts) /\ Len(Line(W, b)) = Cardinality(W)
         /\ \A i \in 1..Cardinality(W) : Line(W, b)[i] = b[Nth(W, i)]
<1>1. Cardinality(W) \in Nat
  BY RankType
<1>2. \A i \in 1..Cardinality(W) : b[Nth(W, i)] \in Bursts
  BY NthIsThere
<1>3. Line(W, b) \in [1..Cardinality(W) -> Bursts]
  BY <1>2 DEF Line
<1> HIDE DEF Bursts
<1> QED BY <1>1, <1>3 DEF Line

\* It is made of the bursts of its turns.
LEMMA SameLine ==
  ASSUME NEW W \in SUBSET Turns, NEW b, NEW c, \A t \in W : b[t] = c[t]
  PROVE  Line(W, b) = Line(W, c)
  BY NthIsThere DEF Line

\* A turn that starts joins at the end.
LEMMA LineGrows ==
  ASSUME NEW W \in SUBSET Turns, NEW n \in Turns, \A s \in W : s < n,
         NEW b \in [Turns -> Bursts], NEW c \in [Turns -> Bursts], \A s \in W : b[s] = c[s]
  PROVE  Line(W \cup {n}, c) = Line(W, b) \o <<c[n]>>
<1> DEFINE k == Cardinality(W)
           old == Line(W, b)
           new == Line(W \cup {n}, c)
<1> HIDE DEF Bursts
<1>1. /\ k \in Nat /\ Cardinality(W \cup {n}) = k + 1
      /\ Nth(W \cup {n}, k + 1) = n /\ \A i \in 1..k : Nth(W \cup {n}, i) = Nth(W, i)
  BY RankType, LastInOrder
<1>2. /\ old \in Seq(Bursts) /\ Len(old) = k /\ \A i \in 1..k : old[i] = b[Nth(W, i)]
      /\ new \in Seq(Bursts) /\ Len(new) = k + 1
      /\ \A i \in 1..(k + 1) : new[i] = c[Nth(W \cup {n}, i)]
  BY <1>1, LineType
<1> HIDE DEF old, new
<1>3. \A i \in 1..k : Nth(W, i) \in W
  BY NthIsThere
<1> HIDE DEF k
<1>4. k + 1 \in 1..(k + 1) /\ \A i \in 1..(k + 1) : i \in 1..k \/ i = k + 1
  BY <1>1
<1>5. \A i \in 1..k : i \in 1..(k + 1)
  BY <1>1
<1>6. \A i \in 1..k : new[i] = old[i]
  <2> SUFFICES ASSUME NEW i \in 1..k PROVE new[i] = old[i]
    OBVIOUS
  <2>1. new[i] = c[Nth(W \cup {n}, i)] /\ old[i] = b[Nth(W, i)]
    BY <1>2, <1>5
  <2>2. Nth(W \cup {n}, i) = Nth(W, i) /\ Nth(W, i) \in W
    BY <1>1, <1>3
  <2> QED BY <2>1, <2>2
<1>7. new[k + 1] = c[n]
  <2>1. \A i \in 1..(k + 1) : new[i] = c[Nth(W \cup {n}, i)]
    BY <1>2
  <2>2. Nth(W \cup {n}, k + 1) = n
    BY <1>1
  <2> QED BY <1>4, <2>1, <2>2
<1>8. <<c[n]>> \in Seq(Bursts) /\ Len(<<c[n]>>) = 1 /\ <<c[n]>>[1] = c[n]
  OBVIOUS
<1>9. /\ old \o <<c[n]>> \in Seq(Bursts) /\ Len(old \o <<c[n]>>) = k + 1
      /\ \A i \in 1..(k + 1) : (old \o <<c[n]>>)[i] = IF i <= k THEN old[i] ELSE <<c[n]>>[i - k]
  BY <1>2, <1>8, ConcatProperties
<1>10. \A i \in 1..(k + 1) : new[i] = (old \o <<c[n]>>)[i]
  <2>1. ASSUME NEW i \in 1..k PROVE new[i] = (old \o <<c[n]>>)[i]
    BY <1>1, <1>6, <1>9
  <2>2. new[k + 1] = (old \o <<c[n]>>)[k + 1]
    BY <1>1, <1>7, <1>8, <1>9
  <2> QED BY <1>4, <2>1, <2>2
<1>11. new = old \o <<c[n]>>
  BY <1>2, <1>9, <1>10, SeqEqual
<1> QED BY <1>11 DEF old, new

\* The first of the line leaves it whole.
LEMMA LineShrinks ==
  ASSUME NEW W \in SUBSET Turns, NEW t \in W, \A s \in W : t <= s, NEW b \in [Turns -> Bursts]
  PROVE  Line(W, b) = <<b[t]>> \o Line(W \ {t}, b)
<1> DEFINE k == Cardinality(W \ {t})
           old == Line(W, b)
           new == Line(W \ {t}, b)
<1> HIDE DEF Bursts
<1>1. W \ {t} \in SUBSET Turns
  OBVIOUS
<1>2. /\ k \in Nat /\ Cardinality(W) = k + 1
      /\ Nth(W, 1) = t /\ \A i \in 1..k : Nth(W \ {t}, i) = Nth(W, i + 1)
  <2>1. Cardinality(W) \in Nat /\ k \in Nat
    BY <1>1, RankType
  <2> QED BY <2>1, FirstInOrder
<1>3. /\ old \in Seq(Bursts) /\ Len(old) = k + 1 /\ \A i \in 1..(k + 1) : old[i] = b[Nth(W, i)]
      /\ new \in Seq(Bursts) /\ Len(new) = k /\ \A i \in 1..k : new[i] = b[Nth(W \ {t}, i)]
  <2>1. /\ old \in Seq(Bursts) /\ Len(old) = Cardinality(W)
        /\ \A i \in 1..Cardinality(W) : old[i] = b[Nth(W, i)]
    BY LineType
  <2>2. /\ new \in Seq(Bursts) /\ Len(new) = k /\ \A i \in 1..k : new[i] = b[Nth(W \ {t}, i)]
    BY <1>1, LineType
  <2> HIDE DEF k, old, new
  <2> QED BY <1>2, <2>1, <2>2
<1> HIDE DEF k, old, new
<1>4. 1 \in 1..(k + 1) /\ \A i \in 1..(k + 1) : i = 1 \/ i \in 2..(k + 1)
  BY <1>2
<1>5. \A i \in 1..k : i + 1 \in 1..(k + 1)
  BY <1>2
<1>6. \A i \in 1..k : old[i + 1] = new[i]
  BY <1>2, <1>3, <1>5
<1>7. old[1] = b[t]
  BY <1>2, <1>3, <1>4
<1>8. <<b[t]>> \in Seq(Bursts) /\ Len(<<b[t]>>) = 1 /\ <<b[t]>>[1] = b[t]
  OBVIOUS
<1>9. /\ <<b[t]>> \o new \in Seq(Bursts) /\ Len(<<b[t]>> \o new) = 1 + k
      /\ \A i \in 1..(1 + k) : (<<b[t]>> \o new)[i] = IF i <= 1 THEN <<b[t]>>[i] ELSE new[i - 1]
  BY <1>3, <1>8, ConcatProperties
<1>10. \A i \in 1..(k + 1) : old[i] = (<<b[t]>> \o new)[i]
  <2>1. ASSUME NEW i \in 2..(k + 1) PROVE old[i] = (<<b[t]>> \o new)[i]
    <3>1. i - 1 \in 1..k /\ (i - 1) + 1 = i
      BY <1>2
    <3>2. old[i] = new[i - 1]
      BY <1>6, <3>1
    <3> QED BY <1>2, <1>9, <3>2
  <2>2. old[1] = (<<b[t]>> \o new)[1]
    BY <1>2, <1>7, <1>8, <1>9
  <2> QED BY <1>4, <2>1, <2>2
<1>11. old = <<b[t]>> \o new
  BY <1>2, <1>3, <1>9, <1>10, SeqEqual
<1> QED BY <1>11 DEF old, new

\* A queue begins with its first burst.
LEMMA FirstOfQueue ==
  ASSUME NEW x \in Bursts, NEW s \in Seq(Bursts), NEW e \in Seq(Bursts)
  PROVE  LET q == (<<x>> \o s) \o e IN q # <<>> /\ Head(q) = x /\ Tail(q) = s \o e
<1> HIDE DEF Bursts
<1> DEFINE r == s \o e
           q == <<x>> \o r
<1>1. <<x>> \in Seq(Bursts) /\ Len(<<x>>) = 1 /\ <<x>>[1] = x
  OBVIOUS
<1>2. r \in Seq(Bursts) /\ Len(r) \in Nat
  BY ConcatProperties
<1>3. (<<x>> \o s) \o e = q
  BY <1>1, ConcatAssociative
<1> HIDE DEF r
<1>4. /\ q \in Seq(Bursts) /\ Len(q) = 1 + Len(r)
      /\ \A i \in 1..(1 + Len(r)) : q[i] = IF i <= 1 THEN <<x>>[i] ELSE r[i - 1]
  BY <1>1, <1>2, ConcatProperties
<1> HIDE DEF q
<1>5. q # <<>>
  BY <1>2, <1>4, EmptySeq
<1>6. Head(q) = x
  <2>1. Head(q) = q[1] /\ 1 \in 1..(1 + Len(r))
    BY <1>2, <1>4, <1>5
  <2> QED BY <1>1, <1>4, <2>1
<1>7. /\ Tail(q) \in Seq(Bursts) /\ Len(Tail(q)) = Len(r)
      /\ \A i \in 1..Len(r) : Tail(q)[i] = q[i + 1]
  BY <1>2, <1>4, <1>5, HeadTailProperties
<1>8. \A i \in 1..Len(r) : Tail(q)[i] = r[i]
  <2> SUFFICES ASSUME NEW i \in 1..Len(r) PROVE q[i + 1] = r[i]
    BY <1>7
  <2>1. i + 1 \in 1..(1 + Len(r)) /\ ~(i + 1 <= 1) /\ (i + 1) - 1 = i
    BY <1>2
  <2> QED BY <1>4, <2>1
<1>9. Tail(q) = r
  BY <1>2, <1>7, <1>8, SeqEqual
<1> QED BY <1>3, <1>5, <1>6, <1>9 DEF r
-----------------------------------------------------------------------------
(* Last, the steps.                                                         *)

\* A turn that has started and not ended has something to serve.
SomethingToServe == \A t \in Turns : Live(t) => batch[t] # <<>>

Queued == Safe /\ StartedInOrder /\ SomethingToServe

\* Nothing has started at first.
LEMMA QueuedInit == Init => Queued
<1> SUFFICES ASSUME Init PROVE Queued
  OBVIOUS
<1>1. \A t \in Turns : pc[t] = "unborn" /\ ~(t <= started)
  BY DEF Init, Turns
<1> QED BY <1>1, SafeInit DEF Queued, StartedInOrder, Born, SomethingToServe, Live

\* A step of handle_turn: the turn has the lock and goes on, or ends.
LEMMA TurnMoves ==
  ASSUME Typed, NEW t \in Turns, HandleTurn(t)
  PROVE  /\ pc[t] \in Running /\ UNCHANGED <<pending, owner, batch, started>>
         /\ \E where \in Running \cup {"ended"} : pc' = [pc EXCEPT ![t] = where]
<1> USE DEF Running, TurnStates
<1>1. CASE BuildBlocks(t) \/ ReadHistory(t) \/ RunAgent(t) \/ Break(t)
  BY <1>1 DEF BuildBlocks, ReadHistory, RunAgent, Break, Goto, queue
<1>2. CASE SendReply(t) \/ LogReply(t) \/ SendApology(t) \/ LogApology(t)
  BY <1>2 DEF SendReply, LogReply, SendApology, LogApology, Goto, End, queue
<1> QED BY <1>1, <1>2 DEF HandleTurn

\* Every step keeps the numbering of the turns, and their bursts.
LEMMA QueuedStep == Queued /\ [Next]_vars => Queued'
<1> SUFFICES ASSUME Queued, [Next]_vars PROVE StartedInOrder' /\ SomethingToServe'
  BY SafeStep DEF Queued
<1> USE DEF StartedInOrder, SomethingToServe, Live, Born
<1>0. Typed /\ TypeOK /\ StartedInOrder /\ SomethingToServe
  BY DEF Queued, Safe, Typed
<1>1. CASE UNCHANGED <<pc, batch, started>>
  BY <1>0, <1>1
<1>2. ASSUME NEW u \in Users, Fire(u), ~UNCHANGED <<pc, batch, started>>
      PROVE  StartedInOrder' /\ SomethingToServe'
  <2> DEFINE n == started + 1
  <2>1. /\ pending[u] # <<>> /\ started < MaxTurns /\ started' = n
        /\ pc' = [pc EXCEPT ![n] = "waiting"] /\ batch' = [batch EXCEPT ![n] = pending[u]]
    BY <1>2 DEF Fire, tasks
  <2>2. n \in Turns /\ started \in Nat /\ \A t \in Turns : t \in Nat
    BY <1>0, <2>1, TurnsAssumption DEF TypeOK, Turns
  <2>3. \A t \in Turns : t <= n <=> t <= started \/ t = n
    BY <2>2
  <2> HIDE DEF n
  <2> QED BY <1>0, <2>1, <2>2, <2>3 DEF TypeOK
<1>3. ASSUME NEW t \in Turns, Acquire(t) PROVE StartedInOrder' /\ SomethingToServe'
  BY <1>0, <1>3 DEF Acquire, TypeOK
<1>4. ASSUME NEW t \in Turns, HandleTurn(t) PROVE StartedInOrder' /\ SomethingToServe'
  BY <1>0, <1>4, TurnMoves DEF TypeOK, Running
<1>5. CASE Crash
  BY <1>0, <1>5 DEF Crash
<1>6. (\E r \in Requests : \E p \in Payloads : Deliver(r, p)) => UNCHANGED <<pc, batch, started>>
  BY DEF Deliver, queue, tasks
<1>7. (\E r \in Requests : RequestStep(r) \/ RequestFails(r)) => UNCHANGED <<pc, batch, started>>
  BY DEF RequestStep, Check, LogInbound, Submit, RequestFails, queue, tasks
<1>8. (\E u \in Users : Deactivate(u)) \/ UNCHANGED vars => UNCHANGED <<pc, batch, started>>
  BY DEF Deactivate, vars, queue, tasks
<1> QED BY <1>1, <1>2, <1>3, <1>4, <1>5, <1>6, <1>7, <1>8 DEF Next

\* A user whose turns and burst are as they were waits as she did ...
LEMMA WaitsAlike ==
  ASSUME NEW v \in Users, WaitingTurns(v)' = WaitingTurns(v), pending'[v] = pending[v],
         \A t \in WaitingTurns(v) : batch'[t] = batch[t]
  PROVE  waitingBar'[v] = waitingBar[v]
<1>1. WaitingTurns(v) \in SUBSET Turns
  BY DEF WaitingTurns
<1>2. Line(WaitingTurns(v), batch') = Line(WaitingTurns(v), batch)
  BY <1>1, SameLine
<1> QED BY <1>2 DEF waitingBar, Gathering, Line

\* ... and is served as she was.
LEMMA ServedAlike ==
  ASSUME NEW v \in Users, RunningTurns(v)' = RunningTurns(v),
         \A t \in RunningTurns(v) : batch'[t] = batch[t]
  PROVE  servingBar'[v] = servingBar[v]
<1> DEFINE R == RunningTurns(v)
<1>1. R # {} => (CHOOSE t \in R : TRUE) \in R
  OBVIOUS
<1>2. servingBar'[v] = IF R = {} THEN <<>> ELSE batch'[CHOOSE t \in R : TRUE]
  BY DEF servingBar
<1> HIDE DEF R
<1> QED BY <1>1, <1>2 DEF servingBar, R

\* A user's one running turn is what she is served.
LEMMA ServedByOne ==
  ASSUME NEW v \in Users, NEW t, RunningTurns(v) = {t}
  PROVE  servingBar[v] = batch[t]
<1>1. (CHOOSE s \in {t} : TRUE) = t
  OBVIOUS
<1> QED BY <1>1 DEF servingBar

\* Sequences that end with one burst.
LEMMA LastBurst ==
  ASSUME NEW s \in Seq(Bursts), NEW p \in Bursts, NEW q, q = s \o <<p>>
  PROVE  /\ Append(s \o <<>>, p) = q
         /\ q \in Seq(Bursts) /\ Len(q) = Len(s) + 1 /\ q[Len(q)] = p
         /\ \A i \in 1..Len(s) : q[i] = s[i]
<1> HIDE DEF Bursts
<1> DEFINE k == Len(s)
<1>1. k \in Nat /\ <<p>> \in Seq(Bursts) /\ Len(<<p>>) = 1 /\ <<p>>[1] = p
  OBVIOUS
<1>2. /\ q \in Seq(Bursts) /\ Len(q) = k + 1
      /\ \A i \in 1..(k + 1) : q[i] = IF i <= k THEN s[i] ELSE <<p>>[i - k]
  BY <1>1, ConcatProperties
<1>3. Append(s \o <<>>, p) = q
  <2>1. s \o <<>> = s
    BY ConcatEmptySeq
  <2>2. /\ Append(s, p) \in Seq(Bursts) /\ Len(Append(s, p)) = k + 1
        /\ \A i \in 1..(k + 1) : Append(s, p)[i] = IF i <= k THEN s[i] ELSE p
    OBVIOUS
  <2> HIDE DEF k
  <2>3. \A i \in 1..(k + 1) : Append(s, p)[i] = q[i]
    <3> SUFFICES ASSUME NEW i \in 1..(k + 1) PROVE Append(s, p)[i] = q[i]
      OBVIOUS
    <3>1. i <= k \/ i - k = 1
      BY <1>1
    <3> QED BY <1>1, <1>2, <2>2, <3>1
  <2>4. Append(s, p) = q
    BY <1>2, <2>2, <2>3, SeqEqual
  <2> QED BY <2>1, <2>4
<1> HIDE DEF k
<1>4. q[k + 1] = p /\ \A i \in 1..k : q[i] = s[i]
  <2>1. k + 1 \in 1..(k + 1) /\ ~(k + 1 <= k) /\ (k + 1) - k = 1
    BY <1>1
  <2>2. q[k + 1] = p
    BY <1>1, <1>2, <2>1
  <2>3. \A i \in 1..k : i \in 1..(k + 1) /\ i <= k
    BY <1>1
  <2> QED BY <1>2, <2>2, <2>3
<1> QED BY <1>2, <1>3, <1>4 DEF k

\* Such a sequence with another last burst.
LEMMA LastChanges ==
  ASSUME NEW s \in Seq(Bursts), NEW r \in Bursts, NEW e \in Seq(Bursts), Len(e) = Len(s) + 1,
         \A i \in 1..Len(s) : e[i] = s[i], e[Len(s) + 1] = r
  PROVE  e = s \o <<r>>
<1> HIDE DEF Bursts
<1> DEFINE n == s \o <<r>>
           k == Len(s)
<1>1. k \in Nat /\ n \in Seq(Bursts) /\ Len(n) = k + 1 /\ n[k + 1] = r /\ \A i \in 1..k : n[i] = s[i]
  BY LastBurst
<1> HIDE DEF n, k
<1>2. \A i \in 1..(k + 1) : i \in 1..k \/ i = k + 1
  BY <1>1
<1>3. \A i \in 1..(k + 1) : e[i] = n[i]
  BY <1>1, <1>2 DEF k
<1> QED BY <1>1, <1>3, SeqEqual DEF n, k

\* submit lets the message join the burst that gathers, or begins one.
LEMMA SubmitEnqueues ==
  ASSUME Queued, NEW r \in Requests, Submit(r)
  PROVE  Abstract!Next
<1> DEFINE m == Head(todo[r])
           u == From[m]
           s == Line(WaitingTurns(u), batch)
<1>0. Typed /\ TypeOK
  BY DEF Queued, Safe, Typed
<1>1. m \in Messages /\ u \in Users
  BY <1>0, RestOfLoop, TurnsAssumption DEF Submit, Typed, TypeOK, Busy
<1>2. pending' = [pending EXCEPT ![u] = Append(@, m)] /\ UNCHANGED <<pc, owner, batch>>
  BY DEF Submit, tasks
<1>3. s \in Seq(Bursts)
  BY <1>0, LineType DEF WaitingTurns, TypeOK, Bursts
<1> HIDE DEF m, s
<1>4. pending[u] \in Bursts /\ pending'[u] = Append(pending[u], m) /\ pending'[u] \in Bursts
  BY <1>0, <1>1, <1>2 DEF TypeOK, Bursts
<1> HIDE DEF u
<1>5. pending'[u] # <<>>
  BY <1>1, <1>4, AppendIsNotEmpty DEF Bursts
<1>6. UNCHANGED servingBar
  BY <1>2 DEF servingBar, RunningTurns
<1>7. \A v \in Users : v # u => waitingBar'[v] = waitingBar[v]
  <2>1. \A v \in Users : v # u => WaitingTurns(v)' = WaitingTurns(v) /\ pending'[v] = pending[v]
    BY <1>0, <1>2 DEF WaitingTurns, TypeOK
  <2> QED BY <1>2, <2>1, WaitsAlike
<1>8. waitingBar[u] = s \o (IF pending[u] = <<>> THEN <<>> ELSE <<pending[u]>>)
  BY <1>1 DEF waitingBar, Gathering, s
<1>9. waitingBar'[u] = s \o <<pending'[u]>>
  BY <1>1, <1>2, <1>5 DEF waitingBar, Gathering, Line, WaitingTurns, s
<1>10. DOMAIN waitingBar = Users /\ waitingBar' = [v \in Users |-> waitingBar'[v]]
       /\ waitingBar = [v \in Users |-> waitingBar[v]]
  BY DEF waitingBar
<1>11. CASE pending[u] = <<>>
  <2>1. pending'[u] = <<m>>
    BY <1>1, <1>4, <1>11
  <2>2. waitingBar'[u] = Append(waitingBar[u], <<m>>)
    BY <1>3, <1>4, <1>8, <1>9, <1>11, <2>1, LastBurst
  <2>3. waitingBar' = [waitingBar EXCEPT ![u] = Append(@, <<m>>)]
    BY <1>1, <1>7, <1>10, <2>2
  <2> QED BY <1>1, <1>6, <2>3 DEF Abstract!Next, Abstract!Enqueue
<1>12. CASE pending[u] # <<>>
  <2> DEFINE q == waitingBar[u]
  <2>1. q = s \o <<pending[u]>>
    BY <1>8, <1>12
  <2>2. q # <<>> /\ waitingBar'[u] = [q EXCEPT ![Len(q)] = Append(q[Len(q)], m)]
    <3> HIDE DEF q
    <3> DEFINE k == Len(s)
               e == [q EXCEPT ![k + 1] = pending'[u]]
    <3>1. /\ k \in Nat /\ q \in Seq(Bursts) /\ Len(q) = k + 1 /\ q[k + 1] = pending[u]
          /\ \A i \in 1..k : q[i] = s[i]
      BY <1>3, <1>4, <2>1, LastBurst
    <3>2. k + 1 \in 1..(k + 1) /\ \A i \in 1..k : i \in 1..(k + 1) /\ i # k + 1
      BY <3>1
    <3>3. q \in [1..(k + 1) -> Bursts]
      BY <3>1, LenProperties
    <3> HIDE DEF k
    <3>4. e \in [1..(k + 1) -> Bursts] /\ e[k + 1] = pending'[u] /\ \A i \in 1..k : e[i] = s[i]
      BY <1>4, <3>1, <3>2, <3>3
    <3> HIDE DEF e
    <3>5. e \in Seq(Bursts) /\ Len(e) = k + 1
      BY <3>1, <3>4
    <3>6. e = s \o <<pending'[u]>>
      BY <1>3, <1>4, <3>4, <3>5, LastChanges DEF k
    <3>7. q # <<>>
      BY <3>1, EmptySeq
    <3> QED BY <1>4, <1>9, <3>1, <3>6, <3>7 DEF e
  <2>3. waitingBar' = [waitingBar EXCEPT ![u][Len(waitingBar[u])] = Append(@, m)]
    BY <1>1, <1>7, <1>10, <2>2
  <2> QED BY <1>1, <1>6, <2>2, <2>3 DEF Abstract!Next, Abstract!Enqueue
<1> QED BY <1>11, <1>12

\* A timer that fires changes nothing for the user: her burst closes.
LEMMA FireStutters ==
  ASSUME Queued, NEW u \in Users, Fire(u)
  PROVE  UNCHANGED <<waitingBar, servingBar>>
<1>0. TypeOK /\ StartedInOrder
  BY DEF Queued, Safe, Typed
<1> SUFFICES ASSUME NEW v \in Users
             PROVE  waitingBar'[v] = waitingBar[v] /\ servingBar'[v] = servingBar[v]
  BY DEF waitingBar, servingBar
<1>1. CASE pending[u] = <<>>
  <2>1. UNCHANGED <<pc, owner, batch>> /\ pending'[v] = pending[v]
    BY <1>0, <1>1 DEF Fire, tasks, TypeOK
  <2> QED BY <2>1, WaitsAlike, ServedAlike DEF WaitingTurns, RunningTurns
<1>2. CASE pending[u] # <<>>
  <2> DEFINE n == started + 1
             W == WaitingTurns(v)
  <2>1. /\ started < MaxTurns
        /\ pending' = [pending EXCEPT ![u] = <<>>]
        /\ pc' = [pc EXCEPT ![n] = "waiting"]
        /\ owner' = [owner EXCEPT ![n] = u]
        /\ batch' = [batch EXCEPT ![n] = pending[u]]
    BY <1>2 DEF Fire
  <2>2. n \in Turns /\ n \in Nat /\ \A t \in Turns : t \in Nat /\ (t <= started <=> t < n)
    BY <1>0, <2>1, TurnsAssumption DEF TypeOK, Turns
  <2>3. pc[n] = "unborn" /\ \A t \in Turns : pc[t] # "unborn" => t < n
    BY <1>0, <2>2 DEF StartedInOrder, Born
  <2>4. W \in SUBSET Turns /\ \A t \in W : t < n
    BY <2>3 DEF WaitingTurns
  <2> HIDE DEF n
  <2>5. \A t \in Turns : t # n => pc'[t] = pc[t] /\ owner'[t] = owner[t] /\ batch'[t] = batch[t]
    BY <1>0, <2>1 DEF TypeOK
  <2>6. pc'[n] = "waiting" /\ owner'[n] = u /\ batch'[n] = pending[u]
    BY <1>0, <2>1, <2>2 DEF TypeOK
  <2>7. servingBar'[v] = servingBar[v]
    <3>1. RunningTurns(v)' = RunningTurns(v) /\ n \notin RunningTurns(v)
      BY <2>3, <2>5, <2>6 DEF RunningTurns, Running
    <3> QED BY <2>5, <3>1, ServedAlike DEF RunningTurns
  <2>8. \A t \in W : t # n /\ batch'[t] = batch[t]
    BY <2>3, <2>5 DEF WaitingTurns
  <2>9. CASE v # u
    <3>1. W' = W /\ pending'[v] = pending[v]
      BY <1>0, <2>1, <2>3, <2>5, <2>6, <2>9 DEF WaitingTurns, TypeOK
    <3> QED BY <2>7, <2>8, <3>1, WaitsAlike
  <2>10. CASE v = u
    <3>1. W' = W \cup {n} /\ pending'[u] = <<>>
      BY <1>0, <2>1, <2>2, <2>3, <2>5, <2>6, <2>10 DEF WaitingTurns, TypeOK
    <3>2. batch \in [Turns -> Bursts] /\ batch' \in [Turns -> Bursts]
      BY <1>0, <2>1 DEF TypeOK, Bursts
    <3> HIDE DEF W
    <3>3. Line(W', batch') = Line(W, batch) \o <<pending[u]>>
      <4>1. Line(W \cup {n}, batch') = Line(W, batch) \o <<batch'[n]>>
        BY <2>2, <2>4, <2>8, <3>2, LineGrows
      <4> QED BY <2>6, <3>1, <4>1
    <3>4. Line(W', batch') \in Seq(Bursts)
      BY <2>2, <2>4, <3>1, <3>2, LineType
    <3>5. Line(W', batch') \o <<>> = Line(W', batch')
      BY <3>4, ConcatEmptySeq
    <3>6. waitingBar[u] = Line(W, batch) \o <<pending[u]>>
      BY <1>2, <2>10 DEF waitingBar, Gathering, W
    <3>7. waitingBar'[u] = Line(W', batch') \o <<>>
      BY <2>10, <3>1 DEF waitingBar, Gathering, W, Line
    <3> QED BY <2>7, <2>10, <3>3, <3>5, <3>6, <3>7
  <2> QED BY <2>9, <2>10
<1> QED BY <1>1, <1>2
\* The lock goes to the turn that waited longest: its burst is served whole.
LEMMA AcquireServes ==
  ASSUME Queued, NEW t \in Turns, Acquire(t)
  PROVE  Abstract!Next
<1> DEFINE u == owner[t]
           W == WaitingTurns(u)
           s == Line(W \ {t}, batch)
<1>0. TypeOK /\ RunnerHoldsLock /\ SomethingToServe
  BY DEF Queued, Safe, Typed
<1>1. /\ u \in Users /\ pc[t] = "waiting" /\ ~locked[u]
      /\ pc' = [pc EXCEPT ![t] = "build"] /\ UNCHANGED <<pending, owner, batch>>
  BY <1>0 DEF Acquire, TypeOK
<1>2. W \in SUBSET Turns /\ t \in W /\ \A r \in W : t <= r
  BY <1>1 DEF Acquire, WaitingTurns
<1>3. batch \in [Turns -> Bursts] /\ batch[t] \in Bursts /\ batch[t] # <<>>
  BY <1>0, <1>1 DEF TypeOK, Bursts, SomethingToServe, Live
<1>4. W' = W \ {t} /\ W \ {t} \in SUBSET Turns
  BY <1>0, <1>1, <1>2 DEF WaitingTurns, TypeOK
<1>5. RunningTurns(u) = {} /\ RunningTurns(u)' = {t}
  BY <1>0, <1>1 DEF RunningTurns, Running, RunnerHoldsLock, TypeOK, TurnStates
<1>6. ASSUME NEW v \in Users, v # u
      PROVE  waitingBar'[v] = waitingBar[v] /\ servingBar'[v] = servingBar[v]
  <2>1. WaitingTurns(v)' = WaitingTurns(v) /\ RunningTurns(v)' = RunningTurns(v)
    BY <1>0, <1>1, <1>6 DEF WaitingTurns, RunningTurns, Running, TypeOK
  <2> QED BY <1>1, <2>1, WaitsAlike, ServedAlike
<1> HIDE DEF W
<1>7. Line(W, batch) = <<batch[t]>> \o s
  BY <1>2, <1>3, LineShrinks
<1>8. s \in Seq(Bursts) /\ Gathering(u) \in Seq(Bursts) /\ Gathering(u)' = Gathering(u)
  <2>1. s \in Seq(Bursts)
    BY <1>3, <1>4, LineType
  <2>2. pending[u] \in Bursts
    BY <1>0, <1>1 DEF TypeOK, Bursts
  <2>3. Gathering(u) \in Seq(Bursts)
    BY <2>2 DEF Gathering
  <2> QED BY <1>1, <2>1, <2>3 DEF Gathering
<1>9. waitingBar[u] = (<<batch[t]>> \o s) \o Gathering(u)
  BY <1>1, <1>7 DEF waitingBar, W
<1>10. waitingBar'[u] = s \o Gathering(u)
  BY <1>1, <1>4, <1>8 DEF waitingBar, W, Line, Gathering
<1> HIDE DEF s
<1>11. waitingBar[u] # <<>> /\ Head(waitingBar[u]) = batch[t] /\ Tail(waitingBar[u]) = waitingBar'[u]
  <2> DEFINE x == batch[t]
             e == Gathering(u)
  <2>1. x \in Bursts /\ s \in Seq(Bursts) /\ e \in Seq(Bursts)
    BY <1>3, <1>8
  <2>2. waitingBar[u] = (<<x>> \o s) \o e /\ waitingBar'[u] = s \o e
    BY <1>9, <1>10
  <2> HIDE DEF x, e, Bursts
  <2>3. LET q == (<<x>> \o s) \o e IN q # <<>> /\ Head(q) = x /\ Tail(q) = s \o e
    BY <2>1, FirstOfQueue
  <2>4. waitingBar[u] # <<>> /\ Head(waitingBar[u]) = x /\ Tail(waitingBar[u]) = waitingBar'[u]
    BY <2>2, <2>3
  <2> QED BY <2>4 DEF x
<1>12. servingBar[u] = <<>> /\ servingBar'[u] = batch[t]
  <2>1. servingBar'[u] = batch'[CHOOSE r \in {t} : TRUE]
    BY <1>1, <1>5 DEF servingBar
  <2>2. (CHOOSE r \in {t} : TRUE) = t
    OBVIOUS
  <2> QED BY <1>1, <1>5, <2>1, <2>2 DEF servingBar
<1> HIDE DEF u
<1>13. /\ waitingBar' = [waitingBar EXCEPT ![u] = Tail(@)]
       /\ servingBar' = [servingBar EXCEPT ![u] = Head(waitingBar[u])]
  <2>1. /\ DOMAIN waitingBar = Users /\ DOMAIN servingBar = Users
        /\ waitingBar = [v \in Users |-> waitingBar[v]] /\ servingBar = [v \in Users |-> servingBar[v]]
        /\ waitingBar' = [v \in Users |-> waitingBar'[v]]
        /\ servingBar' = [v \in Users |-> servingBar'[v]]
    BY DEF waitingBar, servingBar
  <2> QED BY <1>1, <1>6, <1>11, <1>12, <2>1
<1> QED BY <1>1, <1>11, <1>12, <1>13 DEF Abstract!Next, Abstract!Serve

\* A turn goes on with its burst, or has served it.
LEMMA TurnFinishes ==
  ASSUME Queued, NEW t \in Turns, HandleTurn(t)
  PROVE  Abstract!Next \/ UNCHANGED <<waitingBar, servingBar>>
<1> DEFINE u == owner[t]
<1>0. Typed /\ TypeOK /\ MutualExclusion /\ SomethingToServe
  BY DEF Queued, Safe, Typed
<1>1. PICK where \in Running \cup {"ended"} : pc' = [pc EXCEPT ![t] = where]
  BY <1>0, TurnMoves
<1>2. u \in Users /\ pc[t] \in Running /\ UNCHANGED <<pending, owner, batch>>
  BY <1>0, TurnMoves DEF TypeOK
<1>3. "waiting" \notin Running /\ "ended" \notin Running
  BY DEF Running
<1>4. \A v \in Users : WaitingTurns(v)' = WaitingTurns(v)
  BY <1>0, <1>1, <1>2, <1>3 DEF WaitingTurns, TypeOK
<1>5. UNCHANGED waitingBar
  BY <1>2, <1>4, WaitsAlike DEF waitingBar
<1>6. CASE where \in Running
  <2>1. \A v \in Users : RunningTurns(v)' = RunningTurns(v)
    BY <1>0, <1>1, <1>2, <1>6 DEF RunningTurns, TypeOK
  <2>2. \A v \in Users : servingBar'[v] = servingBar[v]
    BY <1>2, <2>1, ServedAlike
  <2> QED BY <1>5, <2>2 DEF servingBar
<1>7. CASE where = "ended"
  <2>1. RunningTurns(u) = {t}
    BY <1>0, <1>2 DEF RunningTurns, MutualExclusion
  <2>2. RunningTurns(u)' = {}
    BY <1>0, <1>1, <1>2, <1>3, <1>7, <2>1 DEF RunningTurns, TypeOK
  <2>3. \A v \in Users : v # u => RunningTurns(v)' = RunningTurns(v)
    BY <1>0, <1>1, <1>2 DEF RunningTurns, TypeOK
  <2>4. servingBar[u] # <<>>
    <3>1. batch[t] # <<>>
      BY <1>0, <1>2 DEF SomethingToServe, Live, Running
    <3> QED BY <1>2, <2>1, <3>1, ServedByOne
  <2>5. servingBar'[u] = <<>>
    BY <1>2, <2>2 DEF servingBar
  <2>6. \A v \in Users : v # u => servingBar'[v] = servingBar[v]
    BY <1>2, <2>3, ServedAlike
  <2> HIDE DEF u
  <2>7. servingBar' = [servingBar EXCEPT ![u] = <<>>]
    <3>1. /\ DOMAIN servingBar = Users /\ servingBar = [v \in Users |-> servingBar[v]]
          /\ servingBar' = [v \in Users |-> servingBar'[v]]
      BY DEF servingBar
    <3> QED BY <1>2, <2>5, <2>6, <3>1
  <2> QED BY <1>2, <1>5, <2>4, <2>7 DEF Abstract!Next, Abstract!Finish
<1> QED BY <1>6, <1>7

\* A restart forgets all of it.
LEMMA CrashRestarts ==
  ASSUME Queued, Crash
  PROVE  Abstract!Next
<1>1. \A t \in Turns : pc'[t] \notin {"waiting"} \cup Running
  BY DEF Crash, Live, Running
<1>2. \A u \in Users : /\ WaitingTurns(u)' = {} /\ RunningTurns(u)' = {}
                       /\ pending'[u] = <<>>
  BY <1>1 DEF Crash, WaitingTurns, RunningTurns
<1>3. servingBar' = [u \in Users |-> <<>>]
  BY <1>2 DEF servingBar
<1>4. Line({}, batch') \o <<>> = <<>>
  <2>1. Cardinality({}) = 0
    BY FS_EmptySet
  <2> QED BY <2>1 DEF Line
<1>5. waitingBar' = [u \in Users |-> <<>>]
  BY <1>2, <1>4 DEF waitingBar, Gathering, Line
<1> QED BY <1>3, <1>5 DEF Abstract!Next, Abstract!Restart

\* Every step of the queue is one of Inbox, or none.
LEMMA InboxStep == Queued /\ [Next]_vars => [Abstract!Next]_(Abstract!vars)
<1> SUFFICES ASSUME Queued, [Next]_vars
             PROVE  Abstract!Next \/ UNCHANGED <<waitingBar, servingBar>>
  BY DEF Abstract!vars
<1>1. CASE UNCHANGED <<pending, pc, owner, batch>>
  BY <1>1 DEF waitingBar, servingBar, WaitingTurns, RunningTurns, Gathering, Line
<1>2. (\E r \in Requests : \E p \in Payloads : Deliver(r, p))
        => UNCHANGED <<pending, pc, owner, batch>>
  BY DEF Deliver, queue, tasks
<1>3. (\E r \in Requests : Check(r) \/ LogInbound(r) \/ RequestFails(r))
        => UNCHANGED <<pending, pc, owner, batch>>
  BY DEF Check, LogInbound, RequestFails, queue, tasks
<1>4. (\E u \in Users : Deactivate(u)) \/ UNCHANGED vars => UNCHANGED <<pending, pc, owner, batch>>
  BY DEF Deactivate, vars, queue, tasks
<1> QED BY <1>1, <1>2, <1>3, <1>4, SubmitEnqueues, FireStutters, AcquireServes, TurnFinishes,
           CrashRestarts DEF Next, RequestStep

\* The turn queue keeps the promise of Inbox: bursts are served whole, in the
\* order of submission and one at a time, whatever the users send, fires or
\* crashes (TurnQueue's docstring).
THEOREM TurnsImplementInbox == Spec => ImplementsInbox
<1>1. Init => Abstract!Init
  <2> SUFFICES ASSUME Init PROVE Abstract!Init
    OBVIOUS
  <2>1. \A u \in Users : WaitingTurns(u) = {} /\ RunningTurns(u) = {} /\ Gathering(u) = <<>>
    BY DEF Init, WaitingTurns, RunningTurns, Running, Gathering
  <2>2. Line({}, batch) \o <<>> = <<>>
    <3>1. Cardinality({}) = 0
      BY FS_EmptySet
    <3> QED BY <3>1 DEF Line
  <2> QED BY <2>1, <2>2 DEF Abstract!Init, waitingBar, servingBar
<1> QED BY <1>1, QueuedInit, QueuedStep, InboxStep, PTL DEF Spec, ImplementsInbox, Abstract!Spec
=============================================================================
