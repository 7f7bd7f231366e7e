------------------------- MODULE OAuthConsentProofs -------------------------
(***************************************************************************)
(* Theorems of OAuthConsent, for any users, accounts, states, callbacks    *)
(* and lifetimes.                                                          *)
(*                                                                         *)
(* The argument: what a drawn state stands for never changes (a state is   *)
(* drawn once), a pending one has not been honoured and was drawn within   *)
(* its link's lifetime and a wait (Drawn), as the link of every start that *)
(* waits was looked at in its lifetime and within the wait (Timely); and a *)
(* callback that is about to store has compared its account with an        *)
(* address of that state's user (Vouched).                                 *)
(***************************************************************************)
EXTENDS OAuthConsent, TLAPS

\* The address of a row is one it was given.
Assigned == \A u \in Users : email[u] # NoAddress => email[u] \in assigned[u]

Timely == \A o \in opened : o[2] <= o[1][2] + TTL /\ now <= o[2] + Wait

Drawn ==
  \A s \in States :
    /\ s \in drawn => of[s].at <= of[s].minted + TTL + Wait
    /\ s \in pending \/ s \notin drawn => honoured[s] = 0

Open(c) == cpc[c] # "idle"
Owner(c) == of[carried[c]].user

Vouched ==
  \A c \in Callbacks :
    /\ Open(c) => carried[c] \in drawn
    /\ cpc[c] = "store" => account[c].hd /\ account[c].email \in assigned[Owner(c)]

Safe == TypeOK /\ Assigned /\ Timely /\ Drawn /\ Vouched /\ GrantIsTheUsersOwn /\ StateIsSingleUse

\* The initial state.
LEMMA SafeInit == Init => Safe
<1> SUFFICES ASSUME Init PROVE Safe
  OBVIOUS
<1> USE ConsentAssumption DEF Init
<1>1. (CHOOSE u \in Users : TRUE) \in Users
  OBVIOUS
<1>2. TypeOK
  BY <1>1 DEF TypeOK, Places, Pending
<1>3. Assigned /\ Timely /\ Drawn /\ Vouched /\ GrantIsTheUsersOwn /\ StateIsSingleUse
  BY DEF Assigned, Timely, Drawn, Vouched, Open, GrantIsTheUsersOwn, StateIsSingleUse
<1> QED BY <1>2, <1>3 DEF Safe

-----------------------------------------------------------------------------
\* Steps that touch neither the states nor the callbacks.
LEMMA OutsideKeeps ==
  ASSUME Safe, UNCHANGED <<server, calls, grant>>,
         \/ Tick
         \/ \E u \in Users : Deactivate(u) \/ Mint(u) \/ \E a \in Addresses : SetEmail(u, a)
         \/ UNCHANGED vars
  PROVE  Safe'
<1> USE ConsentAssumption DEF Safe
<1>1. UNCHANGED <<opened, drawn, pending, of, cpc, carried, account, honoured, grant>>
  BY DEF server, calls
<1>2. TypeOK'
  <2>1. CASE Tick \/ UNCHANGED vars
    BY <1>1, <2>1 DEF Tick, vars, people, TypeOK
  <2>2. ASSUME NEW u \in Users, Deactivate(u) \/ Mint(u) PROVE TypeOK'
    <3>1. active' \in [Users -> BOOLEAN] /\ email' = email /\ assigned' = assigned /\ now' = now
      BY <2>2 DEF Deactivate, Mint, people, TypeOK
    <3>2. now \in Nat /\ <<u, now>> \in Users \X Nat
      BY DEF TypeOK
    <3>3. links' \subseteq Users \X Nat
      BY <2>2, <3>2 DEF Deactivate, Mint, TypeOK
    <3> QED BY <1>1, <3>1, <3>3 DEF TypeOK
  <2>3. ASSUME NEW u \in Users, NEW a \in Addresses, SetEmail(u, a) PROVE TypeOK'
    <3>1. email' \in [Users -> Addresses \cup {NoAddress}]
          /\ assigned' \in [Users -> SUBSET Addresses]
      BY <2>3 DEF SetEmail, TypeOK
    <3> QED BY <1>1, <2>3, <3>1 DEF SetEmail, TypeOK
  <2> QED BY <2>1, <2>2, <2>3
<1>3. Assigned' /\ \A u \in Users : assigned[u] \subseteq assigned'[u]
  <2>1. CASE UNCHANGED <<email, assigned>>
    BY <2>1 DEF Assigned
  <2>2. ASSUME NEW u \in Users, NEW a \in Addresses, SetEmail(u, a)
        PROVE  Assigned' /\ \A v \in Users : assigned[v] \subseteq assigned'[v]
    BY <2>2 DEF SetEmail, Assigned, TypeOK
  <2> QED BY <2>1, <2>2 DEF Tick, Deactivate, Mint, people, vars
<1>4. Timely' /\ Drawn' /\ StateIsSingleUse'
  <2>1. \/ now' = now
        \/ now' = now + 1 /\ \A o \in opened : now < o[2] + Wait
    BY DEF Tick, Deactivate, Mint, SetEmail, vars
  <2>2. now \in Nat /\ \A o \in opened : o[2] \in Nat
    BY DEF TypeOK
  <2>3. Timely'
    BY <1>1, <2>1, <2>2 DEF Timely
  <2> QED BY <1>1, <2>3 DEF Drawn, StateIsSingleUse
<1>5. \A c \in Callbacks : Open(c) => Owner(c) \in Users
  BY DEF Vouched, TypeOK, Pending, Owner
<1>6. Vouched' /\ GrantIsTheUsersOwn'
  BY <1>1, <1>3, <1>5 DEF Vouched, Open, Owner, GrantIsTheUsersOwn
<1> QED BY <1>2, <1>3, <1>4, <1>6

\* A start begins to wait with a link in its lifetime.
LEMMA VerifyKeeps == ASSUME Safe, NEW l \in links, Verify(l) PROVE Safe' /\ ActsInTime
<1> USE ConsentAssumption DEF Safe
<1>1. /\ UNCHANGED <<now, active, email, assigned, links, drawn, pending, of>>
      /\ UNCHANGED <<cpc, carried, account, honoured, grant>>
      /\ opened' = opened \cup {<<l, now>>} /\ now <= l[2] + TTL
  BY DEF Verify, people, calls
<1>2. l \in Users \X Nat /\ now \in Nat
  BY DEF TypeOK
<1>3. TypeOK' /\ Timely'
  <2>1. opened' \subseteq (Users \X Nat) \X Nat
    BY <1>1, <1>2 DEF TypeOK
  <2> QED BY <1>1, <1>2, <2>1 DEF TypeOK, Timely
<1>4. Assigned' /\ Drawn' /\ Vouched' /\ GrantIsTheUsersOwn' /\ StateIsSingleUse' /\ ActsInTime
  BY <1>1 DEF Assigned, Drawn, Vouched, Open, Owner, GrantIsTheUsersOwn, StateIsSingleUse, ActsInTime
<1> QED BY <1>3, <1>4

\* A start that gets no connection leaves nothing.
LEMMA StartFailsKeeps == ASSUME Safe, NEW o \in opened, StartFails(o) PROVE Safe' /\ ActsInTime
<1> USE ConsentAssumption DEF Safe
<1>1. /\ UNCHANGED <<now, active, email, assigned, links, drawn, pending, of>>
      /\ UNCHANGED <<cpc, carried, account, honoured, grant>>
      /\ opened' \subseteq opened
  BY DEF StartFails, Served, people, calls
<1>2. TypeOK' /\ Timely'
  BY <1>1 DEF TypeOK, Timely
<1>3. Assigned' /\ Drawn' /\ Vouched' /\ GrantIsTheUsersOwn' /\ StateIsSingleUse' /\ ActsInTime
  BY <1>1 DEF Assigned, Drawn, Vouched, Open, Owner, GrantIsTheUsersOwn, StateIsSingleUse, ActsInTime
<1> QED BY <1>2, <1>3

\* A new state is of a link looked at in its lifetime, a wait ago at most, and
\* nobody carries it yet.
LEMMA StartKeeps ==
  ASSUME Safe, NEW s \in States, NEW o \in opened, Start(s, o)
  PROVE  Safe'
<1> USE ConsentAssumption DEF Safe
<1> DEFINE l == o[1]
<1>1. /\ UNCHANGED <<now, active, email, assigned, links, cpc, carried, account, honoured, grant>>
      /\ s \notin drawn /\ drawn' = drawn \cup {s} /\ pending' \subseteq pending \cup {s}
      /\ of' = [of EXCEPT ![s] = [user |-> l[1], minted |-> l[2], at |-> now]]
      /\ opened' \subseteq opened
  BY DEF Start, Served, people, calls
<1>2. /\ l[1] \in Users /\ l[2] \in Nat /\ o[2] \in Nat /\ now \in Nat
      /\ o[2] <= l[2] + TTL /\ now <= o[2] + Wait
  BY DEF TypeOK, Timely
<1>3. /\ of' \in [States -> Pending] /\ of'[s] = [user |-> l[1], minted |-> l[2], at |-> now]
      /\ \A q \in States \ {s} : of'[q] = of[q]
  BY <1>1, <1>2 DEF TypeOK, Pending
<1>4. TypeOK' /\ Timely'
  <2>1. pending' \subseteq drawn' /\ drawn' \subseteq States
    BY <1>1 DEF TypeOK
  <2> QED BY <1>1, <1>3, <2>1 DEF TypeOK, Timely
<1>5. Drawn'
  <2>1. now <= l[2] + TTL + Wait
    BY <1>2
  <2> QED BY <1>1, <1>2, <1>3, <2>1 DEF Drawn, TypeOK
<1>6. Vouched'
  <2>1. \A c \in Callbacks : Open(c) => carried[c] \in States \ {s}
    BY <1>1 DEF Vouched, TypeOK
  <2> QED BY <1>1, <1>3, <2>1 DEF Vouched, Open, Owner
<1>7. Assigned' /\ GrantIsTheUsersOwn' /\ StateIsSingleUse'
  BY <1>1 DEF Assigned, GrantIsTheUsersOwn, StateIsSingleUse
<1> QED BY <1>4, <1>5, <1>6, <1>7

\* A callback takes its state out, so no other one honours it; and it is acted
\* on in time.
LEMMA ArriveKeeps ==
  ASSUME Safe, NEW c \in Callbacks, NEW s \in States, NEW a \in Accounts, Arrive(c, s, a)
  PROVE  Safe' /\ ActsInTime
<1> USE ConsentAssumption DEF Safe
<1>1. /\ UNCHANGED <<now, active, email, assigned, links, opened, drawn, of, grant>>
      /\ s \in pending /\ pending' = pending \ {s} /\ cpc[c] = "idle" /\ s \in drawn
  BY DEF Arrive, people, TypeOK
<1>2. CASE UNCHANGED calls
  <2>1. UNCHANGED <<cpc, carried, account, honoured>>
    BY <1>2 DEF calls
  <2>2. TypeOK' /\ Assigned' /\ Timely' /\ Drawn' /\ StateIsSingleUse'
    BY <1>1, <2>1 DEF TypeOK, Assigned, Timely, Drawn, StateIsSingleUse
  <2>3. Vouched' /\ GrantIsTheUsersOwn' /\ ActsInTime
    BY <1>1, <2>1 DEF Vouched, Open, Owner, GrantIsTheUsersOwn, ActsInTime
  <2> QED BY <2>2, <2>3
<1>3. CASE ~(UNCHANGED calls)
  <2>1. /\ ~Expired(s)
        /\ cpc' = [cpc EXCEPT ![c] = "exchange"]
        /\ carried' = [carried EXCEPT ![c] = s]
        /\ account' = [account EXCEPT ![c] = a]
        /\ honoured' = [honoured EXCEPT ![s] = @ + 1]
    BY <1>3 DEF Arrive
  <2>2. honoured[s] = 0 /\ of[s].at <= of[s].minted + TTL + Wait
    BY <1>1 DEF Drawn
  <2>3. /\ honoured'[s] = 1 /\ \A q \in States \ {s} : honoured'[q] = honoured[q]
        /\ cpc'[c] = "exchange" /\ carried'[c] = s
        /\ \A d \in Callbacks \ {c} : /\ cpc'[d] = cpc[d] /\ carried'[d] = carried[d]
                                      /\ account'[d] = account[d]
    BY <2>1, <2>2 DEF TypeOK
  <2>4. TypeOK'
    BY <1>1, <2>1 DEF TypeOK, Places
  <2>5. Timely' /\ Drawn' /\ StateIsSingleUse' /\ Assigned' /\ GrantIsTheUsersOwn'
    BY <1>1, <2>3 DEF Timely, Drawn, StateIsSingleUse, Assigned, GrantIsTheUsersOwn
  <2>6. Vouched'
    BY <1>1, <2>3 DEF Vouched, Open, Owner
  <2>7. ActsInTime
    <3>1. now - of[s].minted <= 2 * TTL + Wait
      <4>1. of[s].at \in Nat /\ of[s].minted \in Nat /\ now \in Nat
        BY DEF TypeOK, Pending
      <4>2. now - of[s].at <= TTL
        BY <2>1, <4>1 DEF Expired
      <4> QED BY <2>2, <4>1, <4>2
    <3>2. \A d \in Callbacks : cpc[d] = "idle" /\ cpc'[d] = "exchange" => d = c
      BY <2>3
    <3> QED BY <2>3, <3>1, <3>2 DEF ActsInTime
  <2> QED BY <2>4, <2>5, <2>6, <2>7
<1> QED BY <1>2, <1>3

\* What goes on in a callback, to its end.
LEMMA CallbackKeeps ==
  ASSUME Safe, NEW c \in Callbacks, Exchange(c) \/ Check(c) \/ Store(c)
  PROVE  Safe' /\ ActsInTime
<1> USE ConsentAssumption DEF Safe
<1>1. /\ UNCHANGED <<now, active, email, assigned, links, opened, drawn, pending, of, honoured>>
      /\ Open(c) /\ carried[c] \in drawn /\ Owner(c) \in Users
  BY DEF Exchange, Check, Store, Goto, Leave, people, server, Open, Vouched, TypeOK, Pending, Owner
<1>2. /\ cpc'[c] \in {"check", "store", "idle"}
      /\ cpc'[c] # "idle" => carried'[c] = carried[c] /\ account'[c] = account[c]
      /\ \A d \in Callbacks \ {c} : /\ cpc'[d] = cpc[d] /\ carried'[d] = carried[d]
                                    /\ account'[d] = account[d]
      /\ cpc' \in [Callbacks -> Places]
      /\ carried' \in [Callbacks -> States \cup {NoState}]
      /\ account' \in [Callbacks -> Accounts \cup {NoAccount}]
  <2>1. CASE Leave(c) \/ Store(c)
    BY <2>1 DEF Leave, Store, TypeOK, Places
  <2>2. CASE Goto(c, "check") \/ Goto(c, "store")
    BY <2>2 DEF Goto, TypeOK, Places
  <2> QED BY <2>1, <2>2 DEF Exchange, Check
<1>3. cpc'[c] = "store" => account[c].hd /\ account[c].email \in assigned[Owner(c)]
  <2>1. CASE Check(c)
    BY <1>1, <1>2, <2>1 DEF Check, Matches, Assigned, Owner, Leave, TypeOK
  <2>2. CASE Exchange(c)
    BY <1>2, <2>2 DEF Exchange, Goto, Leave, TypeOK
  <2>3. CASE Store(c)
    BY <2>3 DEF Store, TypeOK
  <2> QED BY <2>1, <2>2, <2>3
<1>4. grant' \in [Users -> Accounts \cup {NoAccount}] /\ GrantIsTheUsersOwn'
  <2>1. CASE Store(c)
    <3>1. /\ grant' = [grant EXCEPT ![Owner(c)] = account[c]]
          /\ account[c].hd /\ account[c].email \in assigned[Owner(c)]
      BY <2>1 DEF Store, Owner, Vouched
    <3> QED BY <1>1, <3>1 DEF TypeOK, GrantIsTheUsersOwn
  <2>2. CASE ~Store(c)
    <3>1. grant' = grant
      BY <2>2 DEF Exchange, Check, Goto, Leave
    <3> QED BY <1>1, <3>1 DEF TypeOK, GrantIsTheUsersOwn
  <2> QED BY <2>1, <2>2
<1>5. TypeOK' /\ Assigned' /\ Timely' /\ Drawn' /\ StateIsSingleUse'
  BY <1>1, <1>2, <1>4 DEF TypeOK, Assigned, Timely, Drawn, StateIsSingleUse
<1>6. Vouched' /\ ActsInTime
  BY <1>1, <1>2, <1>3 DEF Vouched, Open, Owner, ActsInTime
<1> QED BY <1>4, <1>5, <1>6

\* The process restarts.
LEMMA RestartKeeps == ASSUME Safe, Restart PROVE Safe'
<1> USE ConsentAssumption DEF Safe
<1>1. /\ UNCHANGED <<now, active, email, assigned, links, drawn, of, honoured, grant>>
      /\ opened' = {} /\ pending' = {} /\ \A c \in Callbacks : cpc'[c] = "idle"
  BY DEF Restart, people
<1>2. TypeOK'
  BY <1>1 DEF Restart, TypeOK, Places
<1>3. Assigned' /\ Timely' /\ Drawn' /\ Vouched' /\ GrantIsTheUsersOwn' /\ StateIsSingleUse'
  BY <1>1 DEF Assigned, Timely, Drawn, Vouched, Open, GrantIsTheUsersOwn, StateIsSingleUse
<1> QED BY <1>2, <1>3

\* Every step keeps the invariant, and acts on consents in time.
LEMMA SafeStep == Safe /\ [Next]_vars => Safe' /\ ActsInTime
<1> SUFFICES ASSUME Safe, [Next]_vars PROVE Safe' /\ ActsInTime
  OBVIOUS
<1>1. CASE \/ Tick \/ UNCHANGED vars
           \/ \E u \in Users : Deactivate(u) \/ Mint(u) \/ \E a \in Addresses : SetEmail(u, a)
  <2>1. UNCHANGED <<server, calls, grant>>
    BY <1>1 DEF Tick, vars, Deactivate, Mint, SetEmail
  <2>2. ActsInTime
    BY <2>1 DEF calls, ActsInTime
  <2> QED BY <1>1, <2>1, <2>2, OutsideKeeps
<1>2. ASSUME NEW s \in States, NEW o \in opened, Start(s, o) PROVE Safe' /\ ActsInTime
  <2>1. ActsInTime
    BY <1>2 DEF Start, calls, ActsInTime
  <2> QED BY <1>2, <2>1, StartKeeps
<1>3. CASE Restart
  <2>1. ActsInTime
    BY <1>3 DEF Restart, ActsInTime
  <2> QED BY <1>3, <2>1, RestartKeeps
<1> QED BY <1>1, <1>2, <1>3, VerifyKeeps, StartFailsKeeps, ArriveKeeps, CallbackKeeps DEF Next

\* The invariant holds in every behaviour.
THEOREM ConsentIsSafe == Spec => []Safe
<1>1. Safe /\ [Next]_vars => Safe'
  BY SafeStep
<1> QED BY SafeInit, <1>1, PTL DEF Spec

\* Type correctness of the links, states and grants.
THEOREM ConsentTypeCorrect == Spec => []TypeOK
<1>1. Safe => TypeOK
  BY DEF Safe
<1> QED BY ConsentIsSafe, <1>1, PTL

\* A forwarded link binds no colleague's account (oauth_callback's comparison).
THEOREM GrantsAreOwn == Spec => []GrantIsTheUsersOwn
<1>1. Safe => GrantIsTheUsersOwn
  BY DEF Safe
<1> QED BY ConsentIsSafe, <1>1, PTL

\* One state, one exchange (oauth_callback's pop).
THEOREM StatesAreUsedOnce == Spec => []StateIsSingleUse
<1>1. Safe => StateIsSingleUse
  BY DEF Safe
<1> QED BY ConsentIsSafe, <1>1, PTL

\* No consent is acted on later than two lifetimes and the wait of a start
\* after its link was minted (oauth_link.verify, the lifetime of a pending state).
THEOREM ConsentsAreRecent == Spec => ConsentIsRecent
<1>1. Safe /\ [Next]_vars => ActsInTime
  BY SafeStep
<1> QED BY ConsentIsSafe, <1>1, PTL DEF Spec, ConsentIsRecent
=============================================================================
