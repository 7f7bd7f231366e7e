---------------------------- MODULE OAuthConsent ----------------------------
(***************************************************************************)
(* How a developer connects a Google account: the signed link Gaia sends   *)
(* (oauth_link), the start route that turns it into a pending state, the   *)
(* consent given in somebody's browser, and the callback that exchanges    *)
(* the code, compares the account with the users row and stores the grant  *)
(* (main.py).  Links are stateless; pending states live in the app's       *)
(* process; the users row may change while a code is being exchanged.      *)
(*                                                                         *)
(* Anybody may open a link that was forwarded, a preview fetcher too, and  *)
(* consent with any account.  Signatures and encryption are abstracted: a  *)
(* link or a state that nobody minted is not accepted.  Between the look   *)
(* at a link and the state it becomes, the start route waits for a         *)
(* connection and reads the login hint: at most Wait ticks, which the pool *)
(* enforces (PoolTimeout) up to the time that the two reads take.          *)
(***************************************************************************)
EXTENDS Integers, FiniteSets

CONSTANTS
  Users,
  Addresses,  \* of users and of accounts
  Accounts,   \* subset of [email : Addresses, hd : BOOLEAN]; hd: of our domain
  States,     \* the state strings that start may draw
  Callbacks,  \* slots for callback requests in flight
  TTL,        \* of links and of states, in ticks
  Wait,       \* of a start request for its connection, in ticks
  MaxLinks,   \* bound: links minted
  MaxTick     \* bound: last tick

NoAddress == "no address"
NoAccount == [email |-> NoAddress, hd |-> FALSE]
NoState == "no state"

ASSUME ConsentAssumption ==
  /\ Users # {}
  /\ Accounts \subseteq [email : Addresses, hd : BOOLEAN]
  /\ NoAddress \notin Addresses /\ NoState \notin States
  /\ TTL \in Nat /\ Wait \in Nat /\ MaxLinks \in Nat /\ MaxTick \in Nat

VARIABLES
  now,
  active,   \* [Users -> BOOLEAN]
  email,    \* [Users -> Addresses \cup {NoAddress}]: users.email
  assigned, \* [Users -> SUBSET Addresses]: addresses the row ever had
  links,    \* set of <<user, tick>>: minted links
  opened,   \* set of <<link, tick>>: links verified by starts that now wait
  drawn,    \* states ever drawn
  pending,  \* _PENDING_STATES: the keys of the dict
  of,       \* [States -> [user, minted, at]]: what a drawn state stands for
  cpc,      \* [Callbacks -> Places]
  carried,  \* [Callbacks -> States \cup {NoState}]
  account,  \* [Callbacks -> Accounts \cup {NoAccount}]: who consented
  honoured, \* [States -> Nat]: codes exchanged for it
  grant     \* [Users -> Accounts \cup {NoAccount}]: google_accounts

server == <<opened, drawn, pending, of>>
calls  == <<cpc, carried, account, honoured>>
people == <<active, email, assigned>>
vars == <<now, people, links, server, calls, grant>>

Places == {"idle", "exchange", "check", "store"}
Pending == [user : Users, minted : Nat, at : Nat]

TypeOK ==
  /\ now \in 0..MaxTick
  /\ active \in [Users -> BOOLEAN]
  /\ email \in [Users -> Addresses \cup {NoAddress}]
  /\ assigned \in [Users -> SUBSET Addresses]
  /\ links \subseteq Users \X Nat
  /\ opened \subseteq (Users \X Nat) \X Nat
  /\ pending \subseteq drawn /\ drawn \subseteq States
  /\ of \in [States -> Pending]
  /\ cpc \in [Callbacks -> Places]
  /\ carried \in [Callbacks -> States \cup {NoState}]
  /\ account \in [Callbacks -> Accounts \cup {NoAccount}]
  /\ honoured \in [States -> Nat]
  /\ grant \in [Users -> Accounts \cup {NoAccount}]

Init ==
  /\ now = 0
  /\ active = [u \in Users |-> TRUE]
  /\ email = [u \in Users |-> NoAddress]
  /\ assigned = [u \in Users |-> {}]
  /\ links = {} /\ opened = {} /\ drawn = {} /\ pending = {}
  /\ of = [s \in States |-> [user |-> CHOOSE u \in Users : TRUE, minted |-> 0, at |-> 0]]
  /\ cpc = [c \in Callbacks |-> "idle"]
  /\ carried = [c \in Callbacks |-> NoState]
  /\ account = [c \in Callbacks |-> NoAccount]
  /\ honoured = [s \in States |-> 0]
  /\ grant = [u \in Users |-> NoAccount]

-----------------------------------------------------------------------------
\* A start that waits is served, or refused, before its time is up.
Tick ==
  /\ now < MaxTick
  /\ \A o \in opened : now < o[2] + Wait
  /\ now' = now + 1
  /\ UNCHANGED <<people, links, server, calls, grant>>

\* `admin set-email`; the column is UNIQUE.
SetEmail(u, a) ==
  /\ \A v \in Users : email[v] # a
  /\ email' = [email EXCEPT ![u] = a]
  /\ assigned' = [assigned EXCEPT ![u] = @ \cup {a}]
  /\ UNCHANGED <<now, active, links, server, calls, grant>>

Deactivate(u) ==
  /\ active[u]
  /\ active' = [active EXCEPT ![u] = FALSE]
  /\ UNCHANGED <<now, email, assigned, links, server, calls, grant>>

\* _needs_connection: a calendar tool answers with a fresh link.
Mint(u) ==
  /\ active[u] /\ Cardinality(links) < MaxLinks
  /\ links' = links \cup {<<u, now>>}
  /\ UNCHANGED <<now, people, server, calls, grant>>

Expired(s) == now - of[s].at > TTL

\* oauth_start looks at the link, which yields one more state however often it
\* is opened, and asks the pool for a connection to read the login hint.
Verify(l) ==
  /\ now <= l[2] + TTL
  /\ opened' = opened \cup {<<l, now>>}
  /\ UNCHANGED <<now, people, links, drawn, pending, of, calls, grant>>

\* Other starts with the link may wait since the same moment.
Served(o) == opened' = opened \ {o} \/ UNCHANGED opened

\* The hint is read; states that expired are dropped and a new one is drawn.
\* The link is not looked at again.
Start(s, o) ==
  /\ s \notin drawn /\ Served(o)
  /\ drawn' = drawn \cup {s}
  /\ pending' = {q \in pending : ~Expired(q)} \cup {s}
  /\ of' = [of EXCEPT ![s] = [user |-> o[1][1], minted |-> o[1][2], at |-> now]]
  /\ UNCHANGED <<now, people, links, calls, grant>>

\* No connection in time, or the read fails: a 500, and no state.
StartFails(o) ==
  /\ Served(o)
  /\ UNCHANGED <<now, people, links, drawn, pending, of, calls, grant>>

-----------------------------------------------------------------------------
(* oauth_callback.                                                          *)

\* Mutants of Arrive: the state is read and not popped; its age is not read.
ArriveWithoutPop(c, s, a) ==
  /\ cpc[c] = "idle" /\ s \in pending /\ ~Expired(s)
  /\ cpc' = [cpc EXCEPT ![c] = "exchange"]
  /\ carried' = [carried EXCEPT ![c] = s]
  /\ account' = [account EXCEPT ![c] = a]
  /\ honoured' = [honoured EXCEPT ![s] = @ + 1]
  /\ UNCHANGED <<now, people, links, server, grant>>

ArriveAtAnyAge(c, s, a) ==
  /\ cpc[c] = "idle" /\ s \in pending
  /\ pending' = pending \ {s}
  /\ cpc' = [cpc EXCEPT ![c] = "exchange"]
  /\ carried' = [carried EXCEPT ![c] = s]
  /\ account' = [account EXCEPT ![c] = a]
  /\ honoured' = [honoured EXCEPT ![s] = @ + 1]
  /\ UNCHANGED <<now, people, links, opened, drawn, of, grant>>

\* Google redirects a browser here with a code of account a.  The pop and the
\* two refusals that follow (too old, declined) have no await between them.
Arrive(c, s, a) ==
  /\ cpc[c] = "idle" /\ s \in pending
  /\ pending' = pending \ {s}
  /\ \/ UNCHANGED calls
     \/ /\ ~Expired(s)
        /\ cpc' = [cpc EXCEPT ![c] = "exchange"]
        /\ carried' = [carried EXCEPT ![c] = s]
        /\ account' = [account EXCEPT ![c] = a]
        /\ honoured' = [honoured EXCEPT ![s] = @ + 1]
  /\ UNCHANGED <<now, people, links, opened, drawn, of, grant>>

Leave(c) ==
  /\ cpc' = [cpc EXCEPT ![c] = "idle"]
  /\ carried' = [carried EXCEPT ![c] = NoState]
  /\ account' = [account EXCEPT ![c] = NoAccount]
  /\ UNCHANGED <<now, people, links, server, honoured, grant>>

Goto(c, place) ==
  /\ cpc' = [cpc EXCEPT ![c] = place]
  /\ UNCHANGED <<now, people, links, server, carried, account, honoured, grant>>

\* _exchange_code answers, or raises (a timeout, a 4xx, a bad id_token).
Exchange(c) ==
  /\ cpc[c] = "exchange"
  /\ Goto(c, "check") \/ Leave(c)

\* Mutant of Matches: the domain is enough.
MatchesDomain(c, u) == active[u] /\ email[u] # NoAddress /\ account[c].hd

Matches(c, u) == /\ active[u] /\ email[u] # NoAddress
                 /\ account[c].hd /\ account[c].email = email[u]

\* The row is read and compared; an unknown, inactive or other user is a 403.
Check(c) ==
  /\ cpc[c] = "check"
  /\ IF Matches(c, of[carried[c]].user) THEN Goto(c, "store") ELSE Leave(c)

\* google_accounts.upsert, in the transaction that compared.
Store(c) ==
  /\ cpc[c] = "store"
  /\ grant' = [grant EXCEPT ![of[carried[c]].user] = account[c]]
  /\ cpc' = [cpc EXCEPT ![c] = "idle"]
  /\ carried' = [carried EXCEPT ![c] = NoState]
  /\ account' = [account EXCEPT ![c] = NoAccount]
  /\ UNCHANGED <<now, people, links, server, honoured>>

\* The app restarts: pending states, waiting starts and callbacks are gone.
Restart ==
  /\ opened' = {} /\ pending' = {}
  /\ cpc' = [c \in Callbacks |-> "idle"]
  /\ carried' = [c \in Callbacks |-> NoState]
  /\ account' = [c \in Callbacks |-> NoAccount]
  /\ UNCHANGED <<now, people, links, drawn, of, honoured, grant>>

Next ==
  \/ Tick \/ Restart
  \/ \E u \in Users : Deactivate(u) \/ Mint(u) \/ \E a \in Addresses : SetEmail(u, a)
  \/ \E l \in links : Verify(l)
  \/ \E o \in opened : StartFails(o) \/ \E s \in States : Start(s, o)
  \/ \E c \in Callbacks : \/ \E s \in States, a \in Accounts : Arrive(c, s, a)
                          \/ Exchange(c) \/ Check(c) \/ Store(c)

Spec == Init /\ [][Next]_vars

-----------------------------------------------------------------------------
(* What the consent flow promises.                                          *)

\* Whoever opens the link, with whatever account and whatever the admin does
\* meanwhile: a stored grant is of an account of the domain whose address the
\* user's own row has had (006_google_workspace.sql: a forwarded link must not
\* bind a colleague's account to this developer).
GrantIsTheUsersOwn ==
  \A u \in Users : grant[u] # NoAccount => grant[u].hd /\ grant[u].email \in assigned[u]

\* One state, one exchange: reloads, duplicates and racing callbacks included.
StateIsSingleUse == \A s \in States : honoured[s] <= 1

ActsInTime == \A c \in Callbacks : cpc[c] = "idle" /\ cpc'[c] = "exchange" =>
                now - of[carried'[c]].minted <= 2 * TTL + Wait

\* A consent is acted on within two lifetimes of its link and the wait between
\* them: the link's own, and that of the state it became at the last moment.
ConsentIsRecent == [][ActsInTime]_vars
=============================================================================
