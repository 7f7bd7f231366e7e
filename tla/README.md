# Gaia in TLA+

Formal models of Gaia, a WhatsApp assistant for real-estate developers: a
FastAPI app that turns webhook calls into agent turns, a jobs container that
sends a morning digest, a PostgreSQL database they share, and the services
behind them (Meta's Graph API, Anthropic, Google, Deepgram). Paths below are
relative to `src/`.

TLC model-checks each module on small instances. TLAPS proves every safety
property that a passing run checks, and both refinements, for every instance;
what promises progress is model-checked only.

- [Inventory](#inventory) - the system's parts, state and hazards
- [Modules](#modules) - which module models what
- [Runs](#runs) - what is checked, with which bounds
- [Fairness](#fairness)
- [Proofs](#proofs)
- [Disagreements found](#disagreements-found)
- [Not modelled](#not-modelled)
- [Plan](#plan)

## Inventory

| Component | State it keeps | Operations | Interacts with | What is hard |
|---|---|---|---|---|
| Webhook (`gaia/main.py`, `gaia/butler.receive`) | `messages` rows keyed by `wa_msg_id` (database) | `inbound`: look up the sender, dedup, log, submit | Meta (retries, duplicates), the database, the turn queue | two requests with one message; a crash after the commit |
| Turn queue (`gaia/core/turns.py`) | `_pending`, `_timers`, `_locks`, `_running`, all in memory | `submit`, `_fire_after_debounce`, `_run` | the webhook (calls), agent turns (tasks) | debounce against arrival, FIFO of the lock, loss at restart |
| Agent turn (`gaia/butler.py`) | locals; rows of `messages` | `handle_turn`, `_build_blocks`, `_apologize` | the database in four short transactions, WhatsApp, Deepgram, the agent loop | every step can fail, some after they took effect |
| Agent loop (`gaia/core/llm.py`, `gaia/capabilities/base.py`) | the conversation, tool results | `run_agent`, `dispatch`, `usage.record` | Anthropic, every tool, one transaction per tool call | arbitrary tool calls, partial failure, the cap |
| Connection pool (`gaia/core/db/pool.py`) | eight connections, a FIFO of waiters | `tx` | everything in the app process | nested acquisition in `_build_blocks` |
| Morning digest (`gaia/jobs/digest.py`) | `last_digest_on`, `nudge_count`, thread rows | `due_users`, `send_digest`, `run_once`, `main` | the database, beside agent turns that edit the same items; Google; WhatsApp | local clocks, long runs, send before record, restarts |
| Calendar arithmetic (`gaia/jobs/conflicts.py`, `busy_intervals`) | none | `overlaps`, `free_minutes` | the digest, `check_availability` | boundaries |
| Google grant (`gaia/core/google.py`, `gaia/core/db/google_accounts.py`) | one row per user: token, `revoked_at`, `revoked_notified_at` | `access_token`, `upsert`, `revoke`, `mark_revoked_notified` | tools, the digest and the OAuth callback share the row | read, network call, then a write keyed by user only |
| OAuth consent (`gaia/main.py`, `gaia/core/oauth_link.py`) | `_PENDING_STATES` in memory, links that are stateless, `users.email` | `mint`, `oauth_start`, `oauth_callback` | a browser anybody may hold, Google, the admin | single use, two lifetimes, forwarded links |
| Calendar tools (`gaia/capabilities/calendar/tools.py`, `gaia/core/db/pending_invites.py`) | `pending_invites`, `calendar_event_id` of leads and commitments, the Google event | `create_event`, `propose_invite`, `confirm_invite`, `cancel_event` | Google inside the tool's transaction | a link that fails after the event exists, racing confirmations, lost answers |
| Contact book (`gaia/core/db/contacts.py`) | `contacts` and the rows that name them | `get_or_create`, `merge_profile`, `merge` | filing tools (turns) and the admin's `merge-contacts` | statements of two transactions interleave |
| Record visibility (`gaia/core/db/meetings.py`, `memory.py`, `scope.py`, the trigger of `001_init.sql`) | `visibility` of meetings and derived rows | `save`, `index_meeting`, `set_visibility` | filing and reading tools | derived rows that must follow |
| WhatsApp client (`gaia/core/whatsapp.py`) | none | `send_text` (in chunks), `send_template`, `mark_read`, downloads | Meta | partial delivery |
| Admin CLI (`gaia/core/admin.py`) | the `users` table | `add-user`, `set-email`, `deactivate`, `merge-contacts`, `stats` | a process of its own beside the app | changes under running turns |
| Start-up (`gaia/core/db/migrate.py`, `gaia/main.lifespan`) | the schema, `schema_migrations`, an advisory lock | `run_migrations` | processes of other releases, the turns it lets in | two starts at once, a failure inside the batch |
| Usage, memory search, transcription, images, crypto, config | - | - | - | see [Not modelled](#not-modelled) |

What makes each correct, in one line: a message is queued once and its turn
ends; a user's turns are serial and see the past; the thread claims only what
was delivered; tool results are paired and committed work stays; one digest a
morning, recorded only if it arrived; a lapsed grant is announced once and a
reconnect starts clean; a grant is the user's own; third parties hear only of
approved lists; an event that was made is never denied; merging loses nothing;
what was told in confidence reaches nobody else; the calendar figures are exact;
turns do not starve one another of connections and find the schema they were
written for. `PROJECT.json` lists every hazard with
its line and the properties aimed at it.

## Modules

All modules keep the names of the source where TLA+ allows it. A definition
whose comment begins "Mutant of" is a plausible bug, used to show that a
property can fail; it is not part of the specification.

**Turns** - the webhook, the turn queue and the agent turn, as one module since
they share state. Requests (`rpc`, `todo`), timers (`timer`, `pending`) and turn
tasks (`pc`, `owner`, `batch`) interleave at the awaits; one action is the code
between two awaits that others could observe, or one transaction. `row` and
`assistant` are the `messages` table (user rows by `wa_msg_id`, assistant rows by
the turn that wrote them), `delivered` is what reached a phone. The two differ
exactly where the code can fail between a send and its log. `heard` and
`recalled` are the history a turn was given. `Crash` empties everything that is
in memory. `ReadHistory` reads at most `HistoryLimit` rows, the `LIMIT` of
`messages.recent`; which ones is left open when the thread is longer, as their
order is not modelled. The agent loop is one step here; AgentLoop opens it.

**Inbox** - what the queue promises, with a sequence of `waiting` bursts and the
one in service (`serving`) per user, and no timers, tasks or locks: a message
joins the newest burst or begins another, and a turn serves the oldest whole.
**TurnsInbox** is the refinement mapping: what waits is the bursts of the tasks
that wait for the lock, oldest first (`Nth` finds the i-th by its rank), then the
burst still debouncing.

**AgentLoop** - `run_agent` and `dispatch`: `turns` is the message list,
`calls`/`results` the current response and its results, `ran`/`committed` what
the handlers did. The model is free to ask for any tool names. No capability is
restricted in the code today; `Visible` is a parameter, as `allowed_roles` and
`allowed_user_ids` make it one, and the run has one `restricted_tool`, so that
`Refuse` is taken for a name that is hidden and for one that is unknown.

**Connections** - the same turn seen as a user of the pool: `held` counts its
connections, `queue` is the pool's FIFO. `Wants` are the places where `tx()` or
`pool.connection()` waits; `Got` and `Missed` say where the turn goes on success
and on `PoolTimeout`.

**Migrations** - `run_migrations`, called by any number of processes whose
releases ship a different number of files. `schema` is the sequence of files
whose effects are committed, `recorded` the rows of `schema_migrations`; `done`
and `applied` are what an open transaction read and did. The advisory lock is
the phases `read` and `apply`. A file that another start has recorded meanwhile
violates the primary key, so `Apply` cannot take it and `Fail` remains.

**Service** - Connections and Migrations composed as `main.lifespan` composes
them: the turns of the app run only while its own start-up is `up`, and an exit
of the app takes its turns and their connections with it, while the processes
of other releases go on. The jobs container does not migrate, in the code or
here.

**Digest** - the job loop (`pc`, `left`, `listed`, `today`) beside actions of
agent turns that file, snooze, close and reopen items. `At(u, place)` says that
`run_once` has come to recipient u; `Rank` is the order of `list_users`. A
calendar that fails outside the database degrades to nothing
(`DarkCalendars`), one that fails in a statement leaves the transaction aborted
and the recipient without a digest (`BrokenReads`, the place `doomed`). `told`
and `arrived` are history variables: what the user's phone saw, with the date
each digest was written for and the tick at which its run chose her. Time is a
global tick; `Offset` is a user's zone. Leads and commitments are alike here:
listed when open and due.

**WorkingDay** - `busy_intervals`, `overlaps` and `free_minutes`, translated
loop by loop, on a calendar that grows by bookings. `sorted` puts each interval
at its place, the number of those that do not come after it; the early `break`
of `overlaps` is the quantifier over what lies between; `Merged` and `Minutes`
are the loop of `free_minutes` and its sum, as functions of the rounds done.

**GoogleGrant** - one row, its lock, and two callers (a tool's turn, the digest)
whose transactions stay open over network calls. Grants are numbered so that a
write meant for one can be seen to hit another. `undone` counts the notices that
arrived and whose transaction was rolled back. A consent may replace the row at
any moment its lock is free; `crossed` remembers the grants that were stored
while a call `AtWork` was about an earlier one.

**OAuthConsent** - links, starts that have looked at their link and wait for a
connection (`opened`), pending states, callbacks in flight, the users row.

**Invites** - the calendar tools that write. `creating`, `asked`, `left` and
`linked` are an open `create_event` call, `link` the `calendar_event_id`s that
are committed, `told` what the last call answered; `Invented` stands for ids that
the model made up. A statement that fails aborts its transaction whether or not
the code catches the exception: `LinkFails` loses the links made before it, as
PostgreSQL does. `claimedBy` is the uncommitted UPDATE of `claim`; Google's event
is `guests`. `sends` and `undone` count invitations that went out and, of these,
claims rolled back afterwards.

**ContactBook** - filings and merges as READ COMMITTED transactions, one action
per statement: of a merge `Check`, the three UPDATEs (`RepointLeads`,
`RepointCommitments`, `RepointChunks`), `CopyLinks`, `Unlink`, `Fold`, `Delete`
and the commit, with its cascade. Waits for row locks are guards (`Deleting`,
`Folding`, `Sharing`, `Changing`, `Naming`, `Learning` say who holds what); a
statement that had to wait sees what is committed when it goes on, which is what
PostgreSQL does for the rows it waited for. A share of a row that a foreign key
takes stops a DELETE of it and not an UPDATE. A filing is named by its parts: the
row (a lead, or a meeting's commitment), the meeting's link, the memory chunk,
the fact that went into the shared profile; `Written` says which of them a filing
has, `at` on which row each is, `moved` and `folded` what an open merge has done.
`visibility` and `derived` are what the meeting and what was derived from it
say; `Cascade` is the trigger. `onRecord` remembers what its owner has ever
shown to the company; the run reclassifies one meeting (`Reclassified`), the
theorems any. Rows are org-visible or one colleague's; `Hers` are her
filings and the merges run `--as` her, to which her private rows are visible.
Two histories serve the properties: `missed` has the records that were committed
to the source of an open merge after its statement for their table (`Past`,
`Overtake`), and `bereft` the merges whose target another one deleted.

`MC*` modules only give constants their values (and symmetry sets). They are the
instances; `GoogleGrant`, `WorkingDay` and `AgentLoop` need none. `*Proofs`
modules hold the theorems; those of Inbox are in TurnsProofs, of Migrations and
Connections in ServiceProofs, of WorkingDay in DigestProofs. A module that
shares such a one has names of its own for its specification (`DaySpec`,
`MigrationSpec`).

## Runs

Deadlock is not checked in any run: every model is bounded and stops at its
bounds, and the system itself may idle for ever.

| Run | Instance | States | Shows |
|---|---|---|---|
| Turns_inbound | one user, a photo and a voice note sent apart and redelivered as an album, two requests, two turns, a restart, a deactivation, replies in chunks, a history of up to three rows | 440 thousand | types, one turn at a time, no stranded burst, at most one run per message, only the delivered is logged, the past is seen, failure notes agree, Turns implements Inbox, what is queued is served |
| Digest_job | four users: one with a bad row, one unreachable, one whose calendar statement fails, and in another zone, created a tick later, one whose calendar does not load; two items, ticks 0 to 6, three edits or faults (restarts, lost answers, failing commits), a deactivation, a moving clock | 218 thousand | exact counts, stamps stand for digests, a recorded digest is its day's last, only a run past midnight is early, and whoever can be served is |
| Grant_lapse | three consents at any moment, a tool and the digest, lost answers, a crash | 260 thousand | the stamps are of the grant in the row unless it was stored in the middle of a call; every lapse is announced, once but for notices that could not be recorded |
| Invites_gate | a lead, a commitment, an invented id; two approvals, two confirmations, two lists, two events, every fault | 1.7 million | links are all or none, an event that was made is not denied, only approved lists reach guests, every send is accounted for |
| Contacts_merge | three rows (one private), two merges (one by the private row's owner), two filings out of two meetings (one of hers, in confidence) and a lead, the other meeting reclassified, all interleavings | 1.1 million | a record is lost only behind a merge's back, a row survives, what is private stays so by every route but its owner's merge |
| Consent_flow | a user, two links, three accounts, two states, two callbacks, ticks 0 to 4, lifetime and wait of one | 1.3 million | a grant is of the user's own address in the domain; single use, bounded age |
| Day_digest | six points of time, working day 1..4, three events of three kinds | 24 thousand | the figures are exact |
| Loop_run | four tool names, two rounds of up to two calls | 70 thousand | pairing and durability; the loop ends at its cap |
| Pool_turns | two processes that ship one and two files, two failures or exits; three turns, two with a voice note, two connections | 557 thousand | whole releases only, no turn on an older schema; only voice notes can jam; everyone ends |
| Turns_race | one message delivered twice at once | - | expected violation of AtMostOnce |
| Digest_restart | one user, restarts only | - | expected violation of OnePerDay |
| Grant_reconnect | two consents, no faults | - | expected violation of ReconnectStartsClean |

Each module has one passing run, so that safety is checked with all the faults
that liveness is, and liveness with all the interleavings. `TypeOK` is an invariant
of Turns_inbound; in the other modules it documents the variables, and most of
them prove it.

**Bounds.** Each `Max...` constant is a guard of one action and caps how often
the environment acts, never what the code does: `MaxDeliveries` (Meta's
attempts), `MaxTurns` and `MaxCrashes` in Turns, `MaxTick`, `MaxSends` and
`MaxHappenings` in Digest, `MaxGrants`, `MaxRuns` and `MaxCrashes` in GoogleGrant,
`MaxSends` in Invites, `MaxTick` and `MaxLinks` in OAuthConsent, `MaxFiled`
(filings begun) in ContactBook, `MaxEvents` and `LastMinute` in WorkingDay,
`MaxCalls` in AgentLoop, `Rounds` in Connections, `MaxFailures` in Migrations.
The interesting cases need two of a thing: two requests with one message, two
bursts of one user, two confirmations, two merges, two releases, a lead and a
commitment of one event, two grants and a third, two connections and two turns
that nest. Seven ticks of a three-tick day cover two mornings and the midnights
between. One user is enough where nothing of two users meets (Turns,
OAuthConsent: a colleague is an account that is not hers); the proofs are for
any set of users. `MaxTurns` in `Fire` and `MaxSends` in `Arrive` could hide a
step of the code itself; Turns_inbound and Digest_job give them room for every
message and every day. `HistoryLimit` and `Wait` are no bounds but parameters of
the code: the limit of a history (20 there; three in the run, more than its two
turns can find, so that no answer is cut off) and the pool's timeout. The
theorems are for every value of them.

**Conditions.** Where a promise fails in one situation, the property says which,
and the system is free to get into it:

- a digest repeats only if it could not be recorded, and is early only past
  midnight;
- an approval is sent again only after a rollback, and a lapse announced again
  only after one;
- a grant is stamped wrongly, or silenced, only if it was stored while a call
  about an earlier one was at work (`crossed`; run Grant_reconnect shows that
  case);
- a record is lost only in a merge that had passed its table when it was
  committed (`missed`), a fact also in one whose target was gone, and all rows of
  a person only by such a merge (`bereft`);
- what is on a private row is touched only by a merge of the row's owner;
- a turn may answer without an earlier one only when its query returned as many
  rows as its limit allows (`Full`).

One situation is excluded by a constant instead: `SerialDelivery` says that Meta
does not deliver one message twice at the same moment. Turns_race is the run
without it.

## Fairness

Liveness is asserted only under what the code justifies.

- Turns: the event loop runs every ready task, a sleep ends, `httpx` calls have
  timeouts, statements return or fail; so each request step, timer, lock
  acquisition and turn step is weakly fair. The outcome of a step is never
  assumed. Nothing makes Meta deliver, users write or containers restart.
- Digest: the loop never stops (`main` catches every exception), so the job is
  weakly fair. A recipient is served only if what is tried every 15 minutes
  succeeds at last, so her read, composition, send and record are strongly fair;
  restarts and lost answers are finitely many (`MaxHappenings`). Those for whom no
  run can succeed (`Unservable`: a bad row, a phone that cannot be reached, a
  database read that always fails) are exempted from the fairness and from the
  property; a calendar that never loads is no excuse.
- GoogleGrant: calls return, the digest comes every day, crashes are finitely
  many, WhatsApp accepts the notice sooner or later, and a refresh of a dropped
  grant is at last answered with `invalid_grant`.
- AgentLoop: SDK and database timeouts.
- Service: Docker starts a process again (`restart: unless-stopped`), statements
  return, and each wait for a connection is served or times out (`PoolTimeout`).
  Starts fail and processes stop finitely often.

## Proofs

| Module | Theorem | Says |
|---|---|---|
| TurnsProofs | TypeCorrect | `Spec => []TypeOK` |
| TurnsProofs | TurnsExcludeEachOther | `Spec => []MutualExclusion` |
| TurnsProofs | NoBurstIsStranded | `Spec => []BurstHasTimer` |
| TurnsProofs | OnlyDeliveredIsLogged | `Spec => []LoggedWasDelivered` |
| TurnsProofs | SerialDeliveryRunsOnce | with `SerialDelivery`, `Spec => []AtMostOnce` |
| TurnsProofs | HistoryIsComplete | with `SerialDelivery`, `Spec => []SeesThePast`, for every `HistoryLimit` |
| TurnsProofs | FailuresAreShared | with `SerialDelivery`, `Spec => []FailureIsVisible` |
| TurnsProofs | TurnsImplementInbox | `Spec => ImplementsInbox` |
| AgentLoopProofs | LoopTypeCorrect | `Spec => []TypeOK` |
| AgentLoopProofs | ToldIsTrue | `Spec => []ToldIsDone` |
| AgentLoopProofs | ConversationIsWellFormed | `Spec => []ResultsArePaired` |
| DigestProofs | DigestTypeCorrect | `Spec => []TypeOK` |
| DigestProofs | NudgesAreTold | `Spec => []NudgesAreExact` |
| DigestProofs | StampsAreEarned | `Spec => []StampHasDigest` |
| DigestProofs | OnlyUnrecordedRepeat | `Spec => []OnePerDayOnceRecorded` |
| DigestProofs | NoneIsEarly | `Spec => []EarlyOnlyPastMidnight` |
| DigestProofs | DayTypeCorrect | `DaySpec => []DayTypeOK` |
| DigestProofs | OverlapsAreCollisions | `DaySpec => []OverlapsAreExact` |
| DigestProofs | FreeMinutesAreFree | `DaySpec => []FreeIsUncovered` |
| GoogleGrantProofs | GrantTypeCorrect | `Spec => []TypeOK` |
| GoogleGrantProofs | LapsesAreSaidOnce | `Spec => []AnnouncedOnce` |
| GoogleGrantProofs | RevocationsAreRight | `Spec => []RevokedIsDead` |
| GoogleGrantProofs | StampsAreOfTheGrant | `Spec => []StampIsOfThisGrant` |
| InvitesProofs | InvitesTypeCorrect | `Spec => []TypeOK` |
| InvitesProofs | SentOnce | `Spec => []SendsAreAccounted` |
| InvitesProofs | GuestsAreApproved | `Spec => InvitesAreApproved` |
| InvitesProofs | DirectionsAgree | `Spec => LinksAgree` |
| InvitesProofs | MadeIsNotDenied | `Spec => MadeIsTold` |
| OAuthConsentProofs | ConsentTypeCorrect | `Spec => []TypeOK` |
| OAuthConsentProofs | GrantsAreOwn | `Spec => []GrantIsTheUsersOwn` |
| OAuthConsentProofs | StatesAreUsedOnce | `Spec => []StateIsSingleUse` |
| OAuthConsentProofs | ConsentsAreRecent | `Spec => ConsentIsRecent` |
| ContactBookProofs | BookTypeCorrect | `Spec => []TypeOK` |
| ContactBookProofs | ConfidenceHolds | `Spec => []InConfidence` |
| ContactBookProofs | PrivateRowsStay | `Spec => ConfidenceKept` |
| ContactBookProofs | MergesLoseNothing | `Spec => NothingLost` |
| ContactBookProofs | MergesLeaveARow | `Spec => []PersonSurvives` |
| ServiceProofs | MigrationsTypeCorrect | `MigrationSpec => []MigrationTypeOK` |
| ServiceProofs | ServingIsMigrated | `MigrationSpec => []ServesItsSchema` |
| ServiceProofs | MigrationsAreWhole | `MigrationSpec => WholeReleases` |
| ServiceProofs | ServiceRefinesMigrations | `ServiceSpec => MigrationSpec` |
| ServiceProofs | ServiceMigratesWhole | `ServiceSpec => WholeReleases` |
| ServiceProofs | MigratedBeforeTurns | `ServiceSpec => []TurnsFindTheirSchema` |
| ServiceProofs | PoolIsConsistent | `ServiceSpec => [](TypeOK /\ Waiters /\ InUse <= Size)` |
| ServiceProofs | JamsNeedVoiceNotes | `ServiceSpec => []OnlyVoiceNotesJam` |

They hold for all values of the constants, under the `ASSUME`s of the modules
(which TLC evaluates on every run), with no other axiom.

*The queue.* None of the properties is inductive alone. `Typed` adds to the type
that a request past `idle` has a message left, without which `Head(todo[r])`
means nothing. `Safe` adds to mutual exclusion what the lock stands for: a
running turn's user is locked, so a turn that acquires a free lock finds nobody
running; and for delivery, that a turn on its way to `log` has sent its reply.
`NoBurstIsStranded` needs no more than the types, because `submit` and the
firing timer change the burst and the timer together.

*At most once.* `Once` says where copies of a message can be: a message that any
request holds between `check` and `submit`, or that is pending or in a batch, is
held once, and anything past the log is in `Logged`. Redelivery then stops at
`Check`, whose skip is exactly membership in `Logged`. The assumption is used in
one place, `Deliver`: no two requests carry the same message at once. The run
Turns_race shows that without it the property is false.

*The history.* `Read` says that turn numbers follow the order of service (a
waiting turn has no later turn of its user before it), that an ended turn's
messages are logged rows and its logged outcome an assistant row; hence a turn
that reads after it acquired the lock finds all of it, if the query's limit did
not cut the answer off (`Full`).

*Failure notes.* `Visible` adds to the property that no row of a message on its
way to the queue, in it, or in a burst whose blocks are not built is amended, and
that such a burst has no notes (`Unamended`). Here `SerialDelivery` enters: with
one copy of each message, one turn alone writes its row.

*The refinement of Inbox.* What waits in the abstract queue is made of many
variables of Turns, so each step must be shown to change it as a queue changes.
Tasks are numbered in order of their firing; the rank of a waiting one is the
number of waiting tasks up to it, and every rank is taken (an injection of a
finite set into as many numbers is onto). `LastInOrder` and `FirstInOrder` say
that a new task goes to the end and that the first leaves the others in their
order. Then `submit` is `Enqueue`, the firing of a timer stutters (the burst was
already a queue's last), acquiring the lock is `Serve`, the end of a turn
`Finish`, and a crash `Restart`. `Queued` is what the mapping needs: turns are
numbered in order of their start, and none that lives is without messages.

*The agent loop.* `Shape` gives the message list its rhythm: even length while
asking, odd while answering, each pair with the iteration it belongs to and as
many results as calls. Ids carry their iteration, so work of different rounds is
never confused.

*The digest.* Its four properties relate what reached the phone to what is in
the database, and the loop between the two is where they are open. `Awaited`:
of everyone left in a run, 08:00 had come at the tick that chose her and her
stamp was of an earlier day. `InHand`: the date of the recipient in hand lies
between the day of that tick and today, and what was read is hers.
`Unrecorded`: between the send and the commit her last digest is the one that
is not in the thread yet, and each listed item was told of once more than it was
counted. So a digest that arrives is of a later day than any recorded before
(`Recorded`), and it can be early only if midnight passed since it was chosen.
The arithmetic of local days (`Euclid`, `DivMonotone`, `LocalTime`) is proved
for any offset and length of day.

*The working day.* `NotAfter` is a total order, so the places of `sorted` are a
bijection (`Sorting`), and a list in order stays as it is (`SortedStays`). In such a
list what starts between two colliding intervals starts before the first ends,
which is why the early `break` loses no pair (`Collisions`). For the minutes the
two loops are unrolled: `Loops` shows that n rounds have a value, `CountingUp` is
induction up to n, for a set, from the well-foundedness of `<`. After k rounds
the blocks lie inside the day, apart from one another, and cover exactly what
the first k intervals cover (`Merging`); a sum over blocks that are apart is the
number of minutes in them (`MinutesCount`).

*The Google grant.* `Counted`: when the digest comes to send, and as long as the
row is neither stamped nor about to be, every notice of its grant has been undone;
only one digest runs at a time, so a send makes it one more at most.
For the stamps, `Apart`: unless the grant in the row has crossed a call, an open
call is about that very grant (`Steady`), so what the call writes is about it,
and a notice sent but not yet stamped is of it (`Told`). `Upsert` is where a
grant enters `crossed`, and nothing leaves it.

*The calendar tools.* `Claims`: a claimed approval and the confirmation that
holds the row name each other, which is what the row lock of `claim` gives; so at
most one confirmation is past it and `Accounts` can say at every place how often
its list went out. `Fresh`: while an event is being made no item points to it
yet, and what is linked is what was asked for and is no longer left, or nothing,
once a failed statement has lost the links. `Untold`: a call that holds an event
has not answered yet.

*Consent.* `Drawn`: a state stands for one link for ever and was drawn within
its lifetime and a wait (`Timely`: so much for the starts that are still waiting);
while it is pending nobody has honoured it. `Vouched`: a callback
that is about to store has compared its account with an address that its state's
user was given, which outlives a later `set-email`.

*The contact book.* What is read in a transaction and used in a later statement
must still hold then. `Unwritten`: nothing of a filing is on any row before its
commit; `Shown`: a fact is in a profile only if its meeting has been shown;
`Moving`: what a merge has in hand is between two rows that its user sees. With
them no interleaving of filings, merges and reclassifications takes what was told
in confidence to where colleagues read, and a merge that touches a private row is
its owner's.

For what merges may lose, `Safe` follows the rows. A DELETE waits for every open
filing that names the row (`Held`) and for every merge that shares it (`Shares`),
so what is committed names a row that exists (`Rows`). `Gathering` goes through a
merge statement by statement: of the tables that it is past, all that is at its
source is either in `moved` or in `missed`; so its commit, whose cascade takes
what is at the source and not in `moved`, can lose only the rest. The rule for
facts is the same with the target's row in place of the lock: only a merge whose
target was deleted (`bereft`) can fold nothing.

*Start-up.* `OneHolder`: the lock admits one process; so what it read of
`schema_migrations` is what is there (`ReadIsCurrent`) and its batch goes on
where the schema ends (`BatchFollows`). The app serves after such a batch, and
nobody takes a file from the schema (`Ready`).

A step of Service is one of Migrations or leaves its variables alone
(`ServiceRefinesMigrations`), so what is proved of start-up holds of the service.

*The pool.* What a turn holds follows from its place (`Holds`): one connection
where it waits with a voice note in hand, none where it waits for its first,
two only inside the nested transaction that records a transcription. The queue
lists the turns that wait, each once (`Waiters`). The pool is the set of pairs of
a turn and the number of a connection it holds (`Taken`), so its size is a
cardinality and needs no sum. In a jam everyone who holds waits, hence holds one, for a voice
note; there are as many as connections.

Only model-checked are the promises of progress (`EveryMessageSettles`,
`EveryoneIsServed`, `LapseIsAnnounced`, `EveryRunEnds`, `EveryTurnEnds`): liveness
under fairness is outside this prover's reach. The three theorems with
`SerialDelivery` carry their condition as an assumption, since without it the
property is false (see below).

## Disagreements found

The first three have a run that TLC refutes and an entry under `findings` with the
quoted lines. The others were met while modelling; the last column says where the
model shows them.

| Code does | Documentation says | In the model |
|---|---|---|
| two simultaneous deliveries are both "new" (`gaia/butler.py:162`) | "report whether it is new" (`gaia/butler.py:147`) | run Turns_race |
| a restart after the send sends again (`gaia/jobs/digest.py:309`) | "a restart must not double-send" (`gaia/jobs/digest.py:75`) | run Digest_restart |
| an answer about an old grant revokes a new one (`gaia/core/google.py:60`) | "A reconnect that left either behind would look like it worked" (`gaia/core/db/google_accounts.py:15`) | run Grant_reconnect |
| a restart strands a logged message, whose redelivery is "seen" (`gaia/main.py:83`) | not "it vanished" (`gaia/butler.py:305`) | `Turns!Crash` after `LogInbound` |
| a queued burst runs after deactivation (`gaia/core/turns.py:32`) | "deactivation is immediate revocation" (`gaia/core/db/users.py:61`) | `Turns!Deactivate` before `RunAgent` |
| a slow run reaches a recipient after her midnight and stamps the new day (`gaia/jobs/digest.py:268`) | once local time has crossed 08:00 (design, 382) | the premise of `EarlyOnlyPastMidnight` is reachable |
| a database error in the calendar section is swallowed in a transaction that stays aborted, and the recipient gets no digest (`gaia/jobs/digest.py:190`) | "every failure here degrades to None" (`gaia/jobs/digest.py:178`) | `Digest!Doomed` |
| `nudge_count` survives a snooze or a reopening (`gaia/core/db/leads.py:74`) | mornings "without being acted on" (`gaia/jobs/digest.py:35`) | `Digest!Edit` leaves `nudges` |
| a notice about an old grant stamps a new one, whose lapse is then never announced (`gaia/jobs/digest.py:307`) | a revocation after this connection is "a new event, which a stale notified flag would silence forever" (`gaia/core/db/google_accounts.py:17`) | the exception in `StampIsOfThisGrant` and `LapseIsAnnounced` |
| a lost answer reopens an approval that was sent (`gaia/capabilities/calendar/tools.py:255`) | a listed row is "by definition unsent" (`gaia/capabilities/calendar/tools.py:241`) | `undone` in `SendsAreAccounted` |
| a commitment link that fails takes the lead's with it at the commit, while the event's own properties name both (`gaia/capabilities/calendar/tools.py:164`) | "Both directions, written together" (`gaia/capabilities/calendar/tools.py:148`) | `Invites!LinkFails` |
| a record committed to the source during a merge is cascaded away, and a profile folded into a row that is gone is lost (`gaia/core/db/contacts.py:137`) | "Everything else moves cleanly" (`gaia/core/db/contacts.py:91`) | `missed` and `bereft` in `NothingLost` |
| a merge reports True although its target has been deleted since its check; two opposite ones leave no row (`gaia/core/db/contacts.py:138`) | returns False if a row is not visible (`gaia/core/db/contacts.py:75`) | `bereft` in `PersonSurvives` |
| a merge run `--as` a private row's owner folds it into an org row, or org work into it (`gaia/core/db/contacts.py:98`) | nobody can fold a private contact "or touch a private row at all" (`gaia/core/db/contacts.py:88`) | merges in `Hers`, in `ConfidenceKept` |
| a state outlives its link (`gaia/main.py:222`) | it "can't legitimately" (`gaia/main.py:101`) | the second lifetime, and the wait, in `ConsentIsRecent` |
| a transaction spans downloads and transcriptions (`gaia/butler.py:324`) | "No transaction is held across network I/O" (`gaia/butler.py:291`) | `Connections`: the place `fetch` holds a connection |

## Not modelled

- Wording: prompts, summaries, template flattening, statistics pages.
- Statistics (`stats.py`, `stats_html.py`) and the reports of the admin CLI: they
  read and print.
- Signatures and encryption (`verify_signature`, `oauth_link`, `crypto`): a
  forged request is refused before it changes state.
- Memory search and embeddings: a vector query in Postgres.
- Transcription and image scaling: pure calls; their failure is a choice of
  `BuildBlocks`.
- `PROFILE_CAP` trims the oldest part of a profile on purpose; ContactBook keeps
  every fact, so `NothingLost` is about merging, not about trimming.
- `update_commitment`'s move of a commitment to another contact, in ContactBook.
- Webhook requests and the OAuth routes as users of the pool: each holds one
  connection at a time and asks for no second.
- Daylight saving: a user's zone is a constant offset.
- Backup scripts, compose files, live evaluations.

Three hazards are listed without a property. A deactivation that a queued burst
does not see (`gaia/core/turns.py:32`) and a `nudge_count` that is never reset
(`gaia/core/db/leads.py:74`) are behaviours of the models that the
documentation denies, in the table above. The order of two rows of a history
(`gaia/core/db/messages.py:4`) is not in Turns, which keeps a history as a set.

## Plan

Done: Turns with Inbox, the chunks of a reply and its proofs; Digest with
broken calendars and its proofs; GoogleGrant; Invites with both directions of a
link and its proofs; ContactBook with visibility and its proofs; OAuthConsent
and its proofs; WorkingDay; AgentLoop and its proofs; Connections, Migrations
and their composition Service with its proofs; the refinement of Inbox; the
proofs of GoogleGrant, of the pool and of WorkingDay.

Next, modules:

1. `Thread` - the order of a history by transaction start.
2. Connections with webhook requests and the OAuth routes in the pool.
3. `update_commitment` in ContactBook.

Next, proofs: the new modules' safety properties with each of them.
