# Verification of the Skill Issues marketplace bot

TLA+ models of the marketplace bot in `src/` (a Discord bot and an HTTP API over
one Postgres database), TLC runs that check them on small instances, and TLAPS
proofs of the most important properties for every instance.

## The system

| Component | State | Operations | Talks to |
|---|---|---|---|
| Ticket service (`modules/ticket`) | tables `tickets`, `ticket_counters`, `outgoing_mutations` | create, claim, hand over, resolve, change status, approve a withdrawal, record a payout, approve a seller | called by the bot's interactions and by the HTTP handlers, concurrently and without a lock |
| Catalogue and workflows (`catalog.go`, `workflow.go`) | none | `CanTransition`, `NextStatuses`, `WorkflowForType` | the ticket service and the status menu |
| Membership (`modules/membership`) | table `guild_members` | verify, upsert, delete, the decisions on tiers | the bot, the HTTP API |
| Member handlers (`discordbot/bot.go`, `members.go`) | the roles Discord holds | join, leave, verify, seller approval, `/membersync` | Discord's REST API, membership |
| Confirmation prompts (`discordbot/ops.go`) | an in-memory map of prompts | post, register, confirm, cancel | interactions, the ticket service |
| SaaS credential (`discordbot/saas_token.go`) | a token pair in memory and in a file | `Access`, rotation, `Invalidate` | the SaaS `/auth/refresh`, `/revenue` |
| Authentication (`modules/auth`, `infrastructure/jwt`) | table `refresh_tokens` | login, refresh, logout, logout of all sessions | the HTTP API |
| Reminder, raid signal (`discordbot/ops.go`) | time of the last reminder, join times | reminder every five minutes, burst of joins | the ticket service, the staff channel |
| Bot lifecycle (`main.go`, `bot.go`, `lock.go`, `modules/health`) | a lock file, a pid file, the gateway session | boot, open, close, readiness probe | the operating system, Discord, a second process during a deployment |
| Guild, role and automod sync (`guildsync.go`, `rolesync.go`, `automod.go`) | the guild in Discord, the bot's map of channel ids | `/rolesync`, `/automodsync`, `/guildsync`, refresh | Discord's REST API, people who edit the guild |
| HTTP surface (`router`, `middleware`, `modules/upload`, `audit-log`) | tables `uploaded_files`, `audit_logs`, files | limit, authenticate, operator gate, upload, audit record | every handler |
| Rate limiter (`infrastructure/limiter`) | a map of token buckets, or counters in Redis | allow | the middleware, twice per request |
| Outbox worker (`infrastructure/worker`) | table `outbox_events` | enqueue, fetch, handle, mark, retry | handlers of events |
| HTTP client (`client/http`) | a circuit breaker | call | remote services |
| Input screening; users; configuration | none of their own | | |

What is hard in this code:

* every ticket operation is *read a row, decide, write the whole row back*, and two
  of them may run at once, so a write may carry what is no longer true;
* a payout is two rows in two tables;
* a number, a limit or a reference is checked in one call and used in a later one;
* a member's tier lives in two stores that are changed one call after the other;
* the refresh tokens, the bot's own and the API's, are single use, and using one
  twice is not only an error: at the SaaS it revokes the whole family;
* prompts are posted before they are registered, expire, are evicted, are clicked
  twice and vanish at a restart;
* two processes run the bot during a deployment, one of which may be killed;
* the launch commands create dozens of things in Discord, one call after the other,
  beside other commands and people;
* the rate limiter drops its map while other requests use it, and the circuit
  breaker is two atomics and any number of goroutines;
* an outbox event is delivered before it is marked, by workers whose locks end with
  the query.

`PROJECT.json` lists these hazards one by one, each at its line.

## The modules

| Module | Models | Proofs |
|---|---|---|
| `TicketWorkflow` | the catalogue and the five status graphs | |
| `WorkflowWalk` | a ticket walked through its workflow by the status menu | `BotProcessProofs` |
| `MembershipRoles` | tiers and restrictions as functions of role names | |
| `TicketService` | the ticket service, its repository and its tables | `TicketServiceProofs` |
| `PayoutLedger` | abstract specification of the ledger | refinement in `TicketServiceProofs` |
| `MCTicketService` | values of the constants for TLC | |
| `SaasToken` (`MCSaasToken`) | the SaaS credential of the processes | `SaasTokenProofs` |
| `MemberTiers` | roles, rows, handlers and reconciliation | `MemberTiersProofs` |
| `PendingConfirm` | the confirmation prompts | `PendingConfirmProofs` |
| `AuthTokens` | the refresh tokens of the API | `AuthTokensProofs` |
| `BotProcess` | the processes of the bot, the lock, readiness, the reminder | `BotProcessProofs` |
| `LaunchPlan` | the tables of the launch commands | |
| `GuildSync` (`MCGuildSync`) | the launch commands and the channel cache | `BotProcessProofs` |
| `TokenBucket` | abstract specification of a client's allowance | refinement in `HttpGatewayProofs` |
| `RateLimiter` | both rate limiters, call by call | `HttpGatewayProofs` |
| `HttpGateway` (`MCHttpGateway`) | the middleware chain, the upload, the audit record | `HttpGatewayProofs` |
| `HttpClient` | calls, retries and the circuit breaker | `OutboxWorkerProofs` |
| `OutboxWorker` (`MCOutboxWorker`) | the outbox table and its workers | `OutboxWorkerProofs` |

`TicketService` extends `TicketWorkflow` and `MembershipRoles`, `MemberTiers`
extends `MembershipRoles`; `BotProcess` composes the processes with `WorkflowWalk`,
`HttpGateway` the middleware with `RateLimiter`, and `OutboxWorker` the workers with
`HttpClient`, by extending them.  The "map" of `PROJECT.json` gives the source lines of
every definition.  Definitions named "Mutant" in a comment are altered forms of
the definition that follows them; no specification uses them.

### TicketService

`tickets`, `outgoing` and `seq` are the three tables; `req[r]` is what request `r`
remembers between two database calls.  An operation starts with the action of its
name (`Claim`, `Transition`, ...), which does what happens up to and including the
decision: find the row, check the actor, apply the pure function of `record.go` or
`withdrawal.go`.  The row it computed then waits in `req` until `Save` writes it.
`Create` reads the member's rows, then `NextSeq` takes the number in a transaction
of its own, then `Save` inserts.  `RecordPayment` reads the ticket, then all open
tickets (`PaymentListOpen`), then those of the opener (`PaymentListByOpener`), asks
for the reference (`OutgoingExists`), and finally `SavePayment` writes ticket and
ledger row in one transaction, which the unique indexes may refuse.  `Abort` is any
error in between: nothing more is written.

Abstractions: a public id is its number; history, labels and free text are left
out, and a note is represented by its author; a user's roles do not change while
requests run; time is left out, for its comparisons (an actor's time is not zero, an
approval is not before the ticket was opened) only refuse.  The two clients (the bot and the HTTP handlers) call the
same operations.

`PayoutLedger` says what the ledger promises: it only grows, by one row at a time,
for a ticket and a reference that have none.  `ImplementsLedger` is the refinement
with `outgoing` as the ledger.

### WorkflowWalk

One ticket of any type, the status menu (`NextStatuses`), the transitions and the
payment.  Closing must stay reachable from every status a ticket can be in; this is
a property of the graphs: `ClosableFrom` is the least set of statuses that has
"closed" and where each edge into it comes from.  It is checked as a part of
`BotProcess`.

### BotProcess

Each process goes through the stages of `main.go` and `Open`: the HTTP server
listens (`Boot`), the health service learns of the gateway (`Attach`), the lock is
taken (`acquireBotLock`), the heartbeat file written (`Prime`), the session opened,
the commands registered and the reminder started; then `Shutdown` and `Close`, which
releases the lock before it closes the session.  `Exit` is the end of the process at
any moment, by `Fatalf` or by being killed, when the system frees its lock.  `Ready`
is what `/health/ready` answers while the database does.  The queue is one ticket of
any type, walked as in `WorkflowWalk`, that may be claimed and grows old; `TickPosts`
and `TickLost` are a reminder that arrives and one that does not.

Left out: the SaaS credential that `Open` primes (`SaasToken`), and signals before
`signal.Notify`, which end the process like any kill.  A reminder reads the open
tickets just before it posts, which is one step here.

### LaunchPlan and GuildSync

`LaunchPlan` holds the tables; the assumption `TablesFit` says that they fit
together (every exempt role is created, every channel the bot posts to exists, no
name is empty or occurs twice, no rule is called like a channel of the bot, the
numbers of rules stay within Discord's limits).  In
`GuildSync` `guild` counts the copies of each name, `cache` is `channelIDs`, and a
handler runs one command or a refresh, a REST call per step, any of which may fail, or
create its thing and lose the answer (`CreateLost`), upon which discordgo may send it
again; a rule may be refused with "missing access", which is noted and passed over.  An id
is live or gone, for people delete and create, too.  Which of several copies an id
names is open.  `lost`, `rival` and `blind` are history and say what the code cannot
know: a deletion during the command, a creation behind it (by another, or by its own
call whose answer was lost), a refresh that failed or
was overwritten by an older one.

Left out: what a rule refers to.  `/automodsync` before `/rolesync` and `/guildsync`
creates rules without exempt roles and without an alert channel, and no later run
edits them.  Display names are the keys; `refreshChannels` accepts any channel whose
name contains a key, so one made by hand may take a key over, which is not modelled.

### RateLimiter, TokenBucket and HttpGateway

A request runs `Allow` as the calls of `sync.Map` and the counter, or of Redis.
`Range` visits every key that stays in the map and may miss one stored meanwhile
(`must`, `visited`).  `tokens` is the bucket of one arbitrary key, `Watched`; Wait
may go into debt by what arrives within 100 ms (`Patience`).  `ImplementsBucket` is
the refinement of `TokenBucket` by that key: one bucket whatever requests race, and
what was spent is forgiven only while the map is dropped ("a dropped map only lets a
burst through once").  In the Redis backend a counter past the limit is one value; a call may fail without
effect (`IncrFails`), or be carried out and lose its answer (`IncrLost`), after which the
client sends it again, as go-redis does with the default that `redis.go` keeps, or
gives up; and the process may die between the two calls (`Restart`).

`HttpGateway` is the chain of `router.go`: the limiter by address, the
authentication, the operator gate, the limiter by account, the handler, the audit
record on the way out.  Of the handlers the upload has steps of its own: the file,
the row; the others answer in one step (those of `auth` and `tickets` are in
`AuthTokens` and `TicketService`).  The client may hang up at any time, which makes
`Save` fail after the copy, and `Record`, under the same context, leave no row.
A copied file counts as whole: the errors of `Seek` before the copy and of `Close`
after it, which the code does not look at, are left out.
Readers of the user directory and of the audit log, headers, metrics, access log,
CORS and body limits change nothing the properties read.

### HttpClient and OutboxWorker

`HttpClient` is `Do`: the refusals, the attempts with their backoff, the count of
failed calls, and the goroutine of each opening with its sleep and two stores.
Counts past the threshold are one value.  `OutboxWorker` is the table and its
workers: `Fetch` takes the first `batchSize` due rows not locked, `Commit` ends the
transaction and the locks, then the events are handled in order and marked.
`MarkFailed` takes an event out of `due` until its time comes (`Due`); the counter of
attempts only lengthens that time.  Marks may be lost, and are when the context is
canceled.  `story` says what has become of each event.

The program registers no worker and no handler; the handler modelled sends the event
with one client shared by all workers, which is what the two packages are for.  The
table of dead letters (`dead_letter_events`) is never written: an event nobody can
handle is tried for ever.

### SaasToken

The SaaS issues pairs numbered 0, 1, 2, ...; presenting a refresh token that is not
the newest revokes the family.  `refresh`, `access`, `age` are the fields of a
process's `saasToken` (`Invalidate` is the age "expired"), `file` the persisted pair,
`holder` the mutex of each process.  A rotation is the steps *post, reply, persist* of
one caller that holds its mutex.  A process goes through `Start` (`New`, which reads
the file), `Open` (which takes `bot.lock`), `Close` (which releases it while callers
may still be at work) and `Exit` (the end of the process, from any stage), and another
one may be started at any moment in between, as in a deployment: `Post`, `Load` and
the lock of two processes meet in every order.

`faults` records the accidents that cost the bot the newest pair: an answer that was
lost after the SaaS had rotated, a file that cannot be written, a process killed
between rotation and write, and an *overlap*: a token is rotated that another process
has read from the file already, or reads before its successor is there.  Lost requests,
early 401s, expiry at any moment and hand-overs in which the old process does not
rotate are no accidents: the properties hold in spite of them.  `Post` models the
server from how the bot uses it.  The mode with a fixed token and no refresh token is
not modelled.  A caller may call as soon as its process is open, although the session
opens a little later.

### MemberTiers

`present` and `roles` are Discord's side, `row` is `guild_members`.  A handler is a
task that goes through *verify, current, remove, read, upsert*, one external call
per step, and may fail at each.  `sync` is the reconciliation with the lists it read.
Members do not influence one another (each call names one member, and the
reconciliation treats each on its own), so one member suffices for TLC.  Admins
give and take any of `HandRoles` at any time, a second tier ("conflict") included, and
the guild starts with whatever roles they gave before.  History
variables say what the code cannot ensure: `exempt` holds a member with a second tier
given by hand, whose role removal failed, for whom two handlers ran at once or whose
roles were changed by hand while a handler was at work, until an admin puts the tiers
right or the member leaves; `drift` one whose row may be
wrong until the next undisturbed reconciliation (a handler failed, roles were
edited by hand, the member left, `POST /membership/verify` stored a tier);
`sync.touched` those to whom something happened while the reconciliation ran.

### PendingConfirm

`posted` is what the messages in Discord show, `confirms` the map.  Posting and
registering are two steps; `putConfirm` drops what has expired, makes room at the
limit by dropping any one entry, and stores; `takeConfirm` is the accepted click.  A
refused click changes nothing, except that an expired entry is removed
(`takeExpired`).  `Restart` empties the map and forgets the handlers between post
and registration, while the messages stay clickable.  Time advances by `Tick`.
Which prompts are posted is not restricted by the state of the ticket: the
operations of `TicketService` decide again.

### AuthTokens

`table` is `refresh_tokens`; `Refresh`, `Revoke`, `SaveRefreshToken` are the three
database calls of a refresh, the second the compare-and-swap.  A token carries a
random id, so every generated token is new and a number stands for it and its hash.
`parent`, the session of a row and `ended` are history.  Access tokens are not
stored and are left out, and so is `Register`, one insert into `users`.

## The runs

| Run | Shows | Bounds |
|---|---|---|
| `ticket_concurrent` | `PaidHasLedgerRow`, `ClosedHasResolution`, `OpenerRecusal`, with two requests of any kind at once | one ticket of two types, three users, one reference |
| `ticket_ledger` | `LedgerRowMatchesRequest`, `TicketIdentityStable`, `ImplementsLedger` | two tickets, two references, two requests |
| `ticket_sequential` | `LedgerAndTicketTogether`, `WithinActiveLimits`, `StatusFollowsWorkflow`, one request at a time with failures half way | three tickets of three types, limit two |
| `ticket_paid_lost` | **violated**: a stale `Save` undoes a payout on the ticket | two requests |
| `saas_credential` | `FamilyAlive`, `PersistUnlessDiskFails`, `CallEnds` | an old process with two callers, a new one with one, one rotation, all faults |
| `member_tiers` | `ExclusiveTiers`, `StoredTierAgrees`, `PruneOnlyGone` | one member with any of three roles, given and taken by hand, two handlers, one reconciliation |
| `pending_confirm` | `SingleUse`, `ConfirmedAsShown`, `OnlyNewestActs`, `WithinCap` | three prompts, two admins, two tickets, room for two |
| `auth_tokens` | `SingleSuccessor`, `OneLivePerSession`, `LoggedOutStays` | two requests, two users, four tokens |
| `bot_process` | `OneGateway`, `ReadyHolder`, `RemindsOfWork`, `QueueAnnounced`; `CloseReachable` of the workflows | two processes, a ticket of each workflow, old or new |
| `guild_sync` | `SyncedIsComplete`, `SyncedIsCached`, `DuplicateNeedsRival`, `GuildInv` | two handlers, two roles, a rule, a category with a channel, two copies, one edit by hand |
| `http_gateway` | `ImplementsBucket`, `MemoryBounded`, `CounterExpires`, `ChargedToCaller`, `UploadAccounted` | two requests, an operator and a member, three groups, room for one bucket |
| `outbox_delivery` | `ProcessedWasDelivered`, `DuplicateHasCause`, `BreakerRecovers`, `OutboxDrains` | two workers with batches of one, an older bad event and a good one in either method, one restart |

Why the bounds are enough to be interesting: every hazard listed involves two
actors and one or two objects, so two requests on one ticket meet in every order;
two tickets and two references are needed only for uniqueness, which `ticket_ledger`
has.  The limit of active tickets is a constant of the model (3 in the code): with
the value two, three tickets of three types reach the total and the limit per type
is reached with two.  The map of prompts holds 1000 entries in the code; with room
for two, three prompts reach the eviction.  One rotation is enough for each of the two processes
to hold either pair when it rotates; that later pairs change nothing is what
`SaasTokenProofs` proves, and with two rotations the safety properties pass as well
(360 000 states; only `CallEnds` then takes too long for a routine run).  Four tokens allow two sessions with
a successor each, or one session with three.

Two processes meet at the lock in every order, and the reminder speaks of one
ticket.  The names of `guild_sync` have every kind of thing in them: two of one plan
(a failure between them), a rule (which may be refused), a category and a channel of
its own that the bot caches.  Room for one bucket, with four keys, makes the map
overflow at every second client, and a burst and a Redis limit of one are reached
at once.  A circuit that opens after two failed calls opens and closes several times
in `outbox_delivery`.  Its batch holds one event of two, so that `LIMIT` makes the good
one wait behind the older bad one: without the hypothesis `DelaysOutlastBacklog` TLC
finds the good one starving.  With a batch of both the run passes as well (380 000
states), and the safety properties are proved for every size.

Two runs say `CHECK_DEADLOCK FALSE`: once all tokens of the bound are generated,
revoked and expired nothing is left to do (`auth_tokens`), and neither is it with
an empty outbox (`outbox_delivery`).

Fairness is used for three properties.  `CallEnds` (`LiveSpec` of `SaasToken`): strong
fairness of each caller's own steps.  The HTTP client gives up after 5 seconds, so each
step ends, and where the mutex is free or held by the caller a step once enabled stays
so, which makes it no more than weak fairness; where it is taken, Go's `sync.Mutex`
hands itself over to a waiter that starves.  Nothing is assumed about when a call is
made, the token expires, or a fault, a start or the end of a process happens.
`QueueAnnounced` (`BotSpec`): the cooldown
ends (the clock runs and the ticker ticks), and a post tried again and again succeeds
some time, which assumes a staff log and a Discord that answers now and then; nothing
is assumed of the processes.  `OutboxDrains` (`OutboxSpec`): every worker and every
goroutine is scheduled, a failed event falls due again unless a younger one is waiting,
a process told to stop is started again, and the database and the remote side, asked
again and again, answer some time; each single answer or mark may be lost.  It is
stated under `DelaysOutlastBacklog`: from some time on no failed event falls due again
while a younger good one is still waiting.  The delays are an hour for an unknown
topic and as many minutes as attempts, growing without limit, for a handler that fails,
and a worker fetches every second; so the hypothesis says that the backlog of good
events is worked off in that time.  It is not something the code ensures: the number
of attempts is not limited, and `LIMIT` takes the oldest first.

## What the runs found

Places where the code does not do what a text in the repository says; the first is
the run `ticket_paid_lost`, the others were met while modelling, and the properties
that hold name them as the exception.

* *Lost update.*  `Save` writes the whole row.  A `Claim` that read it before a payout
  puts it back to `approved`, while the ledger keeps the row (`ticket_paid_lost`);
  the comment at `SavePayment` says ticket and ledger move together.  By the same way
  a closed ticket is reopened.  What does survive every stale write is proved:
  `PaidHasLedgerRow`, `ClosedHasResolution`, `TicketIdentityStable`, and no second
  payout (`NoDoublePayout`).
* *Limits.*  `Create` checks `ActiveLimit` on rows it read earlier, and nothing in
  the database enforces it; two submissions at once get through.  The ticket panel
  promises "one active ticket per type, up to three".  `WithinActiveLimits` is therefore
  checked of one request at a time (`ticket_sequential`).
* *Persist before use.*  `rotateLocked` changes memory before the file, and when the
  file cannot be written, `Access` falls back on the token in memory,
  which is why `PersistUnlessDiskFails` makes an exception for the disk.
* *Replay in a hand-over.*  "Two rotations racing, or a restart replaying a stale token,
  would both be fatal", says the comment of `saasToken`, and `Open` rotates once "before
  serving" against it.  But `New` has read the file before `Open` takes `bot.lock`
  (`bot.go:66` and `75`), and `Close` releases the lock before the old process's callers
  are done (`bot.go:131`): a process started while the old one still rotates presents
  the token it has read, and the family is revoked.  `FamilyAlive` therefore counts
  such an overlap among the accidents; without that exception TLC violates it in
  eleven steps.  Reading the file again after the lock is taken would close the first half.
* *Exclusive tiers.*  `exclusiveTier` ignores a failed removal and grants the other
  role, and its list of removals is as old as the member it read: a tier granted
  meanwhile, by an admin or another handler, stays.  A second tier given by hand is
  noticed ("conflict") and left for a person to resolve.  `ExclusiveTiers` leaves such
  members out until they are put right (`exempt`).
* *Readiness.*  The HTTP server listens before `SetGateway`, although the comment in
  `health/service.go` asks for the opposite order: for a moment the probe says ready
  of a process without a gateway (`ReadyHolder` starts after stage "boot"), and the
  two goroutines share the field without a lock.
* *Additive sync.*  `automod.go` promises that a rule is created only when none of its
  name exists; two commands that run at once create two, and so does one whose call is
  sent again after its answer was lost (`rival`).  A role that
  exists twice is no longer found by `findRole`, and then no tier can be granted.
* *Cap of the limiter.*  `maxLimiterEntries` "caps how many buckets are held"; buckets
  stored while the map is dropped are forgotten by the counter (`survivors`).  A
  request whose bucket is dropped between its two loads is refused for nothing.
* *Expire.*  The expiry hangs on one answer: only the request that is told 1 sets it, and
  the error of that `Expire` is discarded.  When the call fails, when the answer that
  said 1 is lost (sent again, `INCR` says 2), or when the process dies between the two
  calls, the client of that counter is refused until somebody deletes it (`leaked`).

Boundaries that the properties state, rather than findings: a lost answer to a
rotation makes the next call present the rotated token again (`FamilyAlive` speaks
of the time before); a logout of all sessions misses a token that a refresh has
generated and not stored yet (`AtRest`); the reconciliation may delete the row of
somebody who rejoined while it ran (`touched`); `POST /membership/verify` stores a
tier without granting a role; sessions of two processes overlap while one closes
(`OneGateway`); a request refused by the global limiter, one whose handler panics and
one whose client has hung up leave no audit record, and an upload whose row cannot be
inserted leaves its file; a call refused by the open circuit fails like any other and
postpones its event; several goroutines may sleep at once, and an old one may close a
circuit that a newer failure has opened.

## What is proved

All theorems hold for arbitrary sets of users, tickets, references, callers,
messages, members, names and requests; the assumptions are those named with the
constants (`ConstantsAssumption`, `SaasAssumption`, `ConfirmAssumption`,
`AuthAssumption`, `MembersAssumption`, `NullAssumption`, `TicketTypesAssumption`,
`LimiterAssumption`, `GatewayAssumption`, `KeysAssumption`, `ClientAssumption`,
`OutboxAssumption`), which fix types, that `Null` is not one of the values and that
finitely many requests are in flight, and `TablesFit`, which says of the tables of
the launch commands what TLC finds in them.  The bounds on counters are arbitrary
naturals.

* **`TicketServiceProofs`**: `Invariance`, `TypeCorrect`, `PaidIsProved`,
  `LedgerIsHonest`, `Recusal`, `ClosedIsResolved`, `IdentityIsStable`,
  `LedgerRefinement`, `NoDoublePayout`.  The properties speak of the tables only and
  are not inductive: a request may hold a row read long ago.  `IInv` adds that
  whatever a request is going to write is as sound as a stored row, still has the
  identity of the row it replaces, and, if it says paid, that the ledger row is
  there, which stays true because the ledger only grows; and that a number a
  `Create` holds is held by nobody else.

  What holds only without a stale write is proved under a hypothesis that says which
  requests must not overlap.  `StatusesFollowWorkflows` and `TicketFollowsLedger` ask
  for `[]OneRequestPerTicket`: no two requests hold copies of one ticket.  A copy is
  then one step ahead of its row (`FreshInv`), and the row of a payout and the ticket
  it pays are written in the same step.  `LimitsHold` asks for `[]OneCreatePerMember`
  as well: whoever is creating a ticket has kept room for it since `Create` counted
  (`RoomInv`), and no write of a copy reopens a ticket.  `OneAtATime` is the instance
  with one request, which is what `ticket_sequential` checks; `ticket_paid_lost` shows
  that the hypothesis cannot be dropped.
* **`SaasTokenProofs`**: `SaasInvariance`, `FamilySurvives`, `PersistedFirst`.
  `SaasInv` says that only the holder of a process's mutex is in the middle of a
  rotation there; that the newest pair, while it is on its way to the file, is in one
  process and nowhere else; and, as long as no accident has happened, that a process
  which brings a new pair is alone, and that the file and every process have the
  newest pair while nobody does.
* **`PendingConfirmProofs`**: `ConfirmInvariance`, `PromptIsSingleUse`,
  `WhatIsShownIsDone`, `ExpiredNeverActs`, `NewestActs`, `MapStaysWithinCap`.  `ConfirmInv` says that every
  entry of the map stands under the key of the prompt its message shows, belongs to
  the message registered last for that key, and has not been used.  The cap needs no
  more than that the map is finite: `putConfirm` makes room for one before it stores.
* **`AuthTokensProofs`**: `AuthInvariance`, `RotationIsSingleUse`, `SessionsDoNotFork`,
  `LogoutIsFinal`.  `AuthInv` adds that a request about to store a token owns its
  session: no live row, no other such request and no logout has it; that a token
  with a successor is revoked; and that a session belongs to one user, without which
  a logout of all sessions of a user could not be said to end it.

* **`MemberTiersProofs`**: `Invariance`, `TypeCorrect`, `TiersAreExclusive`,
  `StoredFollowsRoles`, `PruneIsOfGone`.  That a member has one tier depends on every
  handler in flight: whatever other tier the member still has is on the handler's list
  of removals (`Granting`), which another handler would make stale; so no second one
  works on a member (`Alone`) who is not in `drift` and `exempt`; an edit by hand in
  the middle of it puts the member into `exempt`.  `IInv` says of each
  handler what it still intends and why that is sound (`SoundTask`, `Granting`,
  `OnCourse`), that the rows the reconciliation compares are those it listed except
  for whoever was touched since (`InSync`), and that somebody who left has no roles.
* **`BotProcessProofs`**, in three parts.  *Processes*: `BotInvariant`,
  `SessionsOverlapOnlyInHandover`, `StandbyIsNotReady`, for any number of processes.
  `BotInv` says that the lock is held exactly by the process between acquiring and
  releasing it and that only a process with an open session counts as connected; the
  two others follow at once.  *The ticket that waits*: `KeepsToItsWorkflow`
  (`WalkInv`), and from it `ReminderAgrees` and `NoStatusIsATrap`, which are then
  facts about the four graphs, for every type of the catalogue and for tickets
  without a workflow id.  *The guild*: `LaunchInvariance`, `NothingIsMadeUp`,
  `SuccessIsComplete`, `ChannelsAreKnown`, and the action property
  `RetriesDuplicateNothing`, for any names of the tables, handlers, copies and edits.
  `LaunchInv` says that a handler that creates has whatever of its plan exists unless
  it has a rival, that one past its creations has or was refused its whole plan, and
  that the ids about to be stored are of channels that exist; no step of another
  handler or person makes that false without leaving a trace in `lost`, `rival` or
  `blind`.
* **`HttpGatewayProofs`**: `LimiterImplementsBucket`, `RedisCountersExpire` and
  `MapIsBounded` of the limiter alone, under any callers; `ChainInvariant`,
  `AllowanceIsTheCallers`, `UploadsAreAccounted`; and, because every step of the
  gateway is a step of the limiter or leaves it alone, `GatewayImplementsBucket`,
  `GatewayCountersExpire` and `GatewayMapIsBounded`.  The refinement needs an invariant
  of its own: a key without a bucket has a full allowance, and a bucket is only removed
  during a drop.  The bound of the map (`MemoryInv`) counts: every bucket has been
  added to the counter, or is a survivor of a drop, or was stored by a request that is
  about to add it, and every request past the check may still store one.
* **`OutboxWorkerProofs`**: `OutboxInvariant`, `DuplicatesHaveCauses`,
  `ProcessedEventsWereDelivered`, `CircuitRecovers`, for any workers and events.
  `OutboxInv` says who may hold an event: one worker, unless two have fetched it, and
  once it is delivered only the worker about to mark it.  `CircuitRecovers` is about
  the breaker alone: an open circuit has a goroutine that has not closed it yet.

The inductive invariants (`IInv` of two modules, `SaasInv`, `ConfirmInv`, `AuthInv`,
`BotInv`, `GatewayInv`, `OutboxInv`) contain the type invariants of their modules;
the runs do not evaluate them, nor `ConfirmedInTime`, which is proved as well
(`ExpiredNeverActs`).  Before it was proved each was checked by TLC as an invariant of
the run of its module, and so were `FreshInv`, `RoomInv`, `MemoryInv`, `WalkInv` and
`LaunchInv`.

Only model-checked: `CallEnds`, `QueueAnnounced` and `OutboxDrains`, which are liveness
under fairness and out of the prover's reach.  Every other property of a passing run is
a theorem.  Two definitions have the form they have so that they can be reasoned about:
`ClosableFrom` is a least set and not the matrix of the community module `Graphs`, and
`NextMissing` is the name at the least index and not the head of a `SelectSeq`, both of
which are recursive.

## Not modelled, and the plan

What could be modelled next:

1. The exempt roles and the alert channel of a rule in `GuildSync`.
2. The list of admins `bot.go` caches, and `noteJoin`, whose window is one critical
   section.

Left out for good: configuration, database, Redis connections, metrics and logs
(wiring without state of its own); panels, embeds, modals and wording (presentation);
the user directory and the reading of the audit log (read-only); `Register` (one
insert); text screening by regular expressions, `ParseAmount`, `FormatAmount`, the
Luhn screen and `FormatID` (pure functions of one string, within reach of unit tests).
