# TLA+ models of travel-superapp

This directory holds a verification project for the concurrent core of
travel-superapp: TLA+ modules translated from the TypeScript sources, TLC
configurations that check them on small instances, and theorems whose proofs
TLAPS checks for every value of the constants. Paths below are relative to the
repository's root; `PROJECT.json` maps each definition to the lines it stands
for.

## 1. Inventory

The product is a monorepo. One NestJS application (`apps/api`) holds the
domain modules; it runs as several instances over one PostgreSQL database
(Prisma) and one Redis. Clients are a Next.js site and an Expo application.
Nearly everything that is hard about the system happens in `apps/api` and in two
packages it uses, `packages/events` and `packages/resilience`. There are no
threads: the unit of interleaving is the code between two `await`s, and most
use cases await several database statements without a transaction around them.

### Components that are modelled

| Component | State it keeps | Operations | Meets |
|---|---|---|---|
| Sessions (`identity`) | `Session` rows: hash of the refresh token, owner, `revokedAt`, `expiresAt`, fingerprint | sign-in with a cap of sessions, refresh with rotation, reuse cascade, logout | reads the user row; account operations revoke its rows |
| Account life cycle (`account`) | `User.deletedAt`, `User.bannedAt`, existence | delete, restore, ban, unban, purge | revokes or cascades to sessions in the same transaction |
| Circuit breaker (`packages/resilience`) | state, failure counter, time of the last trip, in memory | `exec` around an external call, `getState` | every adapter of an external provider shares one among its requests |
| Redis event bus (`packages/events`) | a Redis stream per event type, consumer groups with a cursor and a pending list, a dead-letter stream | publish, subscribe, the consumer loop, unsubscribe, close | the second implementation of the bus port, meant as a drop-in |
| In-memory event bus (`packages/events`) | lists of subscriptions and of dead letters in the process | publish, subscribe, unsubscribe, close | the API is wired with it (`events.module.ts:40-65`), although `in-memory-event-bus.ts:4-6` calls it unsuited to production; modules publish after their writes, subscribers in other modules react |
| Trip (`trip`) | `Trip` row: dates, status, `archivedAt`, version; `ItineraryDay` rows | update, generate, shift, lock, unlock, archive, restore, sweep, delete | publishes `Trip.*` events; asks the planner and the place search |
| Agent watches (`agent`) | `TripWatch`, `AgentRun`, append-only `AgentStep` rows, a Redis lock per watch | start, scheduler tick, watch cycle, decline | starts on `Trip.ItineraryGenerated`, drafts a memory book in `media` |
| Login guard (`identity`) | a failure counter per address in Redis with a time to live, backup codes | password login with a second factor, lock-out | issues sessions |
| Login codes (`identity`) | `LoginCode` rows: age, attempts, `consumedAt` | request a code, try a code | issue sessions |
| Key ring (`identity`) | a ring of signing keys in Redis, a 30-second copy in every process | read, seed, rotate | every token is signed and checked with it |
| Media (`media`) | `MediaAsset` rows, objects in a bucket | create an upload URL, upload, confirm with variants, admin delete, orphan sweep | memory books show assets |
| Subscriptions (`payments`) | `Subscription` rows, `User.role` | Stripe webhooks | Stripe calls; the role opens premium features |
| Expenses (`social`) | expense rows, cached balances in Redis | add, remove, balances, settle up | members of a trip |

### What is hard in them, and what makes them correct

*Sessions.* A refresh looks a token up, reads the user and rotates in three
statements. Between them the other request may rotate, revoke or cascade, and
the account may be deleted, banned, restored or purged. A sign-in inserts its
row, lists the active rows and revokes the surplus one by one. Correct means:
a rotated token stays dead, nothing un-revokes a row, a purge leaves nothing,
a sign-in that runs to its end leaves the cap kept however many others overlap
it, and a session on a deleted account can only come from a request that had
read the account before.

*Circuit breaker.* Calls overlap, so outcomes arrive in circuit periods other
than the one their calls began in. Correct means: a closed breaker has not
just seen a full streak of failures, it trips for nothing less, and it comes
back once the provider does.

*Event bus.* Consumers of one group compete, stop in mid-batch, crash, or see
a Redis command fail with or without effect. Correct means: an entry leaves the
pending list only when it was handled or dead-lettered, no two consumers hold
one entry, attempts are bounded, without failures each entry is answered
exactly once, and with them an entry once handled is handled again or
dead-lettered only if its acknowledgement failed.

*Trip.* The dates are validated against one read, written by another
statement, and the itinerary is cleared by a third; generation computes for
seconds from dates that may have changed. Two different columns say
"archived". Correct means: itinerary and dates agree, event versions identify
updates, deletion is complete, and the status follows its transition rules.

*Agent watches.* Every instance ticks. A lock with a time to live keeps two of
them out of one watch, as long as a cycle is shorter than the lock. The list of
watches and their thresholds is read once per tick and goes stale. Correct
means: one cycle at a time, no proposal or memory book twice, a run is closed
only when its book is on record, and the watch of an ended trip goes off.

*In-memory bus.* A subscription ends, or the bus closes, between two attempts
of a handler. Correct means: what was published while a subscription lasted is
still handled or dead-lettered for it.

*Login guard and login codes.* Counters are read, compared and incremented in
separate statements, with a password hash between them. Correct means: requests
that overlap exceed the documented limits by no more than their number, and no
code signs in twice.

*Key ring.* Processes rotate and seed from copies and write the ring back
whole. Correct means: a key that every process has heard of stays accepted.

*Media.* The sweep compares a listing of the bucket with a later listing of
the rows while uploads, confirmations, deletions and other sweeps go on.
Correct means: what is ready has its bytes, and the sweep takes only orphans.

*Subscriptions.* Stripe repeats and reorders events; the role is read and
written after the upsert in one transaction. Correct means: once the newest
event is the last one written, the role is what it grants.

*Expenses.* A cached value may be stored after the invalidation it should have
been subject to; shares are rounded one by one, so balances need not add up to
zero. Correct means: readers get present balances again some time after the
last write, and the plan for settling up is right and short for every list of
balances.

### Components that are not modelled

`PROJECT.json` lists every one with its reason. In short:

* **days, shares and clones of a trip**: a day is replaced as a whole by
  whoever writes last (see the observations in section 4 for what its guards
  leave open), a share is one insert after a check of the owner; a clone or
  duplicate reads the source in several statements, then creates a draft and
  its days in two, on a trip nobody else knows yet, so that a failure in
  between leaves a draft without days;
* **retention, reactivation tokens, purge schedule**: what they do to the user
  row and its sessions is in `Sessions`; the rest compares times with constants;
* **overload shedding**: what its counter does depends on which Fastify hooks
  run for a shed or failed request, and Fastify is not in the repository; the
  throttler is a single atomic Redis command;
* **rows with one statement per operation** (diary, feed, food, places,
  safety, the rest of media and social, stays, notifications, admin): last
  write wins, and few interleavings beyond that;
* **wrappers of providers** (weather, translation, transport) and the AI
  service: stateless mapping, for the API's part behind the modelled breaker;
* **workers**: thin handlers of BullMQ, whose state is third-party;
* **clients, UI and canvas packages, configuration, deployment**: no shared
  state, or none that TLC could say anything about. They, the generated client
  of `packages/sdk` first of all, are most of the repository's lines, which is
  why the modelled share of the whole is small.

## 2. Plan

Done, in this order: `Sessions` with its proofs; `CircuitBreaker`,
`IdealBreaker` and the refinement between them, with proofs; `EventStream`
with the abstract `GroupDelivery`; `Trip`; `AgentWatch`; then `LocalBus` as a
second implementation of `GroupDelivery`, `LoginGuard`, `LoginCodes`,
`Keyring`, `Media`, `Subscription`, `TripBalances`, `SettleUp`, their common
run `MCPlatform`, and the theorems about them and about `EventStream` and
`AgentWatch`, among them that the stream and the in-memory bus implement
`GroupDelivery`; the theorems for the composition; and, for promises that runs
refute, theorems that say when they hold or how far they can be missed.

Left, most important first:

1. `Trip` started through the bus: `Trip.ItineraryGenerated` starts a watch, and
   the handler swallows every error.
2. What racing requests of `Trip` still keep of its status and archive.
3. The follow graph, karma and emergency contacts of `social` and `safety`, as
   far as they are more than single statements.

## 3. Modules

| Module | Role |
|---|---|
| `Sessions`, `MCSessions` | session rows, requests, account operations |
| `NaturalLemmas` | induction and least elements, used by the proofs of sums and counts |
| `SessionsProofs` | theorems about `Sessions` |
| `CircuitBreaker` | the breaker as coded |
| `IdealBreaker` | the breaker the comment on `exec` describes |
| `BreakerRefinement`, `MCCircuitBreaker` | the mapping from one to the other |
| `EventStream` | one stream, one group, the consumer loops |
| `GroupDelivery` | what the port owes one group when things fail |
| `StreamRefinement` | the mapping from `EventStream` to `GroupDelivery` |
| `Trip`, `MCTrip` | one trip, its itinerary, overlapping requests |
| `TripProofs` | theorems about `Trip` |
| `AgentWatch`, `MCAgentWatch` | the watches of one trip, ticks, lock, cycle |
| `EventStreamProofs`, `AgentWatchProofs` | theorems about the two |
| `LocalBus` | the in-memory bus, as an implementation of `GroupDelivery` |
| `LoginGuard`, `LoginCodes`, `Keyring` | the sign-in counter, one-time codes, signing keys |
| `AccessProofs` | theorems about these three, the breaker and its mapping |
| `Media`, `Subscription` | uploads and sweeps; webhooks and the role |
| `TripBalances`, `SettleUp` | cached balances; the settlement loop |
| `ContentProofs` | theorems about `Media`, `SettleUp`, `TripBalances`, `Subscription`, `LocalBus` |
| `MCPlatform` | the components that share no state, one per behaviour |
| `PlatformProofs` | the theorems of the components, for their composition |

Conventions. A process, call, consumer or instance has a local state with a
program counter `pc`; one action is one awaited statement together with the
synchronous code up to the next `await`. Operators whose name ends in `_Word`
after the name of another (`Rotate_InPlace` before `Rotate`) are deliberate
faults: `PROJECT.json` pairs each with the property it must break when it
replaces the real definition, which shows that the property is able to fail.
They occur in no specification.

### Sessions

`session[s]` is the row and the token whose hash it stores; ids follow
`issuedAt`. `op[p]` is the request a process handles. `CheckAccount`,
`CreateSession`, `ListActive`, `EvictOldest` are the statements of a sign-in
(`issue-session.use-case.ts` after one of the sign-in use cases);
`FindByRefreshHash`, `FindUser` and `Rotate`, `RevokeOne` or `RevokeAll` those
of a refresh; `Logout` one of a logout. `SoftDelete`, `Restore`, `Ban`,
`Unban`, `Purge` are transactions of `prisma-account-deleter.ts` and
`prisma-account-purger.ts`. `Expire` lets time pass, `Abort` loses the rest of
a request to a failing statement or a crash.
`SignInAllowed` keeps the difference between the password login, which reads
`bannedAt`, and the other sign-in paths, which do not. `era` counts deletions
and stamps each row with the count its request saw: a history variable.
Signatures, hashing and device data are reduced to the one bit the checks
extract from them. Before a magic link or a login code reads the account, one
`updateMany` claims its row (`MagicLinkToken`, `LoginCode`); the claim of a
link, and the account that its first use creates, are left out, since they only
keep requests from reaching `CheckAccount` or bring a user without sessions.

### CircuitBreaker, IdealBreaker

`Admit` is `exec` up to the call of `fn`, `Success`, `Failure` and `Exempt`
what is recorded when `fn` settles. The clock is the age of the last trip,
saturating at `OpenMs`; the counter saturates at `Threshold`, because the code
compares both with those bounds only. `probes`, `recent` and `mixed` are
history; `mixed` records that a call outlived the circuit period it began in or
that a half-open period had a second call. `IdealBreaker` has one probe per
half-open period and lets only its outcome decide. `BreakerRefinement` maps the
breaker to it, for every behaviour up to the step that sets `mixed`.

### EventStream, GroupDelivery

An entry is its position in the stream; since a read returns consecutive
entries, what is left of a batch is an interval. `Read` is `XREADGROUP` with
the id `>`, `Succeed` and `Reject` a run of the handler, `Ack` and `AckFails`
the acknowledgement inside the attempt loop, `DeadLetter` and `DeadAck` the two
commands that end it, `Drop` the treatment of an unreadable entry. `Stop` and
`Quit` are `unsubscribe` and `close`. `Die` is a crash and equally a rejected
command outside the attempt loop, which ends the loop for good;
`Subscribe` starts it again, as a new process would. `GroupDelivery` says what
holds under all of these: whatever is published after the subscription is due,
and once it is dead-lettered, dropped or acknowledged nothing changes the
verdict. One thing can put a verdict in doubt, and the port counts it: the
acknowledgement of a handled event fails (`Mishap`), after which the event is
handled again or dead-lettered although it was handled (`Repeat`). Each event in
doubt is charged to a mishap of its own. `StreamRefinement` reads the fate of an
entry off the stream, its pending list, its dead letters, the record of the
handler and the loops (`Fate`); an event handled and dead-lettered has a fate of
its own, `both`, and a handled one that a loop is about to try once more is
`doubted`.

### Trip

`ReadFor...` actions are the reads and checks a request begins with; what it
read is kept in `op` and used by the later statements `WriteUpdate`,
`ClearItinerary`, `AnnounceUpdate`, `ReplaceDays`, `ShiftDays` and
`WriteStatus`. Those write by id: the only condition left is that the row (or,
for the days, its foreign key) exists. `SetArchived`, `AutoArchive`,
`AdminArchive` and `Delete` are single statements. Dates are numbers and the
itinerary is the set of its dates; titles, places and summaries have no
influence on control. In `WriteUpdate` the search for the row by owner and the
update by id are one step; whether a title or radius differs, and so is
announced, is left open. A write of days that meets another in
`@@unique([tripId, dayIndex])` is rolled back, as in `Abort`. The event
`Trip.ItineraryGenerated` at the end of a generation is not published in the
model: the run of a watch that it starts belongs to `AgentWatch`.

### AgentWatch

`ListActive` and `TakeLock` are the scheduler, `ReadTrip` to `Propose` the
watch cycle and the use cases it calls, `FindActive`, `CreateRun`,
`CreateWatch` the start, `Decline`, `ReadThreshold`, `WriteThreshold` the
declined proposal. `LockExpires` is Redis. A signal is a level compared with a
threshold, as the weather rule does it; the flight rule is the case of two
levels. `NoCenter` is a trip whose stops have no coordinates yet. `PollSignal`
takes the answer of the provider and its record as one step, which only a second
cycle of the watch, let in by a slip, could tell apart. There is one decline at a
time: of two that overlapped one raise of the threshold would be lost. `Throw` ends a cycle whose statement fails, `Crash` a whole tick,
`StartFails` a start.

### LocalBus

The port's mishaps stay 0: nothing here fails but handlers, and there is no
acknowledgement. `publishing[m]` is the promise that `publish` returns, `dispatch[m][s]` what
became of the event for one subscription. `PublishLocal` takes the list of
subscriptions as it is then; `HandlerRejects` retries at once and dead-letters
after the last attempt; `UnsubscribeLocal` and `CloseLocal` replace lists and
leave handlers running. `LocalFate` maps one subscription to `GroupDelivery`.

### LoginGuard, LoginCodes, Keyring

`LoginGuard` has one address. `Gate` reads the counter; `WrongPassword`,
`RightPassword`, `WrongCode`, `TotpCode` and `BackupCode` are the checks in
between; `Increment` and `Clear` are the Redis commands at the end, and
`IncrementFails` loses one. Passwords and TOTP are reduced to right and wrong.
`LoginCodes` has one destination. Rows are numbered by `createdAt` and age from
valid to expired to out of the counting window. `CountRecent` and `CreateCode`
request a code (of one channel, whose check is left out), `FindActive`, `RegisterFailedAttempt` and `ConsumeCode` try one.
`Keyring` keeps a ring as its set of keys. `CallRing`, `GetStored`, `TakeCopy`,
`Seed` and `CopySeed` are `getRing`, `WriteRotated` and `DeleteCopy` the rest of
`rotate`; a command and the arrival of its reply are two actions.

### Media, Subscription

`Media` has a row (inserted in one step with the signing of its URL), an upload URL and keys in the bucket for each asset.
`FindToConfirm` to `UpdateVariants` are the awaited calls of the confirmation,
`Diff` the two listings of the sweep, `DeleteOrphan` one deletion. Any part of
the bucket may be listed, since the listing is paged, not a snapshot, and ends
after 1000 pages. `Upload` belongs to the client and may come late.
`Subscription` has one user. `Emit` is Stripe, which numbers its events here so
that a delivery may be any of those emitted so far; `Upsert`, `ReadRole` and
`Commit` are the transaction, whose upsert locks the row until the commit. The
user exists, as the foreign key of the row asks; events without the identifiers
of user and subscription are ignored by the code and absent here.

### TripBalances, SettleUp

In `TripBalances` a balance is represented by the set of rows it was computed
from; `Miss`, `Compute` and `Store` are the reader, `AddExpense` or
`RemoveExpense` (whose read before the counted deletion decides nothing) and
`Invalidate` the writer, and each cache command may be lost,
as the cache class swallows its errors. `SettleUp` is the loop of
`computeMinimumCashflow`, one iteration per step, on any balances in cents.

### MCPlatform

These components, the breaker, and `Sessions` with a single request share no
variable and no event, so interleaving two of them shows nothing that each
does not show alone, and would multiply their states. `turn`, chosen at the
start and constant, says which one moves; each property then is about the
behaviours in which its component moves, and trivially true of the others.
Fairness is asked of the component whose turn it is.

## 4. Runs

Seven runs exhibit a property that a comment or document states and the code
does not keep (`violation`). All others pass.

| Run | Question | Instance |
|---|---|---|
| `sessions` | do the session invariants hold, and do sign-ins enforce the cap, under every interleaving | 1 user, 2 requests, cap 1, 4 rows, 1 deletion |
| `sessions_token_race` | violated: single use, when two refreshes overlap | 2 requests |
| `breaker_probes` | violated: one call per half-open period | 2 calls |
| `event_stream` | delivery with competing consumers, one fault, one stop; refinement of `GroupDelivery`, failed acknowledgements accounted for | 2 consumers, 3 events, batches of 2, 2 attempts |
| `event_crash` | violated: every delivered event is handled or dead-lettered in the end | 2 events, 1 fault |
| `trip` | versions, itinerary and deletion under two overlapping requests | 2 requests, 2 dates, 3 versions |
| `trip_lock` | violated: an archived trip cannot be locked | 1 request |
| `watch` | one cycle, one book, no repeated proposal, proper closing | 2 instances, 1 watch, 3 levels, 1 slip |
| `watch_twice` | violated: at most one active watch | 2 starts |
| `platform` | the questions of the table below, one component per behaviour | see there |
| `media_variants` | violated: the sweep deletes nothing that a row refers to | 1 asset, 1 variant, 1 sweep |
| `keyring_race` | violated: concurrent rotations lose no key | 2 processes, 2 calls, 2 keys |

What `platform` asks:

| Component | Question | Instance |
|---|---|---|
| breaker | counter, state and history agree (`ClosedMeansHealthy`, `TripNeedsStreak`); it is the documented breaker until calls mix (`ImplementsIdeal`); it recovers (`Recovers`) | 3 calls, threshold 3, cooldown 2 |
| media | what is ready has its bytes (`ReadyHasBytes`) | 2 assets, 1 variant, 1 confirmation, 1 sweep |
| settle up | the plan settles and is short (`PlanSettles`, `PlanIsShort`) | 4 members, every balance from -3 to 3 |
| balances | the cache heals (`BalancesHeal`) | 2 expenses, 1 writer, 2 readers |
| subscription | the role follows Stripe (`RoleFollowsStripe`) | 1 subscription, 2 events, 2 deliveries, every status |
| in-memory bus | it implements the port (`LocalImplementsPort`) | 2 events, 2 subscriptions, 2 attempts |
| login guard | wrong guesses are bounded (`GuessesAreBounded`) | 2 requests, limit 5, 1 lost increment |
| login codes | codes, tries and sign-ins are bounded (`CodesAreBounded`) | 2 requests of each kind, 3 rows, limits of 1 |
| key ring | keys that have spread stay (`SpreadKeysStay`) | 2 processes, 2 calls, 2 keys |
| sessions | what requests that do not overlap may rely on: single use of a token, the cap (`TokenIsSingleUse`, `CapAfterSignIn`) | 1 request, cap 2, 4 rows |

Why the bounds are enough. Two actors suffice for most races of this code: a
check and the write that relies on it are separated by one other actor's step.
Where actors are counted (guesses, codes) the bound is a formula in their
number, and a theorem states it for every number. Four session rows let a token
be rotated while its successor is already in use, and let the cap evict a row
of another request; a cap of 1 makes each second sign-in exceed it. With three
events and batches of two, a batch is cut by the end of the stream and the next
one by another consumer; two attempts distinguish the first, a retry and the
dead letter. One fault, placed anywhere by TLC, is enough to strand or repeat an
entry, and the invariants that exclude faults say so in their premise. Two
dates give windows of one and two days, empty ones and reversed ones. Three
signal levels allow a raised threshold above and below the level seen. Four
members give every split into creditors and debtors up to three against one and
two against two, with ties, and sums that do not vanish. Two events suffice for
one to be late or repeated. Two keys and the bootstrap key let a ring be
written over one that had a newer key. In each module the bounds are the
constants named `Max...`, and guards with them only stop an actor from beginning
what there is no room for.

Deadlock checking is off, because in each of these runs a bounded counter or a
final state (all users purged, the trip deleted, the plan returned) really lets
everything stop.

Fairness. Node resumes a handler when its statement settles, and Prisma and
Redis clients settle or reject every command: hence weak fairness of a begun
request's next step (`EventStream`, `AgentWatch`, the readers of
`TripBalances`). Handlers of events settle because the calls they make are
bounded by `withTimeout`. The breaker is only tried if someone calls, so callers
are assumed not to give up, and `fetch` under `withTimeout` settles. The
interval timer of the scheduler keeps ticking and Redis drops expired keys.
Nothing is assumed of users, crashes, stops or of the order in which settled
promises resume. `EventStream` assumes that a consumer that ended is started
again; that is the deployment's doing, since nothing inside the process does
it.

### What the violated runs show

* `sessions_token_race`: `rotate` updates the old row by id without asking for
  `revokedAt: null`. Two refreshes with one token that are both past the lookup
  each get a live successor, and no reuse cascade fires.
* `breaker_probes`: `exec` does not record that a probe is in flight, so every
  call that arrives before the first outcome goes through.
* `event_crash`: consumers read with `>` only and are renamed with each
  process; what was pending for one that died is read by nobody.
* `trip_lock`: the admin archive sets `status`, the lock reads `archivedAt`, and
  the write asks nothing; an archived trip is published again.
* `watch_twice`: the check for an active watch and its creation are two
  statements, and no constraint of the table stands behind them.
* `media_variants`: the sweep takes the column `s3KeyRaw` for the list of all
  keys in use; the variants of every image are orphans to it.
* `keyring_race`: rings are read, changed and written back without the `WATCH`
  and `MULTI` that the comment names, and from a copy up to 30 seconds old; of
  two rotations one loses its key.

### Observations that have no run

Met while modelling, each a sequence that the modules allow:

* A refresh that replaces a row which a sign-in has listed for eviction keeps the
  device signed in over the cap: the list holds the old row, not its successor.
* A refresh or sign-in that read the user before a deletion inserts a live
  session after it (`LiveOfDeletedIsLate` says it is the only way). The comment
  in `prisma-account-deleter.ts` excludes it.
* The reuse cascade fires for any revoked row, also one that the cap evicted or
  that was logged out, and then ends every session of the user.
* A banned user can sign in by magic link, login code or OAuth.
* A call that began before the breaker tripped and answers in the half-open
  period decides it while the probe is still running.
* The acknowledgement stands in the `try` of the attempt loop
  (`redis-streams-event-bus.ts:226-234`), so that one that rejects counts as a
  failure of the handler: the handler, which had succeeded, runs again, and after
  the last attempt the event is dead-lettered on top, against `event-bus.ts:19-22`,
  which speaks of handler failures. `ImplementsPort` has this as the doubted fate
  and `both`. A rejected command outside the attempt loop ends the consumer loop
  silently for the life of the process.
* Two one-sided date patches that overlap can store a window that runs
  backwards; a trip restored by its owner is archived again by the next sweep,
  which goes by `createdAt`.
* A crash between the draft of a memory book and its record makes the next
  cycle draft a second; a planner that throws after the signal was recorded
  loses the proposal, since the next cycle sees no crossing.
* `withTimeout` cannot cancel a call: one that timed out goes on upstream, and
  the breaker counts it as ended.
* The in-memory bus differs from the port's comments: `publish` waits for the
  handlers, `close` does not, and each call of `subscribe` is a group of its
  own. `trip-itinerary-watch.handler.ts` (54-110) swallows every error, so its
  events are never retried on either bus.
* A user with two subscriptions loses premium when one of them is cancelled; a
  repeated old event grants or removes the role until the next one; the role
  `agent` is not protected, and any event replaces it. Hence the premises of
  `RoleFollowsStripe`.
* Newer login codes do not replace older ones: when the newest is consumed the
  one before is active again, and a newest one without attempts left blocks the
  others.
* A process goes on with its copy of the ring for up to 30 seconds after a
  rotation elsewhere and refuses tokens signed with the new key. Previous keys
  are never removed.
* A confirmation that ends after `markReady` is never completed: the next one
  returns early (`confirm-upload.use-case.ts:59`).
* Balances computed before a write and stored after its invalidation are served
  until the entry expires. Rounded shares may not add up to zero, so the
  plan cannot always "zero everyone out" (`settle-up.use-case.ts:2-5`);
  `PlanSettles` says what it does then.

And, read in code that is not modelled:

* `optimize-day-route.use-case.ts` (65-130) lacks the check for a published trip
  that `update-day-items.use-case.ts` (105-112) makes, and writes back the items
  it had read before asking for the route; `replaceItemsForDay` recreates them
  without `completedAt`, `startTime` and `endTime`.
* `overload.shedder.ts` (142-148) decrements in `onResponse` and in `onError`,
  and for requests it shed, so that its cap may admit more than it says.

## 5. Proofs

All proofs are checked by TLAPS from nothing; no lemma is assumed. They hold
for every set of users, processes, calls and every value of the bounds, from
the assumptions on constants stated beside their declarations. Those say that
bounds are natural numbers, positive where the code's constant is, that the
sets whose sizes occur in a bound are finite, and that sets the initial state
chooses from are not empty. Where a theorem assumes something of the program's
use, its statement says so: `RoleIsRight` and `PlatformSafety`, one subscription
per user; `OneClientSingleUse` and `OneClientCap`, one client; the theorems
about promises that runs refute, the conditions listed at the end of this
section.

`SessionsProofs`. The inductive invariant `TInv` adds to the sets of `TypeOK`
(`Types`) that the rows `1..issued` and no others exist, and that each begun
request and each existing row has a user; the last two parts of `TypeOK` follow.
Without it the sets are not inductive, because a request indexes `status` by its
user. `TypeOKHolds`, `RevocationFinal`
(an action property), `RotationRevokes`, `LateSessionsOnly` and
`PurgeIsComplete` then each add the conjunct that relates a request under way
to the rows: a request past its account check carries an era that is not newer
than the user's, a row that was rotated is an older row of the same table, and
the inserts of a request whose user is purged are refused by the foreign key.
`CapIsEnforced` says what the cap means when sign-ins overlap: one that runs to
its end leaves at most MaxPerUser active sessions among those up to its own.
Younger rows were inserted after its own, and are cut by the sign-ins that
inserted them, but for one case: a refresh that replaces a row on the list leaves
a younger successor, which stays until the next sign-in. The invariant
(`EnforceInv`) counts, for a request under way, the active rows up to its own
that are not on its list: the list holds the surplus when it is read
(`ListedUpTo`), an eviction takes as much from the list as from the active rows
(`EvictShrinks`), and nothing that other requests do adds a row with a smaller id
(`UpToShrinks`).

Two properties of `Sessions` are false when requests of one user overlap, as
`sessions_token_race` shows for the first. `SingleUseWithoutOverlap` and
`CapWithoutOverlap` prove them for any number of users and requests under the
hypothesis `[]NoOverlap`, that no two requests in progress belong to one user;
requests of different users still interleave, and so do deletions, restores,
bans, purges, expiries and aborts. The run `platform` checks the same with one
request. The invariants behind them are that the row a rotation is about to
replace has no successor yet (`SingleUseInv`), and that at most MaxPerUser
sessions of the user are not on the list it is evicting (`CapInv`):
`SurplusLeavesTheCap` counts those, from the least id among them up.

`AccessProofs`. For the breaker `BInv` adds to the types that in the closed state the
counter equals the length of the failure streak and is below the threshold;
`ClosedIsHealthy` and `TripsAreEarned` follow from it, for any number of
overlapping calls. Then, for any number of callers,
until `mixed` is set every step of the breaker is a step of
`IdealBreaker` or a stutter (`TidyIsIdeal`). What is needed for it is `Tidy`:
nothing runs beside an open breaker, and beside a half-open one only its probe.
`breaker_probes` is the reason for the condition.

`TripProofs`. `VersionInv` says that the versions of updates still to be
announced are pairwise different, announced by nobody and not above the row's
version; with it `VersionsNeverRepeat` holds for any number of overlapping
updates. `DeletedStaysEmpty` is inductive as it stands, because each statement
that writes days asks, through the foreign key, for the row. `WindowInv` says
what `ItineraryMatchesWindow` hides while a request runs: until requests
overlapped there is at most one, what it read is the row as it is
(`ReadNow`), the patch it is about to write gives a window that runs forward,
and days and window agree except between the write of a new window and the
clearing of the days. `ItineraryFollowsWindow` follows.

`EventStreamProofs`. None of the invariants is inductive alone. `StreamInv`
adds what every loop knows of its batch (`LoopOK`, `CurrentOK`: the entries to
come are pending and untouched, the current one has as many runs as the attempt
says) and what every entry has behind it (`EntryOK`, `Held`). The step of one
loop leaves what the others know alone because batches are disjoint, which is
`OneHolder` and part of the invariant; a read takes entries beyond the group's
cursor, which nobody has touched. `CompetingConsumers`,
`AcknowledgedIsAnswered`, `AttemptsBounded`, `NoneStranded`,
`ExactlyOnceAtMost` and `StreamTypes` are its consequences, and so is
`StreamIsPort`, the refinement of `GroupDelivery`: only the loop that is at an
entry changes what is recorded of it (`NobodyElse`), and `CurrentOK` says that
until then nothing was, so an entry goes from due to one verdict. Of the steps of
that loop afterwards, `AckFails` puts a handled entry in doubt and adds to the
faults (`PortMishap`); the turn of the attempt loop that follows handles it once
more, leaves it in doubt or dead-letters it (`EntryStep`); a crash meanwhile
leaves it handled. A step of one loop leaves the fates of all other entries alone
(`FateKept`).

`AgentWatchProofs`. `WatchInv` says what each point of a cycle or a start
implies of the rows (`TickOK`, `StarterOK`, `RowOK`) with failures included,
whence `ClosedIsDone`; and, before the first failure or overrun (`Quiet`), that
a cycle holds its lock and a book not yet on record is about to be recorded,
whence `LockExcludes` and `OneBook`. `ProposalsAreCrossings` is an action
property: `ProposalInv` relates the lowest signal since the last proposal to the
one recorded with the watch and to the one a cycle holds, for which the cycle's
lock is needed again. `OneWatchWithoutOverlap` proves what the comment of the
start claims, for any number of instances, crashes and failures, under the
hypothesis that no two start requests overlap; `watch_twice` refutes it without.

For the sign-in, `GuardInv` puts every wrong guess in the counter, among the
requests about to increment it, or among the lost ones, and leaves room below
the limit for each request past the gate, because whoever passes saw the counter
below the limit; `GuessesBounded` follows by counting. `CodesInv` does the same
twice, for rows and the requests allowed to add one, and for the tries of each
row, and adds that a row that signed in is consumed (`CodesBounded`).
`SpreadKeysAreKept` is an action property: a key in the stored ring, all copies
and all rings that calls hold is in whatever any of them writes or copies.

`ContentProofs`. `MediaInv` says that bytes only come after their row, so an
original listed by a sweep had its row by then; if the row is missing from the
later listing it was deleted, and rows do not come back. Hence a sweep deletes
originals of deleted rows only (`ReadyIsThere`); the opposite order of the
listings, a mutant, breaks it. `SettleInv` counts iterations against the two
indexes (`FewTransfers`), and with the ranges of the indexes gives the types
(`SettleTypes`). `PlanInv` is the ledger behind `EveryPlanSettles`: every member
with a balance is listed once; what is left of a balance is the balance and
what the plan so far adds to it or takes from it; nothing changes sign; the
members the indexes have passed are at zero; and the sum of what is left is the
sum of the balances. Sums are running totals along a list, functions whose
equations (`TotalsEquations`), behaviour under a change of one amount
(`TotalsDiffer`) and zeros (`TotalOfOneSign`) are proved by induction over the
length. That the creditors listed are all the creditors follows from the
pigeonhole principle (`SortingLists`). `StaleEntriesRunOut` is the safety side
of `BalancesHeal` (`StaleOncePerReader`, which no run asks): between two writes
the set of readers that the last one overtook only shrinks, and does so
whenever a right entry becomes a wrong one. The types of a
subscription hold for any user (`SubscriptionTypes`). `SubscriptionInv` says that the
locks of the upsert make deliveries for one subscription exclude one another,
so the role read is the role written over (`RoleIsRight`). For the in-memory
bus, `DispatchOK` says that what is dispatched was published; with the types
(`LocalTypeInvariant`) it makes each step a step of the port or a stutter for
every subscription at once (`LocalBusIsPort`).

`PlatformProofs`. The components of `MCPlatform` take turns and share nothing,
so that a step of one is a stutter of the others: `PlatformIsEveryComponent`
says that the composition implies the specification of each. The theorems of
the components then hold of it, which covers every safety property of the run:
`PlatformTypes`, `PlatformSafety`, and `TokenIsSingleUse` and `CapAfterSignIn`
for one client (`OneClientSingleUse`, `OneClientCap`). The sessions enter with
clients for requests, so their theorems come from an instance of
`SessionsProofs` (`S`); the lemmas `SameInit` to `SameSpec` say that this
instance and the one `MCPlatform` makes are the same specification. One client
is one request at a time, which is `NoOverlap`.

Promises that a run refutes. Some are proved under the condition that makes
them true, the others with the bound to which they can be missed.

| Refuted by | What is proved | Condition or bound |
|---|---|---|
| `sessions_token_race` | `SingleUseWithoutOverlap`, `CapWithoutOverlap` | no two requests of a user overlap |
| `sessions_token_race` | `OverlapBoundsReuse` | as many successors as requests in progress at a time |
| `breaker_probes` | `TidyIsIdeal` | no call outlives its circuit period, no two share a half-open one |
| `watch_twice` | `OneWatchWithoutOverlap` | no two start requests overlap |
| `watch_twice` | `OverlapBoundsWatches` | as many active watches as start requests in progress at a time |
| `keyring_race` | `QuietRotationsKeepKeys` | one process, no overlapping calls, every written rotation deletes its copy |
| `media_variants` | `OnlySweepsTakeVariants` | the sweep deletes no variant |

The bounds are kept by counting: `ReuseInv` adds to the successors of a row the
requests that have read it live and may still replace it, `OverlapInv` to the
active watches the requests that found none. Both runs reach the bound. For the
key ring, `FreshRings` says that what a call or copy holds is what is stored,
but for the copy a rotation has yet to delete; a second process, whose copy
lives on, a second call, or a deletion that is lost would each leave an older
ring to write back. For the variants, `VariantInv` says that what a confirmation
has stored so far is in the bucket; deletions of the row, failures and other
confirmations leave it true, so the listing of the sweep is the one cause.
`event_crash` refutes a liveness property and `trip_lock` a rule that a single
handler does not check; nothing is proved about these two.

Only model-checked: the liveness properties (`Recovers`,
`SettlesWithoutFaults`, `EndedTripIsLeftAlone`, `RunIsClosed`, `BalancesHeal`),
which TLAPS cannot prove under fairness. Every invariant and action property of
a passing run is stated by a theorem.

Induction. The library's induction theorems take a predicate as a parameter,
which no backend here can instantiate. `NaturalLemmas` derives what is needed
from the well-foundedness of `<` on the naturals in the form of sets: a set of
naturals with 0 in it and closed under successors has them all
(`NaturalInduction`). A proof names the set of lengths for which its claim
holds and cites that. This covers recursive functions over an interval, such as
`Totals`; recursive operators remain beyond it, and no module has one.
