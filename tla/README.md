# Evangelismo Digital backend: a TLA+ development

The repository is a Fastify API and a BullMQ worker over Postgres (Prisma) and
Redis. This directory holds TLA+ modules of its core, the TLC configurations
that check them on small instances, and TLAPS proofs of what matters most.
Paths below are relative to the repository's own `src/`.

## 1. Inventory

| Part | State it keeps | Operations | Hard because | Correct when | Module |
|---|---|---|---|---|---|
| **Outbox table** `infra/outbox/repositories` | one row per event: status, attempts, sendingAt, expiresAt, pendingRecipients | create, claim (compare-and-set), updateStatus (unconditional), retryFailed, updatePendingRecipients, five deletions | several processes write one row; only two of the writes test what they overwrite | a row leaves only when served, expired or purged; the double of the unit tests does what the database may do | `OutboxStore`, `OutboxTable`, `InMemoryOutbox` |
| **Registration of events** `modules/*/services`, strategies | the payload, untyped JSON | the use cases that commit an event; the strategy that reads it | the two ends agree by convention | what the API accepts, the dispatch can build | `DispatchPlans`, `PasswordReset` |
| **Outbox dispatch** `infra/outbox/jobs/outbox-processor.ts`, `outbox/queue`, `outbox/workers` | the queue of signals (a *copy* of the event), batches in memory, two locks | the 5-minute sweep, the midnight recovery, the signal worker; claim, add, revert | everybody acts on a snapshot; crash between claim and add; adds that time out; locks that run out | a claim is exclusive, dispatches are bounded, nothing is stranded | `OutboxDispatch` |
| **Mail delivery** `infra/mail/workers/mail-worker.ts` | BullMQ job (state, attempts, data), idempotency key in Redis, SMTP's view | the gates, the batch, the selective retry, the key, the `failed` handler | stalls make two executions of one job; the two writes of the selective retry can fail apart; the key has a TTL and a DEL without an owner | at least once for everybody; more than once only when something failed | `MailDelivery` |
| **Outbox upkeep and triage** `outbox-maintenance.ts`, `outbox-triage.ts` | selected ids between two statements | expiry sweep, purges, retry of FAILED | rows disappear or revive under everybody else | purges take what they may | `OutboxUpkeep` |
| **Distributed lock** `infra/distributed-lock` | one Redis key per lock, token of the owner | acquire, renew, release, TTL | renew's answer is ignored; a SET is done and its answer lost | the owner alone releases; exclusion while the TTL lasts | `DistributedLock` |
| **Maintenance worker, scheduler** `maintenance-worker.ts`, `analytics-retention.ts` | BullMQ's schedulers and jobs, the phases and batches of a run | tick, take, acquire, delete a batch, release, crash | a table fails for ever; a run is cut by its ceiling; the lock lets no error through | two pods never do one sweep together; the backlog is drained in the end | `Maintenance` |
| **Resilient cache** `infra/cache` | pending fetches, envelopes in Redis, bulkhead, breaker | getOrFetch | single flight across awaits; callers leave; late writes | one fetch per key; a caller cancels only itself; transient failures are never stored | `ResilientCache` |
| **Upstream providers** `infra/providers` | deadline, retry counter, breakers | chain of providers, retries, admission | one budget for all of it; sequences nobody awaits go on | no call without budget or listener; a CEP is denied for long only unanimously | `Lookup`, `ProviderBreaker`, `UpstreamProviders` |
| **Rate limiter, outage reporter** `infra/rate-limiter` | one outage episode | tryConsume, failed, succeeded | reports out of order, from every provider | every bypass is told once | `OutageReporter`, `Lookup` |
| **Churches** `modules/churches` | church rows | nearest churches of a CEP; create, delete, find by name | fallbacks on fallbacks; check-then-create; a two-phase search | no twins; a small registry is searched exactly | `Lookup`, `ChurchRegistry`, `InMemoryChurches` |
| **Users, authentication** `modules/users`, `modules/auth` | rows with unique columns, audit rows | register, update, delete, log in | check-then-write | the unique index decides | `UsersStore`, `UserRequests`, `Accounts` |
| **Password reset, forms** `modules/auth`, `modules/forms` | token hash and expiry in the user row; form rows | request, reset, clean-up of expired tokens, submit | writes by user, not by token | a link is of use once and lives until somebody with a claim to it ends it; token and mail commit together | `PasswordReset`, `Accounts` |
| **Analytics** `modules/analytics` | visitor, session and event rows; cookies | start, track, identify, revoke, erase | statements without a transaction; answers lost or overtaken | what was revoked stays erased; a visit belongs to its browser | `AnalyticsStore`, `AnalyticsRequests`, `Analytics` |
| **Processes** `server.ts`, `worker.ts`, `app.ts` | Redis clients, workers, queues, metrics server, probes | start, close-with-grace, scrape | clean-up closes what others use; tasks fail | nothing the clean-up waits for is cut unless by force; handlers of departed clients are | `RedisConnection`, `ProcessLife`, `WorkerProcess`, `ApiProcess`, `Processes` |
| **Observability** | counters, gauges, logs, Sentry | | read by no decision, but for the queues' registry and the outage episodes, which `ProcessLife` and `RedisConnection` have | | partly |
| **Legacy pub/sub** `infra/outbox/events/outbox-signal.ts` | a subscription | none: nothing calls it any more | | | not modelled |
| **SMTP sender, templates, HTTP plugins, error mapping** | | I/O, formatting, stateless mapping | | | not modelled |

How they interact: a use case commits its business rows and an outbox row in one
transaction; its controller then puts a copy of the row into the
`outbox-dispatch` queue and answers. A dispatch worker (or a sweep, when that
was lost) claims the row and adds a job to the mail queue under the row's
`publicId`. The mail worker sends the batch and deletes the row, or gives up and
puts it back to PENDING. Maintenance deletes expired and old rows under a lock;
an operator revives FAILED ones. The lookup of churches runs as the shared fetch
of the cache: the cache knows its answer only as one of five kinds, and the
lookup knows the cache only as its deadline. PROJECT.json lists every hazard at
its line, with the properties about it.

## 2. Modules

| Module | Models |
|---|---|
| `OutboxStore` | the table and the mail queue, and each operation of `PrismaOutboxRepository` on them |
| `OutboxDispatch` | commit and signal, the sweeps with their locks, `processSingleEvent` |
| `MailDelivery` | the job processor with its key, the `failed` handler, BullMQ's attempts, stalls and retention |
| `OutboxUpkeep` | the maintenance sweeps and triage |
| `Outbox` | the composition of the above, the passing of time, fairness, the properties |
| `OutboxContract` | what the pipeline promises whoever registers an event: the abstract specification `Outbox` implements |
| `RowLists`, `OutboxTable`, `InMemoryOutbox` | the repository statement by statement, with instants, order and batch limits: `OutboxTable` gives the outcomes the database may have, `InMemoryOutbox` the one the double of the unit tests has |
| `DispatchPlans` | what the registrations write into a payload and what the dispatch strategies read out of it |
| `ResilientCache` | `getOrFetch` on several pods over one Redis: reads, shared fetches, the two kinds of deadline, negative caching, late writes, the bulkhead and the half-open breaker |
| `UpstreamProviders` | what each provider's client makes of a reply |
| `ProviderBreaker`, `OutageReporter` | one circuit per provider; the one outage episode of the limiter: state that all requests share |
| `Lookup` | a request from CEP to churches: four legs, three of them chains of providers, under one deadline |
| `ChurchRegistry`, `InMemoryChurches` | the registry as functions of the tables its statements see; its test double |
| `UsersStore`, `UserRequests`, `PasswordReset`, `Accounts` | the user table, a step per statement of each handler, the links and forms, and their composition |
| `AnalyticsStore`, `AnalyticsRequests`, `Analytics` | the three tables, a step per statement of each route with the cookies, and their composition |
| `DistributedLock`, `Maintenance` | the lock in Redis; the jobs that run under it |
| `RedisConnection`, `ProcessLife`, `WorkerProcess`, `ApiProcess`, `Processes` | the connection and its outage; what both processes share; either process; the choice of one |
| `MCOutbox`, `MCResilientCache`, `MCLookup`, `MCAccounts`, `MCAnalytics`, `MCMaintenance`, `MCProcesses` | instances and symmetry for TLC; the pure modules' properties as ASSUMEs over bounded inputs |
| `OutboxProofs`, `OutboxRefinementProofs`, `ResilientCacheProofs`, `LookupProofs` (with the registry's), `AccountsProofs`, `AnalyticsProofs`, `MaintenanceProofs`, `ProcessesProofs` | theorems |

The pipeline, the accounts, the analytics, the lookup with its cache, the
maintenance jobs and the processes share no state with one another that a
property of either depends on, so nothing composes them further. Where one meets
another, the meeting point is a choice: `Maintenance` knows a row due as a unit of
work (what becomes of it is `OutboxUpkeep`'s business), `Processes` knows a job
only as in hand, and the cache knows its fetcher by the kind of its answer.

### State and code

* **Outbox.** `row[e]` is the event's row. `overdue` says that `sendingAt` is
  older than `STUCK_SENDING_MS` and `claimNo` stands for `sendingAt` itself: the
  recovery's condition `sendingAt <= stuckBefore`, with a threshold fixed before
  the read, holds exactly when nobody claimed the row since. `fate[e]` is a
  history variable: what removed the row. `job[e]` is the mail job of that id;
  `signal[e]` the snapshot in the `outbox-dispatch` queue; `task[d][e]` what
  dispatcher `d` holds in memory, with the snapshot it read. Everything
  `processSingleEvent` decides, it decides from that snapshot, in the model as in
  the code. `run[r]` is one execution of the mail processor; its steps lie between
  the awaits of `mail-worker.ts`. `key[e]` is the idempotency key, `sent` what the
  SMTP server accepted, `reverting` the `failed` handlers under way.
  Every call that reaches Postgres, Redis or BullMQ either works or uses up one
  of `MaxFaults` faults. A failed database call changes nothing; a failed `add`
  and a failed `SET` may have taken effect all the same. Crashes and stalls of
  processes, keys that run out under a live run and jobs evicted while their event
  is still open are faults too. Sweep locks run out for free.
* **Cache.** A caller asks once, so the fetch it may start goes by its name.
  `caller[c]` is one call of `getOrFetch`, from the check of its budget through
  `readHit` ("reading"), the re-check of `startFetch` ("missed") and `raceCaller`
  ("waiting") to its answer. `flight[f]` is one shared fetch: "queued" in the
  policies behind a half-open probe, "running" the fetcher, "writing" its
  envelope, "settled" until the `finally` takes it out of `pendingFetches`
  ("gone"). What happens between two awaits is one action: `startFetch` reads and
  writes the table in one step, as the code insists. `late` are SET commands that
  have been sent; they outlive their fetch and land in any order, or never.
* **Lookup.** `look[l]` is where request `l` stands: the leg, the place in the
  leg's chain, how many providers denied and, for the property's sake, which.
  `call[l]` is the attempt sequence at the provider in question: waiting for
  admission, for another request's half-open test, in flight, in a backoff that
  cannot be cancelled. `budget[l]` is what is left of the `Deadline`: "ample",
  "scarce" (under the 50 ms that an attempt needs) or "spent". When the signal
  fires, `settleFirst` answers the caller; a sequence asleep or waiting is left
  behind unheard, and goes on. A circuit is closed, open, "due" (open for
  `halfOpenAfter`) or "half"; a call carries the era it was let through in.
* **Accounts.** `row`, `audit`, `forms` are tables; `req[r]` is what a handler
  holds between two statements; `mailed` and `notified` the events committed.
  A use case under `TransactionalUseCaseDecorator` reads in a step of its own and
  writes everything in one, since Postgres keeps the written row until the commit
  and READ COMMITTED gives the earlier read no protection.
* **Analytics.** `visitors`, `sessions`, `events` are tables; `jar[b]` the cookies
  of a browser, `hand[r]` a request with the cookies it was sent with. A response
  is delivered, in any order, or lost.
* **Maintenance.** `waiting` holds the jobs queued, `pod[p]` the job, phase and
  table a pod is at; `todo[t]` counts the rows due. `lapsed` and `stranded` are
  history variables of the lock: whose ran out under it, and which keys nobody
  will release.
* **Processes.** `boot` is how far the start got, `task` the clean-up task that
  runs, `spoilt` those that failed; `worker`, `queue`, `job`, `inFlight`, `departed`
  (handlers whose client hung up), `trailing` (an enqueue that outlives its answer),
  `probe`, `limiter` what they meet; `behind` the queues that scrapes answered without
  still count; `exit` is "own" after the clean-up and "forced" in its middle.

### Abstractions

In the pipeline, payloads, formats, timestamps, the order of rows and the fetch
limit of 50 are left out (the order, the instants and the limit are in
`OutboxTable`). Rows are old enough for a purge whenever the purge likes. SMTP
answers are a choice per recipient; "accepted, but reported as an error" is left
out. `SET NX` and the `GET` after it are one step. The expiry sweep and the
14-day purge are one step each, because what they select cannot stop being true
before they delete it; the purge of FAILED rows is two. `enqueueOutboxDispatch`
of an event's creation is over before triage touches the event. `retryAll` is a
sequence of retries of one event. `Unbuildable` names the events whose payload no
strategy accepts; which payloads those are is `DispatchPlans`'s.

In the cache, values, TTLs and keys' hashing are left out: an answer is one of
"ok", "notfound", "permanent", "retryable" and "aborted". Whether a counted
failure trips a closed circuit is the sampling window's business, so a choice;
so is whether `halfOpenAfterMs` has passed. An upstream call that nobody listens
to any more is not followed. Expired callers are not told apart by the reason
(budget or departed client). A fetch's budget is "ample", "scarce" (less than the
50 ms of an attempt are left) or "spent": a fetcher answers ABORTED only once the
fetch's deadline, the only one it is given, is scarce (`deadline-retry.ts:122,188`),
which is what the lookup's `AbortedMeansShortBudget` says of the fetchers there are.
So the callers of a shared fetch may be told ABORTED although neither their own
deadline nor the fetch's has passed. A thrown error is mapped by `mapFetchThrow` to
the same answers.

In the lookup, whether a bucket has a point left is a choice, since other
processes share it; so is what a provider replies. Of the geocoders and routers
one stands for two, which `OneStandsForBoth` checks of their clients' functions.
In the registry, coordinates are compared through two distance functions, the
exact one and the index's, and names through `lowerTrim`; each statement is given
the table it sees, so other requests' writes in between are any tables at all.

In the accounts, the address stands for the columns a user is found by and may
not share (email, username, cpf); passwords and profile fields are left out, and
so are the reads that change nothing. In analytics, attribution fields and the
dashboard's reads are left out. In the processes the several Redis clients are
one (a client that is opened after the clean-up closed them takes its place), and
the counters and logs are left out. Fastify's close waits for open connections, so a
request is `inFlight` while its client is there and `departed` once the client hung
up: its handler then goes on, and the clean-up does not wait for it. A walk over the
queues that a scrape gave up on is not told apart from another that awaits the same
counts, and may turn to a queue it has been to.

Code that is not in the repository is modelled from its use here and marked as
external in PROJECT.json: BullMQ's jobs, locks and stalled check, cockatiel's
circuit and bulkhead, Redis's commands and lifetimes, the browser's network.

## 3. Runs

Bounds are constants of the configurations; everything else is finite by itself.
`CHECK_DEADLOCK` is off because each of these systems may rightly stop: a drained
pipeline, an answered lookup, a process that exited.

| Run | Instance | Shows |
|---|---|---|
| `mail` | 1 event, 2 recipients, 1 dispatcher, 2 overlapping executions, 3 attempts (`JOB_ATTEMPTS` as deployed), 2 faults | types; `AtLeastOnce`; `NobodyForgotten`: narrowing a batch never leaves out an unserved recipient; `DuplicatesNeedFaults`: one failure for every message beyond the first while the row lives or when it expired, up to a job's attempts for one after a delivery or a purge; `SoleSender`: two executions inside one batch cost two failures |
| `dispatch` | 1 event, 2 dispatchers, 2 attempts, 2 faults, no triage | `DispatchBudget`, `ClaimIsExclusive`, and the pipeline implements `OutboxContract` |
| `progress` | fairness, 1 fault, 1 triage retry | `EventSettles`: every event on its way is delivered, dropped as expired, purged, or given up as FAILED |
| `accounts` | an administrator and an account to come, 2 addresses, 2 tokens, 2 requests at a time | types; no two accounts of one address; tokens and mails, forms and notifications commit together; a spent token is refused to later resets; a live link ends only by somebody with a claim to it |
| `analytics` | 2 visitors, 3 sessions, 2 people sharing a browser and another browser, 2 requests at a time and 4 in all | types; what was revoked stays erased, a rotated session stays out of use, visits belong to somebody who uses their browser, and are not counted twice |
| `cache` | fairness, 2 callers, 2 keys, 1 pod, 1 slot | types; `SingleFlight`, `LeavingHurtsNobody`, `OnlyFactsAreStored`, `PaidWorkIsKept`, `SlotsAreBounded`, `EveryoneIsAnswered`, `PendingDrains` |
| `lookup` | fairness, 2 lookups, a chain of two address providers (the first with a retry), a geocoder, a router, 1 trip, 3 consumes that Redis fails | types; long negatives are unanimous, ABORTED is one's own budget, every bypass is told once, leftovers ask nobody, every lookup is answered |
| `maintenance` | fairness, 2 pods, 2 schedules, one broken table each, batches of 1, 2 batches a run, 3 rows, 1 fault | types; two pods never share a sweep, keys are freed, the backlog of every sound table drains |
| `processes` | either process, 3 queues, 2 requests | types; a clean-up that ends by itself cuts no job of a worker it closed and no request whose client still waits; these find their queues and clients open until their end; neither a scrape nor the walk it left behind turns to a closed queue |
| `redispatch`, `placeless_form`, `erasure_misses` | 1 event; 1 event; 1 browser | the three disagreements below |

*Why these bounds.* Two faults are what it takes to break both defences of a
batch (BullMQ's lock and the key), three attempts what it takes for a recipient
to get more than one message for one failure, two dispatchers to race; the
budget of the dispatch run is exceeded by exactly the dispatchers that read before
the last attempt. Events meet only in the batch of a sweep and of a purge, which
the refinement proof covers for any number. In the cache two callers are enough
for one to start a fetch and one to join it, or to arrive between settling and
deregistration, and two keys for a bulkhead of one slot to refuse; more pods and
slots are the theorems' business, since every fetch, table and policy belongs to
one pod and only Redis is shared. Two requests are what a race of accounts,
visits or half-open tests needs; the third session lets a browser rotate twice. In
the lookup one chain of two has everything the decision at a chain's end can mix,
three failed consumes a first report, a suppressed one and one after a recovery.
In maintenance a run of two batches of one row leaves a third row to another run.

*Functions checked on every bounded input*, by ASSUMEs of two MC modules that
TLC evaluates at the start of their runs: in `MCOutbox` that a plan is refused
exactly for a decision form without a location (`PlansOfForms`), that resets
always build (`PlansOfResets`), that no JSON builds a plan without an address
(`PlansNeedAnAddress`), that on every table of at most two rows the in-memory
repository of the unit tests does what the Prisma one may do
(`DoubleListsAsTheTable`, `DoubleWritesAsTheTable`); in `MCLookup` that the
providers left out answer as those in the run (`OneStandsForBoth`), that no
overlap of creations leaves twins and a conflict is never made up
(`RegistryKeepsApart`), that a search with enough candidates is exact
(`RegistrySearch`), and that the registry's double answers as the database
(`DoubleAnswersAsTheRegistry`). What keeps churches apart and what makes the search
of a small registry exact is proved for every table as well.

**Fairness.**

* Outbox: a call in hand goes on, a worker takes the jobs of its queue, BullMQ's
  stalled check and Redis's TTLs run by themselves: weak fairness. The sweeps are
  repeated by the scheduler every 5 minutes and every midnight, so one that is
  possible again and again runs: strong fairness. Nothing obliges the API to send
  its signal, an event to expire, a purge or an operator to come. With events
  whose mails cannot be built `EventSettles` holds too: they end FAILED.
* Cache: only timers and microtasks are fair; neither the upstream nor Redis ever
  has to answer, and a caller without a budget (`Deadline.none()`) never gives up.
  `EveryoneIsAnswered` then rests on `REDIS_OP_BUDGET_MS` for reads and writes, on
  `FETCH_TIMEOUT` for the fetch, and on the end of a probe for its waiters.
* Lookup: timers, and the ends that a `commandTimeout` and a `statement_timeout`
  give a command and a query. No provider ever has to answer, no breaker to close.
* Maintenance: ticks come for ever (BullMQ's scheduler), a worker goes on with its
  job, a stranded key runs out: weak fairness. The queue is a list, so a job that
  can be taken again and again is taken: strong fairness. Nothing obliges a row to
  become due; crashes and errors are as many as the bound.

**Disagreements that a run shows.**

1. `redispatch`: after a final failure the row goes back to PENDING "so that the
   next cycle re-dispatches it", but the failed job keeps the id for 7 days and
   BullMQ ignores the add. Only a stall, a count limit or the age frees it.
2. `placeless_form`: a decision form may leave out its location; the registration
   then writes `null` into the payload, and the strategy wants a string or
   nothing. No such form ever gets its mails.
3. `erasure_misses`: the authenticated erasure "reaches every browser the account
   was ever linked to", but asks the visitor's latest account: after a second
   login on the browser, the first person's sessions stay, and stay theirs.

**Others, met while reading, that no run shows.**

* Outbox. Triage re-reads the row after reviving it; if a sweep claimed it first,
  the signal says SENDING, and such a snapshot without `stuckBefore` claims any
  SENDING row: a live claim is taken over (hence `MaxRetries = 0` where claims are
  exclusive). FAILED is documented as terminal, but `updateStatus` does not look at
  what it overwrites, and a late revert revives the row. A form whose sender is
  the notified address makes two mails of one `to`, which the selective retry
  cannot tell apart. `deleteOlderThan`'s count by status is of the batch read, not
  of the rows deleted. `InMemoryOutboxRepository` hands out its live rows where
  Prisma hands out copies, against its comment of "a mesma semântica".
* Cache. The comment on the breaker (`resilient-cache.ts:152-155`) says an ABORTED
  outcome does not count; it does, since `isRetryable` is true of it.
* Lookup. One point of the limiter admits up to `maxRetries` HTTP calls ("one
  request per second", `provider-admission.ts:11-14`), and a request with less than
  50 ms left spends a point before the attempt is refused
  (`deadline-retry.ts:20-24`). A lookup's own three geocoding strategies can use
  up a one-point bucket. A half-open test whose budget is spent ends without
  having reached the provider and closes the circuit. The last provider of a chain
  refused a point with a spent budget answers RETRYABLE, not ABORTED; a KNN query
  that times out is a database error. `redis-rate-limiter.ts:36-48` says both
  fail-open and fail-closed (the code fails open). A router's empty body counts as
  "all unreachable", and the other router is not asked.
* Churches. `churches-prisma-error-mapping.ts:7` maps P2002 to a conflict, but the
  insert is raw SQL, whose violation is P2010: who loses the race gets a 500
  (`LostRacesAreFailures`). Migration 20260709185105 drops the index the KNN query
  needs. The in-memory registry has no unique checks, reuses ids and has another
  default limit.
* Accounts. PATCH `/users/:publicId` edits the administrator's own account. The
  audit's foreign key is NO ACTION and P2003 is not mapped: an account that ever
  logged in cannot be deleted, and the anonymised history that
  `docs/analytics-cookie-architecture.md:185` promises never comes about.
* Maintenance. `maintenance-worker.ts:221-225` says that a failed phase is retried
  with backoff; `withDistributedLock` lets no error through, so only later ticks
  make good what failed, as `BacklogDrains` has it. Purging a visitor after 395
  days cascades to sessions younger than their own 425, and the batch deletes by
  id a visitor who came back since it was selected.
* Processes. `crashShutdown` never exits by itself, so a failed start leaves the
  process running (`crash-shutdown.ts:4`). A SIGTERM during the scheduler's upserts
  closes the queue under them and reports a crash. Closing Redis logs an outage at
  every graceful shutdown; a TCP connect already counts as a recovery. An enqueue
  that outlives its answer may find Redis closed; its event waits for the sweep.
  `server.ts:14` says that `app.close` drains the requests in flight, but it waits for
  connections: the handler of a client who hung up (`deadline.plugin.ts:32-39` expects
  some) runs on while `onClose` closes Redis, may make the limiter anew or open a
  client nobody closes, and is cut by the exit without anything forced. Likewise a
  scrape's time-out (`metrics-server.ts:30-35`) does not end the walk it gave up on;
  that is harmless, since a queue leaves the registry before it is closed.

## 4. Proofs

Each theorem holds for every value of the constants: any number of events,
recipients, dispatchers, runs, attempts and faults; of callers, pods, keys and
slots; of requests, providers and chains; of accounts, addresses and tokens; of
browsers, their users, visitors and sessions; of pods, schedules and batches; of
queues and requests of a process. The assumptions are those of the modules' ASSUMEs
and the abstractions above.

**The pipeline** (`OutboxProofs`, `OutboxRefinementProofs`).

* `TypeCorrect`; `OneOwner`: at most one execution holds BullMQ's lock on a job,
  and then the job is active; `NobodyIsForgotten`; `DeliveredAtLeastOnce`.
  `AtLeastOnce` alone is not inductive: whether a deletion as "delivered" is right
  depends on what the run had in its batch, which depends on the job's data, which
  depends on the snapshot it was dispatched from, which depends on the row some
  time ago. The inductive invariant `AtLeastOnceInv` therefore follows the
  recipients who are still owed the message through every copy (`NobodyForgotten`:
  row, signal, task, job, run, key), with `RealSnapshots` (snapshots are of rows
  that were there) and `OneOwnerPerJob` (only the owner may narrow a job). A step
  is split in what it does to the table (`SafeStore`), to the copies dispatchers
  and signals carry (`Carried`), and to jobs, runs and keys, one lemma per action
  module.
* `SendersAreSole`: `SoleSender`. `DefenceInv` says what each line of defence
  costs: a run that lost BullMQ's lock one failure, a batch that lost its key
  another. A second execution enters a batch only without a key (`AcquireKey`), and
  there is a second execution only where a lock was lost (`OneOwnerPerJob`). The
  key deleted without asking whose it is needs no failure of its own, but by the
  invariant it can only be the key of a batch that shares its event with another.
* `DuplicatesArePaid`: `DuplicatesNeedFaults`. That a message beyond the first
  costs a failure needs an account of what is still to come, and `PaidInv` keeps
  two of them for every recipient. While the row remembers who was served, the
  messages sent, the one the next batch may bring (`Chance`) and the runs that
  work on the recipient without owning the job (`Loose`) never exceed one plus
  the failures. In any case the messages sent, the attempts the job has left
  (`Tries`) and such runs never exceed as many times a job's attempts.
  Lemma `Costs` says what each action takes out of either account, and that what
  it takes too much a failure pays. One message for one failure is false of the
  code once the row is gone: a run stalls and ends all the same, deletes the row
  as delivered, and its key runs out; the job BullMQ requeued then finds no row to
  persist a selective retry in, keeps the whole batch, and each attempt it has
  left may serve everybody again (the best effort of `mail-worker.ts:219-224`).
* `PipelineKeepsContract`: every step is a step of `OutboxContract` or a stutter.
  `AtLeastOnceInv` gives every deletion its reason, so that it closes the events
  whose rows it found; `AllBorn` says that nothing is carried for an event that was
  never registered, so a batch the server accepts serves a registered one.
* `ClaimsAreExclusive`, `DispatchesAreBounded`, both for behaviours in which no
  operator revives failed rows (`MaxRetries = 0`; with triage they are false, see
  above). `ClaimInv` says how old a snapshot in hand may be: a sweep's shows a
  claim the row still has, overdue, or an older one; a signal's is that of the
  event's creation. `WithinBudget` counts the dispatchers that still hold a snapshot
  from before the last attempt (`Early`), the waiting signal among them: a claim
  uses one up, and only a failure brings one back. The count needs a finite number
  of dispatchers and the cardinality facts of `FiniteSetTheorems`.

**The cache** (`ResilientCacheProofs`): `TypeCorrect`, `SingleFlightHolds`,
`LeavingIsHarmless`, `FactsOnly`, `WorkIsKept` and `BulkheadHolds`. `SingleFlight`
is not inductive: two fetches of one key are kept apart by the table, so the
invariant says that every fetch is listed under its key from its start to its
deregistration (`Registered`), and what a caller (`CallerFits`) and a fetch
(`FlightFits`) may look like in each phase. Two lemmas carry the steps:
`CallerMoves`, of a step that changes one caller, and `FlightMoves`, of a step that
changes one fetch and tells some of its waiters. The count of the bulkhead is a
second invariant on top of the first (`SlotInv`): a fetch begins to execute only
through the policies, which looked at the count in the same step (`Admission`).

**The lookup** (`LookupProofs`): `WalksAreTyped`, `NegativesAreUnanimous`,
`AbortsAreOwn`, `BypassesAreTold`, `LeftoversAskNobody`. The code counts denials
and compares the count with the chain's length; the property speaks of who denied.
`LookInv` ties the two: the tally accounts for every provider passed, if all of
them denied, and a chain's tally starts anew with each leg and strategy. The other
half of it is that a sequence nobody awaits any more has no budget, so it finds its
deadline spent before it may call.

**The accounts** (`AccountsProofs`): `AccountsAreTyped`, `IdentitiesStayDistinct`,
`CommitsAreWhole`, `LinksAreOfUseOnce`, `LiveLinksLast`. The checks before a write
play no part in the first of these; the unique index does it all. For the last two
the invariant says what a reset in hand knows of the row it will write (`Linked`):
the token it presented is in that row or in none, and any other token there is
newer than the request.

**The analytics** (`AnalyticsProofs`): `AnalyticsTyped`, `RevocationIsFinal`,
`RotationIsFinal`, `VisitsStayAtHome`, `CountsAreEarned`. `IdentityInv` follows
every id from the browser it was minted for (`home`): cookies, requests in hand
and rows never take it to another one, and an id that was given up is in none of
them (`RetiredAreGone`), which is what keeps a late `upsert` from bringing back
what a revocation erased. A request that met no other is alone with the id it
gives up (`AloneMeansAlone`). `CountInv` adds the count: the visits of a visitor
and the starts in hand still to be counted are never more than the sessions run.

**The processes** (`ProcessesProofs`): `ProcessesAreTyped`, `OnlyForceCuts`,
`ToolsOutlastWork`. `TearDownInv` says, for either role, what each task of the
clean-up leaves behind once it is over: closed workers idle, a queue open until
its task, Redis until the last one. `CutOnlyByForce` speaks of the exit only,
where the order of the tasks is no longer to be seen. Of the API's requests both
theorems speak only while the client waits; nothing is promised to the handlers of
those who left, which the model has (`departed`) and the clean-up overtakes. That no
walk, in a scrape or left behind by one, turns to a closed queue follows from
`RegisteredAreOpen`.

**The maintenance** (`MaintenanceProofs`): `SweepsAreTyped`, `SweepsAreSole`,
`LocksComeFree`. The last two are inductive only together, with what a stranded key
is: one whose holder no longer works under it (`LocksInv`), so that its running out
takes nothing from anybody.

**The registry** (`LookupProofs`): `CreationKeepsApart`,
`LostRacesAreFailures`, `SmallRegistriesAreSearchedExactly`, for every sequence of
tables that the statements of one request may see.

**Only model-checked.** Every invariant and action property of the passing runs is
stated by a theorem. Liveness (`EventSettles`, `EveryoneIsAnswered`,
`PendingDrains`, `LookupsAreAnswered`, `BacklogDrains`) stays with TLC: it rests on
fairness and ENABLED, which are out of the prover's reach. What `OutboxTable`,
`DispatchPlans` and the doubles compute is checked by ASSUMEs on bounded inputs.

## 5. Not modelled, and what is left

* Not modelled: the legacy pub/sub (no caller left); the SMTP sender and the mail
  templates (I/O and formatting; `MailDelivery` takes the outcome per recipient as a
  choice); the HTTP plugins and error mapping (stateless). Observability only as
  far as a step depends on it. Scripts, build configuration and generated code are
  no part of the running system. The test doubles of users, forms and analytics
  are not compared with their repositories, unlike those of outbox and churches.
* The pipeline under triage: how often a claim can be stolen, in terms of the
  retries.
* `AtLeastOnce` with Postgres' instants in place of `overdue` and `claimNo`, by a
  refinement of `OutboxStore` by `OutboxTable`.
