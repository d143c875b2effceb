# SmartPlate: formal models

TLA+ models of the SmartPlate platform, the TLC configurations that check them
on small instances and TLAPS proofs of what matters most about them. The models
follow the code under `src/`; a path such as `market.service.ts:58` is relative
to `src/apps/main-service/src/` (and its module's directory) unless it says
otherwise. `PROJECT.json` gives, for every definition, the lines it models.

Contents: [the system](#the-system) · [modules](#modules) ·
[Marketplace](#marketplace) · [Leftovers](#leftovers) · [Kitchen](#kitchen) ·
[Delivery](#delivery) · [Requests](#requests) · [proofs](#what-is-proved) ·
[findings](#findings) · [limits](#what-is-not-modelled) · [running](#running)

## The system

A restaurant records what it cooks and what is left at night, splits leftovers
into reuse, sale, donation and waste, and puts sale and donation on a market
where other restaurants buy and NGOs collect. Unsold food becomes a donation.

Four processes (browser, main-service, Telegram bot-service, Python
agent-service) and three stores (Postgres, Redis, object storage):

    browser --HTTP--> main-service --HTTP--> agent-service (estimates, planning)
    bot-service --HTTP + SSE--> main-service
    main-service --> Postgres   (tables with row-level security, pool of 10)
    main-service --> Redis      (sessions, idempotency, caps, pub/sub, BullMQ)
    worker.ts    <-- BullMQ     (queues: escalation, reports, ping)

| Component | State | Operations | What is hard | What makes it correct |
|---|---|---|---|---|
| Surplus listings and escalation (`listings/`, `worker.ts`) | `surplus_listings`, append-only `listing_events`, delayed jobs | create (by the close), price, pickup window, cancel, complete, no-show, escalate, sweep | handlers and worker race on one row; publish and enqueue happen after the commit; lost jobs | claimant iff claimed or collected; closed is final; the log accounts for the row; due food is escalated |
| Market (`market/`) | the same rows | claim, release | check and update are two transactions | one winner; eligible takers only |
| Leftovers and close (`leftovers/`) | `leftovers`, `leftover_dispositions`, `listing_items` | record, suggest, commit a batch | two closes of the same food; partial batches | split once, together; on the market is what was split, and no more than there is |
| Prep and reuse (`production/`) | `prep_entries`, `reuse_confirmations`, lots | createPrepEntry, patchPrepEntry, recordReuseConfirmation | nested transactions commit on their own; blind status write | all or nothing; no more reused than kept |
| Inventory (`inventory/`, `shared/fefo.ts`) | `inventory_lots`, `inventory_movements` | purchase, adjustment, FEFO draw | row locks, deadlock, rounding | movements add up to balances; never negative; FEFO |
| Transactions (`db/tx.ts`, `db/client.ts`) | open connections and locks | withTenant | a transaction inside a transaction takes a second connection | every request ends while there are connections |
| Events (`events/`, `notifications/`) | dedup keys (24 h), hourly counters (5), preferences, pub/sub, SSE streams | publish, subscribe | crash between `incr` and `expire`; a token taken for what the cap then drops; nobody listening | at most one per key, five per hour; no tenant muted for good |
| Idempotency (`shared/idempotency.ts`) | responses by tenant, key and body | replay or execute and remember | concurrent retries; crash before the record | a call sent again is executed once |
| Sessions (`auth/`) | refresh tokens, families, per-user index, reset tokens | issue, rotate, revoke, reset password | rotation racing rotation, or revocation | a revoked family has no token that can be rotated |
| Roles (`shared/rbac.ts`, `*.route.ts`) | matrix, overrides | guard of every endpoint | menus, pages, intents and guards have tables of their own | what is offered is served |
| Rate limit (`shared/rate-limit.ts`) | counters | count | as the cap | at most N per window |
| Users, audit, NGO verification (`users/`, `tenants/`, `admin/`) | users, roles, audit records, verification status | edit, archive, submit, decide | audit after the change; a decision about an older submission | every change audited |
| Reports (`reports/`, `worker.ts`) | `reports` rows, artifacts, queue | request, render, announce, sweep | row before job; failure in the middle | a report ends as ready or failed; its file is whole and comes once |
| Analytics, insights (`analytics/`, `insights/`) | none | dashboard, series, dishes, reports' tables | the same food in five queries and three grains; buckets without rows | dashboard and rows add up |
| Catalog (`catalog/`) | dishes, ingredients, suppliers, recipes | edit | | |
| Bot binding (`bot/`, `main-client.ts`) | bindings, tenants' and chats' sessions | bind, start session, unbind | a cached session outlives the binding | an unbound chat acts no more |
| Bot (`src/apps/bot-service`) | dialogue per chat, SSE connection per tenant | plan, dispatch, confirm, bridge events | old buttons, persona switches; reconnection, two restarts | what needs a confirmation is asked for; one connection per tenant, always again |
| Agent (`src/apps/agent-service`) | none (per request) | plan, deterministic estimate | a model's answers; fallbacks | answers within bounds |
| Frontend (`src/apps/frontend`) | query cache, event stream | watch, act, invalidate, poll | answers, events and invalidations cross | an open page does not keep what it knows is old |

`PROJECT.json` lists every component with its status and, under `hazards`, the
places in the code where something can go wrong that a test would hardly reach.

## Modules

Ordered by weight: food that is offered, taken and given away comes first, then
the food in the kitchen, then what carries the messages, the sessions and the
answers to people.

| Modules | What | Abstract specification or reference | Proofs |
|---|---|---|---|
| `Marketplace`, `MCMarketplace` | listings, claims, escalation | `ListingLifecycle` | `MarketplaceProofs` |
| `Leftovers`, `MCLeftovers` | the nightly close, reuse | `SplitOnce` | `LeftoversProofs` |
| `Suggestion`, `Analytics` | what is suggested for a leftover, what is reported of it | the close accepts it; the figures add up | `LeftoversProofs` |
| `Kitchen`, `MCKitchen` | purchases, corrections, preps | `Pantry` | `KitchenProofs` |
| `Channel`, `Events`, `Bridge`, `Reports`, `Delivery`, `MCDelivery` | pub/sub, notifications, the bot's streams, reports | | `DeliveryProofs` |
| `Access`, `Pages`, `Console` | guards of the endpoints, pages of the web console, its cache | | `RequestsProofs` |
| `BotIntents`, `Dialogue` | intents and handlers of the bot, a chat | | `RequestsProofs` |
| `Sessions` | refresh tokens | | `SessionsProofs` |
| `Retries` | idempotency keys | | `RetriesProofs` |
| `MCRequests` | the four above, checked side by side | | |
| `FoldTheorems` | no part of the system: what sums over sets and folds over sequences return; maps have cycles | | used by `MarketplaceProofs`, `LeftoversProofs`, `KitchenProofs`, `DeliveryProofs` |

Composition. `Leftovers` and `Marketplace` meet in `commitDispositions`: the
former models it up to the `listing_items` it writes, the latter starts from the
listings it inserts (`OfferSurplus`), which `Leftovers` shows to be offered once
and only while safe. `Suggestion` and `Analytics` read the state of `Leftovers`,
so that their functions are checked at every state a close can leave. `Delivery`
composes `Events`, `Bridge` and `Reports` over `Channel`: what a request or a
worker publishes is read by the loop that is connected at that moment.
`Console` is built on `Pages`, which is built on `Access`; `Dialogue` on
`BotIntents`, which is built on `Access` too, so that one table of the endpoints
says what both clients are refused. `Kitchen` shares nothing with the others but
the conventions of the handlers.

Next: the row of a bot's link and the tokens cached for it; the status of an
NGO's verification; users and their audit records; the state of a password
reset's own token; the sweep of old reports.

Conventions of all modules: a database transaction is a step, since nothing of
it is seen before it commits; where READ COMMITTED lets others commit between a
transaction's reads and its writes, the two are separate steps. A handler of
several transactions, or with a publish or an enqueue after its commit, keeps
its progress in `request` and anything may happen in between, including its
loss. A request the code answers with an error before it wrote anything changes
nothing and is not a step. Definitions marked "Faulty variant" or "Mutant" are
not used by any specification: they are plausible bugs that each property is
tested against.

## Marketplace

`row` is the table `surplus_listings`, `log` counts the rows of `listing_events`
for each listing, event and actor, `jobs` the delayed one-shot jobs in BullMQ,
`worker` the one escalation worker, `told` the listings whose fan-out ran,
`request[u]` the unfinished request of user u.

| Action | Code |
|---|---|
| `OfferSurplus`, then `ScheduleEscalation`, `AnnounceDonation` | commitDispositions: insert listings; enqueue the sale's job; publish the donation |
| `CheckClaim`, `CommitClaim` | market.service claim: selectListingForClaim, then claimListing, each its own transaction |
| `CheckRelease`, `CommitRelease` | release |
| `PatchPrice`, `PatchPickup` | patchListing with a price, and with both |
| `SingleStep` | pickup window, cancel, complete, no-show |
| `StartJob`, `StartSweep` | the escalation queue's processor: one-shot job, sweep with its batch limit |
| `EscalateNext`, `AnnounceEscalation`, `FinishTask` | escalateListing per listing: conditional update, then publish |
| `FailTask` | a throw: attempts is 1, the rest of the sweep's batch is dropped |
| `CrashWorker` | the process dies: BullMQ redelivers the stalled one-shot job |
| `LoseRequest` | the API dies between two steps |

Each UPDATE has its conditions in its guard and its `listing_events` row in
`Record`, because the code writes both in one transaction. `log` has no order: a
row of `listing_events` has a random id and an `occurred_at` that the handler takes
before its transaction (`market.service.ts:57`, `listings.service.ts:50`), and the
timeline sorts by it (`listings.queries.ts:53`). A release that was overtaken by a
no-show and another claim may thus stand before them on the page. No property says
otherwise; what is said is said of counts.

Runs:

- `market_safety`: one listing, two restaurants and an NGO with a user each,
  free and priced, a window of one tick, clock and safety up to 2, four events
  before users stop (the escalation and requests under way may add more), one
  fault. A listing's columns depend on no other listing, so one contended
  listing suffices for them; four events are enough for offer, claim, return
  and another claim with an escalation anywhere. Shows `TypeOK`;
  `TakerIsEligible`; that `MarketInv`, the inductive invariant, holds, of which
  `ClaimantMatchesStatus` and `OpenB2bHasDeadline` are parts; `LogAccountsForRow`
  (each change of the row is recorded once, by whom it was: created, collected and
  cancelled as the status says, escalated once at most, every claim given back but
  the standing one, and nobody gave back more than they had claimed);
  `NoDirectHandover`, `ClosedRowsFrozen`, `ChannelMovesWhileOpen`;
  `ImplementsLifecycle`, the refinement of `ListingLifecycle`; and under fairness
  `DueIsResolved`: a due listing does not stay an open sale, also when its
  one-shot job was lost, or ran while the listing was claimed and it is given back.
- `market_told`, `market_safe`: findings 1 and 2.

Fairness (`FairSpec`): weak fairness of `StartSweep`, since `worker.ts`
registers the sweep as a repeating job (60 s) and the sweep is enabled only when
something is due; of each `EscalateNext`, of `AnnounceEscalation` and of
`FinishTask`, because a running processor goes on unless it fails; and of each
user's fan-out, which follows the commit in the same handler. No fairness for
`StartJob` (one-shot jobs may all be lost), for users or for faults. Weak
fairness of `StartSweep` is sound although a job may take the worker again and
again: jobs are finite, one per offered listing.

## Leftovers

`leftover` is the table, `decided` the disposition with its `decided_at`,
`listed` the quantities on `listing_items` by channel, `confirmed` the total of
`reuse_confirmations`. The unit of the
tables is a thousandth, as `numeric(12,3)` stores it; what users send is in
hundredths of that. The checks (`MaySplit`) look at what was sent
(`leftovers.service.ts:312`), the tables keep each part rounded by itself
(`Stored`, `leftovers.service.ts:427`), and the status follows what was sent
(`:440`), so that a leftover may wait for the reuse of a stored 0.

| Action | Code |
|---|---|
| `RecordLeftover` | recordLeftover |
| `ReadCommit`, `WriteCommit`, `CommitRejected` | commitDispositions: resolveAllocations; the inserts and updates; the unique index on `leftover_id` |
| `ReadReuse`, `InsertReuseConfirmation`, `SetReuseStatus` | recordReuseConfirmation: the queries it calls open, and commit, transactions of their own |
| `LoseRequest` | crash, failed query, or the abort of a deadlock between two closes |

`WriteCommit` is one step although it writes row by row: what it wrote is locked
or unseen until it commits, and a collision on any row undoes all.

Runs: `leftovers_close` (two leftovers, two people, splits off by the tolerance
and beyond it once their parts are rounded, and one that keeps too little for the
row to say so, food that is and is not safe at the close) shows
`StatusMatchesDecision`; `CloseInv`, of which `OfferedAsDecided` and
`SplitIsSound` are parts; and the refinement of `SplitOnce`. `SplitIsSound` is
what the code has: the stored parts make up the leftover within the tolerance and
half a unit for each part that is rounded. It is not what the seed's invariants
demand: `leftovers_split` is finding 7. Two people are enough: an obstacle to a
close is one other transaction that decided one of its leftovers. In
`leftovers_close` quantities are a few units, so that tolerance and rounding are
as large as parts; `leftovers_split` and `leftovers_reuse` (finding 3) have two
kilograms and the code's tolerances. No liveness is claimed: every step is a user's.

`Suggestion` is `suggestDisposition` as a function of a leftover's row and of what
the agent answers: every triple that its bounds let through (`ModelEstimates`),
its deterministic estimate for any history of reuse, or nothing, in which case
main-service splits by itself. Percentages are hundredths of a unit, so that
rounding is modelled by what it does. `SuggestionIsAccepted`, checked in
`leftovers_close` at every state with a pending leftover and proved for all
values: what is suggested adds up, passes the checks of the close (`MaySplit`,
the operator the close itself uses) and offers nothing that an NGO could not
collect in time.

`Analytics` is the dashboard, the series by day, week and month, the table of dishes
and the lines of a comprehensive report, as functions of the same state.
`DashboardAccountsForAll`, checked in the same run and proved for all values, says
that the dashboard has every leftover of its range as recovered, binned or open, and
names the dishes without a weight. `SeriesAddUp` says that the rows of the day and
month queries add up to the dashboard: a leftover on the edge of a range or a month
is in one row, and the table of dishes lacks the archived ones only. The run has a
range over a month's end and one that ends on the first day, a dish by the kilogram
and an archived one by the plate.

Neither says that what a chart shows adds up, and it does not. `ZeroFillBuckets`
is modelled as it is (`analytics.queries.ts:157`): a bucket without a row is a copy
of the first row, so that a chart shows surplus on a day that had none. A weekly
chart looks its weeks up by their Sunday (`:104`), while `date_trunc('week')` in
`date-grain.ts:18` names them by their Monday, so that no row is ever found.

## Kitchen

`lot` is `inventory_lots`, `ledger` the sum of `inventory_movements` per lot,
`entries` the prep entries, `owner` the row locks, `request` the handlers.
Quantities count half thousandths: `numeric(12,3)` stores thousandths
(`Stored`), and the half is where balance and movement round apart.

| Action | Code |
|---|---|
| `BeginPurchase`, `AddLot` | recordPurchase; the ingredient lookup is a transaction inside |
| `BeginAdjustment`, `FindLot`, `AdjustLot` | recordAdjustment; `findLotForUpdate` locks in a transaction that is over when `adjustLot` runs, which locks and reads again |
| `BeginPrep`, `FindRecipe`, `InsertPrepEntry` | createPrepEntry: recipe and entry by transactions of their own |
| `SelectLots`, `LockLot`, `StopShort`, `FinishItem`, `CommitPrep` | consumeLotsFefo per ingredient, and the commit |
| `AbortDeadlocked` | Postgres breaks a cycle of waiting |
| `LoseRequest` | crash, error, unit mismatch: rollback |

`FOR UPDATE` locks the selected rows one by one in the order of the query and
reads each as it is when the lock is granted; `LockLot` does just that. The code
adds up all locked lots before it draws from any; since a draw is private until
the commit, drawing while locking and failing at the end (`StopShort`) is the
same to everybody else. `Free` counts connections: a handler holds one, and a
nested transaction needs another one for the length of its step.

Runs: `kitchen_orders` (two ingredients, one of them in two lots whose age and
expiry disagree, two dishes that need both, a lot still to be bought, three
requests, pool of four, 119,588 states) shows `BalanceMatchesLedger`,
`KitchenInv` (what a request has read is what it overwrites, and lots are drawn
from in the order of their expiry), `PrepsFollowRecipe` (what a prep draws adds
up to its recipe), `FirstExpiredFirstOut`, the refinement of `Pantry`,
`SomebodyGoesOn` and, under fairness, `EveryRequestEnds`. All but the last are
proved, too. Two preps can deadlock, with a third request in between to disturb
what they read. `SomebodyGoesOn` is about every group of requests that cannot go
on: one of them waits for a request in flight outside of the group. A lock that
was left behind, and a circle that the detector does not see, would both break it.
`kitchen_saved` and `kitchen_rounding` are findings 4 and 5.

Fairness: weak fairness of `Proceed(r)`: a handler that has been started runs on
when it can, and Postgres's deadlock detector is on. Weak fairness is enough for
waiting on locks because each request is sent once, so a lock that is released is
taken from under a waiter finitely often. Requests need not be sent.

`EveryRequestEnds` has in its formula that there are fewer requests than
connections: with as many, every handler can hold a connection and wait for
another one for good. `db/client.ts:8` sets the pool to ten and nothing limits the
handlers in flight, so that ten of them can stop each other. `SomebodyGoesOn` puts
the condition on the state instead: it speaks of the moments when a connection is
free. Neither says anything of an exhausted pool, and none of the runs has one.

## Delivery

How main-service tells a tenant that something happened. `Channel` is the Redis
channel of a tenant: `open`, the tenants whose stream `GET /v1/events` is
subscribed, and `frames`, what was written to it and is not read. Nothing is kept
for a tenant whose stream is not open.

| Module | Action | Code |
|---|---|---|
| `Events` | `PublishPlain`, `ClaimDedupToken`, `NotFresh`, `IncrementCap`, `SetExpiry`, `Deliver` | publishEvent, one Redis command a step; SET NX of the token, INCR, EXPIRE, PUBLISH |
| | `LoseCall`, `TokenExpires`, `WindowEnds` | the process or its connection fails; the day, the hour end |
| `Bridge` | `StoreSession`, `RegisterTenant` | linkChat, and the bridge's registration of the tenant |
| | `StartBridge`, `ReadKnown` | the start of the bot |
| | `CheckSession`, `Refresh`, `ClearSession`, `Fetch`, `Renew`, `Subscribe`, `Backoff` | one pass of runTenantConnection, from one await to the next |
| | `StreamEnds`, `SessionAges`, `BotCrash` | a broken stream, an expired session, a restart |
| `Reports` | `InsertReport`, `ScheduleReportRender`, `RecordReportChat` | POST /v1/reports and what the bot does with its answer |
| | `TakeJob` to `CompleteJob`, `Announce`, `BuildThrows`, `WriteFails`, `WorkerCrash` | renderReport in the worker, its failures, and BullMQ's handing out of a stalled job once more |
| | `SendReport` | the bot sends the file to the chat that asked |
| `Delivery` | `AnnounceReady`, `SendCards`, `PushReport` | the worker's publish; the bridge's dispatch of a frame |

`DrawRow` in `Reports` breaks a table into pages with the points of the page that
`renderers/pdf.ts` uses; the run's report has 47 lines, which is more than one
page of the table and ends between two pages.

Run `delivery`: a restaurant and an NGO with four cases of what goes on (a busy
NGO without a bot, a calm one with it, both tenants linking, a chat that asks for
a report), since what one case does cannot reach into another but through the
channel. Two places in a window and three requests, so that one finds none left;
two slots for loops, so that a second loop would show; two faults of any kind, so
that a failure can hit what repairs another. Shows `CapHolds`, `OncePerKey`,
`WindowAlwaysEnds` (a counter is without a lifetime only if the request died
between `incr` and `expire`), `OneConnection`, `NobodyForgotten` (a registered
tenant with a session has a loop, or a link about to start one),
`DocumentIsWhole`, `StatusIsTrue` (a report that succeeded has its file; one that
is queued or running has somebody seeing to it, or was given up in one of the two
ways that nobody sweeps), and under fairness `BridgeComesBack` and
`ReportResolves`.

Fairness: weak fairness of each loop's steps, of the bot's start and of a
registration under way (`BridgeFairness`), because the bot's process runs on and
every wait of it is a timer; of a worker on its job and of the request between
row and job. Nothing for links, requests, ends of windows or faults. A loop's
failures are bounded by `MaxFaults`; `BridgeComesBack` says what happens once
they stop, and exempts a tenant whose session went.

## Requests

What people ask of main-service, in four parts that share no state: `MCRequests`
takes one of them in each behaviour (`part`), so that a run of it is the four
side by side and not their product.

**Console.** `Access` has one record for each endpoint: the permission its guard
asks for, the tables its handler reads and writes, the events it publishes.
`Pages` has for each page of the console the queries it watches, with their cache
keys, whether they are asked again by a timer and whether they are kept for a
while, and the actions it offers, with the keys that their success invalidates.
`Console` runs one query, one action and a second person: `scene` is a role, a
query of its menu and an action that writes what the query reads, all of them
taken from `Pages`. `cache` is the answer and what it lacks, `fetch` the request
under way, `own` how far the action is, `stream` and `told` the events.

| Action | Code |
|---|---|
| `SignIn`, `Logout`, `Open` | the login page, useLogout, the routes within the shell |
| `ServerReads`, `AnswerLands`, `FetchFails`, `TryAgain` | a query's request; one more try; the error's button |
| `Poll`, `GrowsOld`, `Forgotten` | refetchInterval, staleTime, gcTime |
| `Press`, `ServerApplies`, `Success`, `ActionFails` | a mutation, and its onSuccess with its invalidations |
| `SomebodyElse`, `EventArrives` | another person's change and its event; INVALIDATED_BY in use-events.ts |
| `StreamOpens`, `StreamFails`, `Reconnect` | the EventSource and its timer |

`PageShowsOwnChange`: once an action is answered, an open page does not go on
showing what was before. Excepted, since the code leaves them old, are a query
that was asked, or a page opened upon it, while the action was under way
(`crossed` is "during"); a first load, or a fetch the page was left with, that was
asked before the action and is still under way when that is answered ("before":
`invalidateQueries` does not ask again, it waits for the answer, which may have
been read before the change); and the two answers kept on purpose (`KnownStale`: a
suggestion for ten minutes, and the session). A page in one of the first two cases
is old until something else refreshes it. Half of it is a
matter of tables, which key an action invalidates and which key a query has, and
half a matter of order, which answer arrives when. The former is
`PagesAssumption`: a formula without parameters about the pages and endpoints,
which TLC computes for every role of the platform, also those the run does not
take; the latter is proved from it.
`PolledPageCatchesUp`: what somebody else did gets to a page with a timer
whatever became of the events. It is what the pages of the market live on: the
scope that the events invalidate is one key of three parts that no query has
(`use-events.ts:27`), which `InvalidatedBy` models as it is.
`OfferedIsServed`: what a page or the bot's menu offers a role is served, but for
the endpoints listed in `WebGaps` and `ChatGaps`; those are disagreements of the
tables that the code has today (a staff member is shown the close, a volunteer
the market, and the settings page uses PATCH where the routes are PUT and POST).

**Dialogue.** `BotIntents` is the table of the intents and, for each handler, its
calls and the buttons under its reply. `Dialogue` is one chat: `session` its
persona, `messages` the buttons still in reach, `plan` the steps left, `keyed`
what the plan's key was used for, `last` the handler that ran last and what made
it run, `orchestrated` the switch ORCHESTRATOR_ENABLED.

| Action | Code |
|---|---|
| `LinkChat`, `StartLogout`, `CallCancel`, `Command` | the commands |
| `Dispatch` | dispatcher.ts: without the orchestrator, the intent of a text runs at once |
| `PlanDispatch` | the agent's plan: what a model makes up, read step by step, checked against the bounds, or one of two fallbacks |
| `ExecuteStep` | executeStep: resolve, ask for what is missing, ask to confirm, or run |
| `CallCallback`, `TokenExpired` | a button, at any time and as often as one likes |

`NothingUnconfirmed`: an intent that `contracts/intents.ts` says requires a
confirmation (`ConfirmRequired`, the table DESTRUCTIVE_CONFIRM_REQUIRED) takes
effect only by the button of a card that asks. The exceptions are in the formula
(`NotAskedFor`), because the code does not ask there: the split of leftovers and
its suggestion, which the table lists but which are not flagged destructive, run
from their buttons (`callback.ts:53`) and as steps of a plan; `/start logout`
unlinks the chat (`start.ts:71`); and where the orchestrator is switched off a text
runs whatever it is understood to be (`dispatcher.ts:77`). What the proof needs to
know of the intents' table is in
`IntentsAssumption`, which TLC computes like the pages'. `ToldIsRecorded` is
finding 6.

**Sessions.** `live` is `refresh:<hash>`, `members` the set of a family, `index`
the person's families, `work` each request's position between Redis calls.
Actions are the calls: `DelToken`, `RemoveMember`, `UntrackSession`, `SetToken`,
`AddMember`, `TrackSession` of a rotation, `ReadMembers`, `DelMembers`,
`DelFamily` of a revocation, `ReadFamilies`, `NextFamily`, `DelIndex` of a reset,
and `Dies` anywhere. `QuietRevocation`: once a sign-in was ended, none of its
tokens can be rotated, if none was being issued meanwhile. The condition is the
point: a rotation deletes and takes the family off the index before it issues
(`auth.service.ts:199`), so that a revocation in between misses the new token,
and the set that would lead to it is gone.

**Retries.** `record` is what is kept of a key, `copies` the requests under way,
`done` what was executed with each key. A key is the tenant's and not the
route's, lives as long as a button, a card or a page of the console does, or is
one for all steps of a bot's plan (`Calls`). `RetryRepeatsAnswer`: a call that is
sent again is executed once and answered with its own answer, unless copies
overlap, the process stops before the record, or a day has passed (`excused`). The
calls of a listing's card are excepted (`ShareACard`): cancel, complete and
no-show send the same body with the card's key, so that after one of them another
is answered with its answer, and has never run (`listings.route.ts:56`). Only
another body is a conflict; another route is not looked at.

Run `requests`: two roles in the console and the chat; two objects, four
intents that cover reading, undoing, recording and claiming, one message in
reach (buttons of older ones add nothing: a button is as good as its token, which
a single message already carries past any change of persona); one trouble in the
console, so that a failure can hit any one fetch, action or stream; two sign-ins
and two tokens with two requests at a time, enough for a rotation that meets a
revocation or another rotation; three requests for two listings, two at a time:
a call, its copy, and another one with the same key. 3 million states.
`bot_prep` is finding 6.

Fairness (`ConsoleFairness`): weak fairness of the server's reading, of the
answer, and of a timer that is set. It is stated with the specification of the
run because only `PolledPageCatchesUp` is about the future.

In all runs `CHECK_DEADLOCK` is off because clocks, histories, requests or faults
are bounded and a behaviour ends where the bound is reached.

## What is proved

Every theorem holds for all values of the constants that satisfy the assumptions
named in the modules: any number of listings, tenants, users, lots and requests.

| Module | Theorem | From |
|---|---|---|
| `MarketplaceProofs` | `TypeCorrect`, `MarketInvariant` | `TenantsAssumption` (NGOs and restaurants are disjoint, every user has a tenant), `BoundsAssumption` |
| | `ClaimantFollowsStatus`, `TakersAreEligible`, `OpenSalesKeepDeadline` | `MarketInv` |
| | `OneWinner`, `ClosingIsFinal`, `SalesStaySales` | the guards of every action, and `TypeOK` |
| | `MarketplaceImplementsLifecycle` | `MarketInv` and the actions |
| | `LogAccounts` | `MarketInv`, the actions |
| `LeftoversProofs` | `TypeCorrect`, `CloseInvariant` | `SplitsAssumption`, `LimitsAssumption` |
| | `StatusFollowsDecision`, `OfferedOnce`, `SplitsAreSound` | `CloseInv` |
| | `CloseImplementsSplitOnce` | `CloseInv` and the actions |
| | `SuggestionsAccepted` | `CloseInv`, `SuggestionAssumption` |
| | `DashboardAddsUp` | `CloseInv`, `AnalyticsAssumption` |
| | `LinesAddUp` | `TypeOK`, `AnalyticsAssumption` |
| `KitchenProofs` | `TypeCorrect`, `DrawsStayValid`, `DrawsGoByExpiry` | `RecipeAssumption`, `StockAssumption` |
| | `FirstOut` | `KitchenInv` |
| | `PrepsAddUp` | `KitchenInv`, the actions, sums over lots |
| | `LedgerBalances`, `KitchenImplementsPantry` | the same, and `WholeUnits` |
| | `NoDeadlock` | `WaitInv`, that is parts of `KitchenInv` and `AgesAssumption`; a free connection |
| `SessionsProofs` | `RevokedForGood` | the actions of `Sessions` alone |
| `RetriesProofs` | `RetriesAnswered` | `RetriesAssumption` |
| `DeliveryProofs` | `NotifiedOnce`, `WindowsEnd`, `CapNeverExceeded` | `EventsAssumption` |
| | `OneLoopPerTenant`, `NobodyIsForgotten` | the actions of `Bridge` alone |
| | `StatusStaysTrue`, `ReportsArriveWhole` | `DeliveryAssumption`, `EventsAssumption`, `ReportsAssumption`, `AnnouncementsAssumption` |
| `RequestsProofs` | `OwnChangeShown` | `ConsoleAssumption`, `PagesAssumption` |
| | `AskedFirst` | `DialogueAssumption`, `IntentsAssumption` |

Why the invariants have the parts they have:

- `MarketInv` (with `TypeOK`). `TakerIsEligible` is not inductive: a claim is
  checked in one transaction and committed in another. The missing part is that a
  claim in flight is still legitimate (`MayStillTake`): the owner never changes,
  and the channel only moves from b2b to ngo, which admits more takers. A held
  b2b listing keeps its deadline, or a release would lose it.
- `CloseInv`. A close in flight carries splits that were checked when it read
  (`CommitIsBacked`); quantities and `safe_until` never change afterwards. A
  confirmation in flight concerns a decided leftover (`ReuseIsBacked`), so that
  its blind status write cannot reopen one: that is what keeps
  `StatusMatchesDecision`.
- `KitchenInv`. The type invariant itself needs it: a balance stays in Nat only
  because a commit writes `read - take` of a lot nobody changed since it was
  read. `DrawsAreLocked` says so, and every action that writes a lot is shown to
  respect it: an adjustment waits for the lock, a purchase writes a lot that is
  not on the shelf, a prep writes what it has locked itself. These are
  `LocksInv`. The rest, `DrawnInOrder`, is the order: a lot whose successor was
  drawn from is used up, and the lots still to lock expire no earlier than those
  locked, which are used up while something is needed. It holds because a lot's
  expiry never changes, so that the order of the query is still the order when
  the last lock is granted; a lot bought meanwhile is not in the query's result
  and is not claimed to be in order. `LedgerBalances` adds that all quantities
  in flight are whole thousandths, which rounding then leaves alone.
- `PantryInv` adds `PrepsFollowRecipe`: of the ingredients a prep is done with
  it has drawn what the recipe says; of the one under its hands, what is drawn
  and what is still needed are what the recipe says; from a lot it has yet to
  lock, nothing. Each of these is a sum over the lots of an
  ingredient in which a step changes one term (`SumChange`). The refinement of
  `Pantry` follows: a commit takes a whole recipe off the sums at once, and
  every other action of a prep leaves them alone.
- `WaitInv`. Whoever holds a lock is a prep that is drawing, or about to pick its
  next ingredient, and is done with that lot (`HoldersGoOn`): so no lock outlives
  its request, and none is held by somebody who waits to take it. Lots on the
  shelf differ in age (`AgesDiffer`), so that of those a prep has still to lock
  exactly one is next (`NextLot`) and there is one request it waits for. Whoever
  is stuck while a connection is free is thus held up by one prep
  (`StuckOnHolder`); if a group of them were held up by nobody outside, following
  who waits for whom would come around (`CycleExists`: a map of a finite set into
  itself has a cycle), and a prep on a cycle is one that Postgres aborts.
- `LogAccounts` is inductive beside `TypeOK` and `MarketInv`: each transaction adds
  one to one count of one listing and changes the status that the counts must
  match. Of the release it needs that the row still had the claimant that the
  event names, although its check lies in the past.
- `DashboardAddsUp` and `LinesAddUp` are about sums grouped by disposition, day,
  month and dish: `SumGroups` says that a sum over a set is the sum of the sums
  over the groups of any key. That the parts of one leftover are all of it is
  `SplitIsSound`; that nothing of quantity zero is recorded (`SomeOfEach`) is why
  the figure for dishes without a weight is zero only if there are none.
- `RetriesInv`. What was answered is on record only because what is recorded, or
  about to be, was executed (`WasExecuted`). That a key without an excuse is
  executed once needs three parts: at most one of its copies is past its reading
  (`OneAtATime`), one that has yet to execute is the first of its key
  (`FirstOfItsKey`), and after that the key has its record or a copy that will
  write it (`IsOnRecord`), so that no other copy finds nothing.
- `SessionsInv`. A revocation reaches what the two sets in Redis name, so the
  invariant says where a living token is found (`Found`): its family is in the
  person's index and its hash in its family's set, or a request that is issuing it
  will put them there, or the family counts as torn. What a worker claims to
  revoke is still ahead of it, under its hands with every living hash read, or
  without a living token (`Claimed`); nothing is issued for it meanwhile, or the
  claim is dropped. Tokens have numbers that only grow (`Numbered`), so that a hash
  that was deleted never comes back. A revoked family has no token to rotate and
  is not new, so no request can begin to issue for it (`Gone`).
- `EventsInv`. One request at most holds the token of a key (`OneHolder`), before
  anything was sent with it (`HeldBefore`), and the token outlives what was sent
  (`SentIsTaken`), so that the one who sends is the first. `WindowAlwaysEnds` is
  inductive beside the shape of the state. `CapInv` gives each admission of the
  running window, sent or not yet, a place of its own that is no higher than the
  counter; distinct places among `MaxPerWindow` are at most that many
  (`DistinctPlaces`), however the requests interleave.
- `BridgeInv`. `OneConnection` is inductive beside the shape: a loop goes on
  (`GoesOn`), stops and takes its tenant off the set in one step (`StopKeeps`), or
  is started for tenants that have none (`SpawnKeeps`). `NobodyForgotten` is
  inductive beside it: a tenant gets off the set only with its session, what is
  registered before the start has read what is there is still read, and whoever
  stores a session is `linking` until the tenant is registered and has its loop.
- `ReportsInv`. BullMQ may hand out a stalled job once more, so the state of the
  row does not say how often a report was rendered. Nor does a row that is queued
  or running say who sees to it: the invariant goes through the request, the
  queue and the worker, each of which hands the report on or gives it up, and
  keeps the file of a first rendering while the second is under way. An
  announcement on a stream is for a report whose job is done, whose worker has
  left it and whose file has not gone out, it is there once, and it is on the
  stream of the tenant that asked (`Orderly`); nobody but a worker writes one
  (`PlainTodo`). The file is whole because after `i` rows the pages hold rows `1`
  to `i` in order and the place of the next row is what the number of rows on the
  last page leaves (`InPlace`), so that no page has more rows than fit.
- `ConsoleInv`. Where the cache lacks the action, a fetch is under way, or has
  failed for good, or the page is not open and asks again when it is
  (`CacheCatchesUp`); what was asked for after the answer does not lack the
  action (`FetchKnows`); an action that invalidates nothing of a query is not
  taken while the query is watched (`OutOfSight`).
- `DialogueTypes`. Buttons and steps outlive the persona and the plan they were
  made for, so each must stand for an intent that exists; then the handlers show
  one by one that what requires a confirmation runs by a card's button, or by what
  `NotAskedFor` names.
- `SuggestionsAccepted` needs no strengthening beyond the shape of a leftover's
  row: it is about a function. The lemmas say that rounding stays between its
  bounds (`RoundStays`), that the clamped parts add up exactly
  (`ClampSplitAddsUp`) and what the agent can answer (`AnswerShape`).

The refinement theorems show that initial states map to initial states and that
every step maps to a step of the abstract specification or to a stutter. In
`MarketplaceProofs`, a claim is the one step that uses the invariant: its check
lies in the past.

`FoldTheorems` has the induction that these proofs need, over the subsets of a
finite set and over the numbers up to one, stated for a set that contains the
instances instead of for a predicate, since no prover here can instantiate a
theorem about one. On it rest sums (removing or changing a term, sums of sums,
sums by groups), folds over a sequence (they go on from a sequence to the
sequence with one element more), and the cycle that a map of a finite set into
itself has.

Assumptions. `TenantsAssumption` and its like give the constants their types.
`WholeUnits` says that all quantities are whole thousandths: without it balances
and movements drift apart (finding 5). `PagesAssumption` and `IntentsAssumption`
have no parameters that a run could choose differently: they are facts of the
tables in `Pages`, `Access` and `BotIntents`, which are built with `:>` and
`@@`, operators that the provers do not know; TLC evaluates them in `requests`.
`AgesAssumption` says that `bought` numbers the lots on the shelf at the beginning
from the oldest: `purchase_date` and, among equals, `created_at`, by which the
query breaks ties.
`AnnouncementsAssumption` says of the agendas that no request announces a
report, which is what the code's calls of `publishEvent` look like.

Only model-checked: liveness (`DueIsResolved`, `EveryRequestEnds`,
`BridgeComesBack`, `ReportResolves`, `PolledPageCatchesUp`), which is beyond TLAPS
together with `ENABLED`; and `OfferedIsServed`, a comparison of tables without
parameters, which TLC computes in full. Every other property of the passing runs is
a theorem. What safety can say of three of the five is proved, each the state that
would have to go wrong for the promise to fail without anything failing:
`SomebodyGoesOn` for `EveryRequestEnds`, `NobodyForgotten` for `BridgeComesBack` and
`StatusIsTrue` for `ReportResolves`. `MayProceed(r)` in `SomebodyGoesOn` is written
out because `ENABLED Proceed(r)` cannot be reasoned about here; that the two agree
in every reachable state was compared with TLC on the instance of `kitchen_orders`.

## Findings

Runs that end in a counterexample: the code does something other than what a
document, a test or a message of the repository says.

1. `market_told` / `NgoIsTold`. escalateListing commits and then publishes
   (`listings.service.ts:50`). If it fails in between, the retry finds a listing
   that is no longer b2b and returns early; a donation of the close is lost the
   same way. README.md:202 says main-service fans out so that "an NGO is actually
   told".
2. `market_safe` / `ClaimedWhileSafe`. Nothing ends a listing at `safe_until`:
   the status `expired` is never written and claimListing
   (`listings.queries.ts:142`) does not look at the time. README.md:14 and 16
   call a donation "still safe" and what nobody took by `safe_until` waste.
3. `leftovers_reuse` / `ReuseWithinRetained`. Each confirmation is compared with
   the whole retained quantity (`production.service.ts:118`), so several partial
   ones exceed it. `apps/main-service/tests/production.test.ts:176` expects
   REUSE_EXCEEDS_RETAIN.
4. `kitchen_saved` / `ShortPrepIsNotSaved`. The prep entry is committed before
   the stock is looked at (`production.service.ts:47`), so a prep answered with
   INSUFFICIENT_STOCK stays on record. `kitchen-page.tsx:450` says it is
   "rejected before saving".
5. `kitchen_rounding` / `BalanceMatchesLedger`. Balance and movement are rounded
   independently (`shared/fefo.ts:66`), and drift apart by a thousandth when a
   draw ends in half of one. `db/seed/invariants.ts:35` demands that they agree.
6. `bot_prep` / `ToldIsRecorded`. resolveParams replaces the word for a dish by
   its id (`plan-params.ts:198`), and the handlers of `prep.create` and
   `leftovers.record` look that up as a name once more, so that a plan of either
   always ends in "I don't have that dish". `intents.ts` gives such a sentence as
   the intent's example.
7. `leftovers_split` / `SplitIsExact`. A split is accepted within 0.01 of the
   leftover (`leftovers.service.ts:312`) and stored as it was sent, so that of two
   kilograms 2.009 are sold. `db/seed/invariants.ts:58` fails with "A disposition
   does not allocate exactly the leftover quantity" from half a thousandth on.

## What is not modelled

- Row-level security: it is configuration of Postgres. In Marketplace and
  Leftovers a user does what the routes let some role of the tenant do; who may
  call what is in Access.
- In Marketplace: quantities and items of a listing; the value of
  `pickup_until`, which only orders lists; events other than the two that tell an
  NGO.
- In Marketplace, too: the order of the log's rows, and more due listings than a
  batch holds; `DueIsResolved` is checked with one listing.
- In Leftovers: cost and market value; the address check.
- In Kitchen: an exhausted pool of connections, which the properties leave out;
  `patchPrepEntry`, which overwrites `qty_served`; units and their
  mismatch except as a failure; binary floating point (3 portions of 0.1 ask for
  slightly more than 0.3), since quantities are integers here.
- In Analytics: what a chart shows for days without rows and for weeks is wrong in
  the code and claimed by no property; forecasts and insights, which depend on the
  calendar and on a model; prices, rates and emissions, which are multiples of the
  figures; writes between the five transactions of a dashboard.
- In Delivery: an event's text and card; the sweep of old reports; the stored
  notification preferences, which publishEvent does not read.
- In Console: a hidden tab, whose timers pause (`PolledPageCatchesUp` is about a
  tab in view); forms and their checks; more than one query and one action, which
  TanStack Query keeps apart; a second console of the same person.
- In Dialogue: wording, the free words of an order or a purchase but for a dish,
  and the chat's own access tokens with their refresh; the agent's rounds of tool
  calls, which end in a plan or in the fallback.
- In Sessions: the token of a reset link and the mail; access tokens, which are
  valid until they expire whatever is revoked; the hourly limit of a family's
  rotations but for its effect, a refresh that changes nothing.
- The status of an NGO's verification, users and their audit records, the catalog
  and the bot's link row: single updates, of which Access and Pages have the
  endpoints, guards and pages. What can go wrong in them is listed under
  `hazards` with a note.
- The seed: its data is no behaviour; the invariants it asserts are stated where
  they are about a module's state.
- Time in Marketplace and Leftovers is a bounded integer clock; the proofs cover
  every bound.

## Running

    tlc -workers 2 -config MarketplaceSafety.cfg MCMarketplace
    tlapm MarketplaceProofs.tla

The other runs likewise: `PROJECT.json` pairs each cfg with its module.
