---------------------------- MODULE Marketplace ----------------------------
(***************************************************************************)
(* Surplus listings of the main-service: the HTTP handlers that offer,     *)
(* claim, release, patch, cancel, complete and no-show a listing, and the  *)
(* BullMQ worker that turns unsold B2B listings into donations, over one   *)
(* Postgres table and its append-only listing_events. Events have a random *)
(* id and the time their handler started at, which is before its           *)
(* transaction: the table does not know in which order they happened, and  *)
(* neither does `log`.                                                     *)
(*                                                                         *)
(* Every database transaction is one step.  A handler that runs several    *)
(* transactions, or that publishes or enqueues after its commit, is        *)
(* several steps with its progress kept in `request`; anything may run in  *)
(* between, and the process may die there.                                 *)
(***************************************************************************)
EXTENDS Integers, FiniteSets, Functions

CONSTANTS
  Listing,      \* listing ids
  Restaurants,  \* tenants of type restaurant
  Ngos,         \* tenants of type ngo
  User,         \* people with a session; two of them may share a tenant
  tenantOf,     \* the tenant of each user
  None,         \* absence of a tenant or of a listing
  Prices,       \* what an owner may ask: "free" (0), "asked" (above 0)
  Window,       \* escalationWindowSeconds(), in clock ticks
  SweepBatch,   \* SWEEP_BATCH
  MaxTime,      \* bound: the clock stops here
  MaxSafe,      \* bound: latest safe_until
  MaxLog,       \* bound: no new user request on a listing with this many events
  MaxFaults     \* bound: crashes and failed jobs

Tenant == Restaurants \cup Ngos

ASSUME TenantsAssumption ==
  /\ Restaurants \cap Ngos = {}
  /\ tenantOf \in [User -> Tenant]
  /\ None \notin Tenant \cup Listing
  /\ IsFiniteSet(Tenant)

ASSUME BoundsAssumption ==
  /\ "free" \in Prices
  /\ Window \in Nat \ {0}
  /\ {MaxTime, MaxSafe, MaxLog, MaxFaults, SweepBatch} \subseteq Nat

VARIABLES
  row,      \* surplus_listings, by id
  log,      \* listing_events: how many there are of each, by listing
  request,  \* progress of each user's in-flight multi-step request
  jobs,     \* when each one-shot escalation job may run, or Never
  worker,   \* what the escalation worker is doing
  told,     \* listings announced to the NGOs nearby
  now,      \* the clock
  faults    \* faults so far

vars == <<row, log, request, jobs, worker, told, now, faults>>

Never == -1

Status == {"absent", "open", "claimed", "completed", "cancelled"}

Row == [owner      : Restaurants \cup {None},
        channel    : {"b2b", "ngo"},
        status     : Status,
        claimedBy  : Tenant \cup {None},
        price      : Prices,
        escalateAt : Nat \cup {Never},
        safeUntil  : Nat]

Event == {"created", "escalated", "claimed", "released", "price_updated",
          "pickup_extended", "cancelled", "collected", "no_show"}

Entry == [event : Event, by : Tenant \cup {None}]

Idle == [step |-> "idle", listing |-> None, sell |-> {}, donate |-> {}]

Request ==
  {Idle}
  \cup [step : {"claim", "release", "patch"}, listing : Listing,
        sell : {{}}, donate : {{}}]
  \cup [step : {"fanOut"}, listing : {None},
        sell : SUBSET Listing, donate : SUBSET Listing]

Pending(step, l) ==
  [step |-> step, listing |-> l, sell |-> {}, donate |-> {}]

Worker == [task       : {"idle", "job", "sweep"},
           listing    : Listing \cup {None},
           todo       : SUBSET Listing,
           announcing : Listing \cup {None}]

Resting == [task |-> "idle", listing |-> None, todo |-> {}, announcing |-> None]

TypeOK ==
  /\ row \in [Listing -> Row]
  /\ log \in [Listing -> [Entry -> Nat]]
  /\ request \in [User -> Request]
  /\ jobs \in [Listing -> Nat \cup {Never}]
  /\ worker \in Worker
  /\ told \in SUBSET Listing
  /\ now \in Nat
  /\ faults \in Nat

-----------------------------------------------------------------------------
(***************************************************************************)
(* The transactions of listings.queries.ts: a conditional UPDATE and, when *)
(* it hit a row, one INSERT into listing_events.  A transaction whose      *)
(* condition fails changes nothing and its caller answers with an error.   *)
(***************************************************************************)
Record(l, event, by) ==
  log' = [log EXCEPT ![l][[event |-> event, by |-> by]] = @ + 1]

Escalatable(l) == row[l].status = "open" /\ row[l].channel = "b2b"

\* Faulty variant: forgets that the listing may have been taken meanwhile.
EscalateEvenIfClaimed(l) ==
  /\ row[l].status \in {"open", "claimed"}
  /\ row[l].channel = "b2b"
  /\ row' = [row EXCEPT ![l].channel = "ngo", ![l].price = "free",
                        ![l].escalateAt = Never]
  /\ Record(l, "escalated", None)

EscalateOpenB2b(l) ==
  /\ Escalatable(l)
  /\ row' = [row EXCEPT ![l].channel = "ngo", ![l].price = "free",
                        ![l].escalateAt = Never]
  /\ Record(l, "escalated", None)

Claimable(l) == row[l].status = "open" /\ row[l].claimedBy = None

\* Faulty variant: trusts the earlier SELECT and updates unconditionally.
ClaimWithoutRecheck(l, t) ==
  /\ row[l].status # "absent"
  /\ row' = [row EXCEPT ![l].claimedBy = t, ![l].status = "claimed"]
  /\ Record(l, "claimed", t)

\* Faulty variant: drops the deadline, so a released listing has none.
ClaimClearsDeadline(l, t) ==
  /\ Claimable(l)
  /\ row' = [row EXCEPT ![l].claimedBy = t, ![l].status = "claimed",
                        ![l].escalateAt = Never]
  /\ Record(l, "claimed", t)

ClaimListing(l, t) ==
  /\ Claimable(l)
  /\ row' = [row EXCEPT ![l].claimedBy = t, ![l].status = "claimed"]
  /\ Record(l, "claimed", t)

Releasable(l, t) == row[l].status = "claimed" /\ row[l].claimedBy = t

ReleaseListing(l, t) ==
  /\ Releasable(l, t)
  /\ row' = [row EXCEPT ![l].claimedBy = None, ![l].status = "open"]
  /\ Record(l, "released", t)

Editable(l, t) == row[l].owner = t /\ row[l].status \in {"open", "claimed"}

\* Faulty variant: lets the owner edit a listing in any status.
UpdateClosedListingPrice(l, t, price) ==
  /\ row[l].owner = t
  /\ row' = [row EXCEPT ![l].price = price]
  /\ Record(l, "price_updated", t)

UpdateListingPrice(l, t, price) ==
  /\ Editable(l, t)
  /\ row' = [row EXCEPT ![l].price = price]
  /\ Record(l, "price_updated", t)

\* pickup_until steers only display order, so only the event is kept.
UpdateListingPickupWindow(l, t) ==
  /\ Editable(l, t)
  /\ UNCHANGED row
  /\ Record(l, "pickup_extended", t)

\* Faulty variant: writes the enum value no other code expects.
CancelAsExpired(l, t) ==
  /\ Editable(l, t)
  /\ row' = [row EXCEPT ![l].status = "expired", ![l].claimedBy = None]
  /\ Record(l, "cancelled", t)

\* Faulty variant: leaves the claim on a cancelled listing.
CancelKeepsClaim(l, t) ==
  /\ Editable(l, t)
  /\ row' = [row EXCEPT ![l].status = "cancelled"]
  /\ Record(l, "cancelled", t)

CancelListing(l, t) ==
  /\ Editable(l, t)
  /\ row' = [row EXCEPT ![l].status = "cancelled", ![l].claimedBy = None]
  /\ Record(l, "cancelled", t)

\* A restaurant closes its own sale, an NGO closes the pickup it claimed.
MayComplete(l, t) ==
  /\ row[l].status = "claimed"
  /\ IF t \in Restaurants THEN row[l].owner = t ELSE row[l].claimedBy = t

CompleteListing(l, t) ==
  /\ MayComplete(l, t)
  /\ row' = [row EXCEPT ![l].status = "completed"]
  /\ Record(l, "collected", t)

\* Faulty variant: reopens the listing without telling the event log.
NoShowUnrecorded(l, t) ==
  /\ row[l].owner = t
  /\ row[l].status = "claimed"
  /\ row' = [row EXCEPT ![l].status = "open", ![l].claimedBy = None]
  /\ UNCHANGED log

MarkListingNoShow(l, t) ==
  /\ row[l].owner = t
  /\ row[l].status = "claimed"
  /\ row' = [row EXCEPT ![l].status = "open", ![l].claimedBy = None]
  /\ Record(l, "no_show", t)

-----------------------------------------------------------------------------
(***************************************************************************)
(* Handlers.  u is the signed-in user, tenantOf[u] the tenant in its       *)
(* session.  A step whose transaction matches no row ends the request      *)
(* with an error: nothing changes but the request.                         *)
(***************************************************************************)
IsIdle(u) == request[u].step = "idle"

\* Bound: users stop acting on a listing whose log is full.
HasRoom(l) == SumFunction(log[l]) < MaxLog

SetRequest(u, r) == request' = [request EXCEPT ![u] = r]

\* A freshly inserted row of createBundledListing.
NewRow(owner, channel, price, safeUntil) ==
  [owner      |-> owner,
   channel    |-> channel,
   status     |-> "open",
   claimedBy  |-> None,
   price      |-> price,
   escalateAt |-> IF channel = "b2b" THEN now + Window ELSE Never,
   safeUntil  |-> safeUntil]

(***************************************************************************)
(* commitDispositions, as the marketplace sees it: one transaction inserts *)
(* at most one B2B listing (the sell parts) and at most one donation (the  *)
(* donate parts), both of food that is still safe.  The commit's effect on *)
(* leftovers is not modelled here.                                         *)
(***************************************************************************)
OfferSurplus(u, sell, donate, price, safeUntil) ==
  /\ IsIdle(u)
  /\ tenantOf[u] \in Restaurants
  /\ sell \cup donate # {}
  /\ sell \cap donate = {}
  /\ \A l \in sell \cup donate : row[l].status = "absent"
  /\ safeUntil > now
  /\ row' = [l \in Listing |->
       IF l \in sell THEN NewRow(tenantOf[u], "b2b", price, safeUntil)
       ELSE IF l \in donate THEN NewRow(tenantOf[u], "ngo", "free", safeUntil)
       ELSE row[l]]
  /\ log' = [l \in Listing |->
       IF l \in sell \cup donate
       THEN [log[l] EXCEPT ![[event |-> "created", by |-> tenantOf[u]]] = @ + 1]
       ELSE log[l]]
  /\ SetRequest(u, [step |-> "fanOut", listing |-> None,
                    sell |-> sell, donate |-> donate])
  /\ UNCHANGED <<jobs, worker, told, now, faults>>

\* What is left of a fan-out; an empty one ends the request.
FanOutLeft(donate) ==
  IF donate = {} THEN Idle
  ELSE [step |-> "fanOut", listing |-> None, sell |-> {}, donate |-> donate]

\* After the commit: the B2B listing comes first and gets its one-shot job.
ScheduleEscalation(u) ==
  /\ request[u].step = "fanOut"
  /\ request[u].sell # {}
  /\ jobs' = [l \in Listing |->
       IF l \in request[u].sell THEN now + Window ELSE jobs[l]]
  /\ SetRequest(u, FanOutLeft(request[u].donate))
  /\ UNCHANGED <<row, log, worker, told, now, faults>>

\* Then listing.created of the donation goes to the verified NGOs nearby.
AnnounceDonation(u) ==
  /\ request[u].step = "fanOut"
  /\ request[u].sell = {}
  /\ told' = told \cup request[u].donate
  /\ SetRequest(u, Idle)
  /\ UNCHANGED <<row, log, jobs, worker, now, faults>>

(***************************************************************************)
(* market.service.ts claim.  selectListingForClaim locks the row, but in a *)
(* transaction of its own: the lock is gone before claimListing runs.      *)
(***************************************************************************)
\* Faulty variant: forgets that B2B listings are for restaurants only.
MayClaimAnyChannel(l, t) == Claimable(l) /\ row[l].owner # t

MayClaim(l, t) ==
  /\ Claimable(l)
  /\ row[l].owner # t
  /\ row[l].channel = "b2b" => t \in Restaurants

CheckClaim(u, l) ==
  /\ IsIdle(u)
  /\ HasRoom(l)
  /\ MayClaim(l, tenantOf[u])
  /\ SetRequest(u, Pending("claim", l))
  /\ UNCHANGED <<row, log, jobs, worker, told, now, faults>>

CommitClaim(u) ==
  LET l == request[u].listing
      t == tenantOf[u]
  IN  /\ request[u].step = "claim"
      /\ \/ ClaimListing(l, t)
         \/ ~Claimable(l) /\ UNCHANGED <<row, log>>
      /\ SetRequest(u, Idle)
      /\ UNCHANGED <<jobs, worker, told, now, faults>>

\* market.service.ts release: the same two transactions.
CheckRelease(u, l) ==
  /\ IsIdle(u)
  /\ HasRoom(l)
  /\ row[l].claimedBy = tenantOf[u]
  /\ SetRequest(u, Pending("release", l))
  /\ UNCHANGED <<row, log, jobs, worker, told, now, faults>>

CommitRelease(u) ==
  LET l == request[u].listing
      t == tenantOf[u]
  IN  /\ request[u].step = "release"
      /\ \/ ReleaseListing(l, t)
         \/ ~Releasable(l, t) /\ UNCHANGED <<row, log>>
      /\ SetRequest(u, Idle)
      /\ UNCHANGED <<jobs, worker, told, now, faults>>

(***************************************************************************)
(* patchListing: a body may carry a price, a pickup window or both; with   *)
(* both the price commits first, on its own.                               *)
(***************************************************************************)
PatchPrice(u, l, price, pickupToo) ==
  /\ IsIdle(u)
  /\ HasRoom(l)
  /\ UpdateListingPrice(l, tenantOf[u], price)
  /\ SetRequest(u, IF pickupToo THEN Pending("patch", l) ELSE Idle)
  /\ UNCHANGED <<jobs, worker, told, now, faults>>

PatchPickup(u) ==
  LET l == request[u].listing
      t == tenantOf[u]
  IN  /\ request[u].step = "patch"
      /\ \/ UpdateListingPickupWindow(l, t)
         \/ ~Editable(l, t) /\ UNCHANGED <<row, log>>
      /\ SetRequest(u, Idle)
      /\ UNCHANGED <<jobs, worker, told, now, faults>>

\* The handlers of one transaction; an error changes nothing.
SingleStep(u, l) ==
  /\ IsIdle(u)
  /\ HasRoom(l)
  /\ \/ UpdateListingPickupWindow(l, tenantOf[u])
     \/ CancelListing(l, tenantOf[u])
     \/ CompleteListing(l, tenantOf[u])
     \/ MarkListingNoShow(l, tenantOf[u])
  /\ UNCHANGED <<request, jobs, worker, told, now, faults>>

\* The API process dies between two steps of a request.
LoseRequest(u) ==
  /\ ~IsIdle(u)
  /\ faults < MaxFaults
  /\ SetRequest(u, Idle)
  /\ faults' = faults + 1
  /\ UNCHANGED <<row, log, jobs, worker, told, now>>

-----------------------------------------------------------------------------
(***************************************************************************)
(* The escalation worker: one BullMQ worker, one job at a time.  A job is  *)
(* either the delayed one-shot job of one listing or an iteration of the   *)
(* 60-second sweep, which serves as the backup of every lost one-shot job. *)
(***************************************************************************)

StartJob(l) ==
  /\ worker = Resting
  /\ jobs[l] # Never
  /\ jobs[l] <= now
  /\ worker' = [task |-> "job", listing |-> l, todo |-> {l}, announcing |-> None]
  /\ UNCHANGED <<row, log, request, jobs, told, now, faults>>

\* Faulty variant: sweeps only listings whose one-shot job is still queued.
DueWithJob ==
  {l \in Listing : /\ Escalatable(l)
                   /\ row[l].escalateAt # Never
                   /\ row[l].escalateAt <= now
                   /\ jobs[l] # Never}

\* selectDueEscalations, before its limit.
Due == {l \in Listing : /\ Escalatable(l)
                        /\ row[l].escalateAt # Never
                        /\ row[l].escalateAt <= now}

\* Its limit: the SweepBatch oldest deadlines.
Batch(S) ==
  /\ S \subseteq Due
  /\ Cardinality(S) = IF Cardinality(Due) < SweepBatch
                      THEN Cardinality(Due) ELSE SweepBatch
  /\ \A l \in S, m \in Due \ S : row[l].escalateAt <= row[m].escalateAt

\* An iteration that finds nothing due changes nothing and is left out.
StartSweep ==
  /\ worker = Resting
  /\ \E S \in (SUBSET Listing) \ {{}} :
       /\ Batch(S)
       /\ worker' = [task |-> "sweep", listing |-> None,
                     todo |-> S, announcing |-> None]
  /\ UNCHANGED <<row, log, request, jobs, told, now, faults>>

(***************************************************************************)
(* escalateListing, first half: the transaction.  It re-checks status and  *)
(* channel but not the deadline; a miss moves on to the next listing.      *)
(***************************************************************************)
EscalateNext(l) ==
  /\ worker.announcing = None
  /\ l \in worker.todo
  /\ \/ /\ EscalateOpenB2b(l)
        /\ worker' = [worker EXCEPT !.todo = @ \ {l}, !.announcing = l]
     \/ /\ ~Escalatable(l)
        /\ worker' = [worker EXCEPT !.todo = @ \ {l}]
        /\ UNCHANGED <<row, log>>
  /\ UNCHANGED <<request, jobs, told, now, faults>>

\* Second half: listing.escalated goes to the owner and the NGOs nearby.
AnnounceEscalation ==
  /\ worker.announcing # None
  /\ told' = told \cup {worker.announcing}
  /\ worker' = [worker EXCEPT !.announcing = None]
  /\ UNCHANGED <<row, log, request, jobs, now, faults>>

\* The one-shot job leaves the queue (removeOnComplete; attempts is 1).
Dequeue ==
  jobs' = [l \in Listing |-> IF l = worker.listing THEN Never ELSE jobs[l]]

FinishTask ==
  /\ worker.task # "idle"
  /\ worker.todo = {}
  /\ worker.announcing = None
  /\ worker' = Resting
  /\ Dequeue
  /\ UNCHANGED <<row, log, request, told, now, faults>>

\* Postgres or Redis fails under the job: what is left of it is dropped.
FailTask ==
  /\ worker.task # "idle"
  /\ faults < MaxFaults
  /\ worker' = Resting
  /\ Dequeue
  /\ faults' = faults + 1
  /\ UNCHANGED <<row, log, request, told, now>>

\* The worker process dies: BullMQ hands a stalled one-shot job out again.
CrashWorker ==
  /\ worker.task # "idle"
  /\ faults < MaxFaults
  /\ worker' = Resting
  /\ faults' = faults + 1
  /\ UNCHANGED <<row, log, request, jobs, told, now>>

Tick ==
  /\ now < MaxTime
  /\ now' = now + 1
  /\ UNCHANGED <<row, log, request, jobs, worker, told, faults>>

-----------------------------------------------------------------------------
Init ==
  /\ row = [l \in Listing |->
             [owner |-> None, channel |-> "b2b", status |-> "absent",
              claimedBy |-> None, price |-> "free", escalateAt |-> Never,
              safeUntil |-> 0]]
  /\ log = [l \in Listing |-> [e \in Entry |-> 0]]
  /\ request = [u \in User |-> Idle]
  /\ jobs = [l \in Listing |-> Never]
  /\ worker = Resting
  /\ told = {}
  /\ now = 0
  /\ faults = 0

AtMostOne(S) == \A x, y \in S : x = y

UserStep(u) ==
  \/ \E sell, donate \in {S \in SUBSET Listing : AtMostOne(S)},
        price \in Prices, safeUntil \in 1..MaxSafe :
       OfferSurplus(u, sell, donate, price, safeUntil)
  \/ ScheduleEscalation(u)
  \/ AnnounceDonation(u)
  \/ \E l \in Listing : CheckClaim(u, l)
  \/ CommitClaim(u)
  \/ \E l \in Listing : CheckRelease(u, l)
  \/ CommitRelease(u)
  \/ \E l \in Listing, price \in Prices, pickupToo \in BOOLEAN :
       PatchPrice(u, l, price, pickupToo)
  \/ PatchPickup(u)
  \/ \E l \in Listing : SingleStep(u, l)
  \/ LoseRequest(u)

WorkerStep ==
  \/ \E l \in Listing : StartJob(l) \/ EscalateNext(l)
  \/ StartSweep
  \/ AnnounceEscalation
  \/ FinishTask
  \/ FailTask
  \/ CrashWorker

Next == Tick \/ WorkerStep \/ \E u \in User : UserStep(u)

Spec == Init /\ [][Next]_vars

(***************************************************************************)
(* The worker keeps taking what it has: BullMQ fires the sweep every 60    *)
(* seconds for as long as the worker runs, and a started job goes on until *)
(* it ends or fails.  The API finishes the fan-out of a commit unless it   *)
(* dies.  Nothing is assumed about users.                                  *)
(***************************************************************************)
Fairness ==
  /\ WF_vars(StartSweep)
  /\ \A l \in Listing : WF_vars(EscalateNext(l))
  /\ WF_vars(AnnounceEscalation)
  /\ WF_vars(FinishTask)
  /\ \A u \in User : WF_vars(ScheduleEscalation(u) \/ AnnounceDonation(u))

FairSpec == Spec /\ Fairness

-----------------------------------------------------------------------------
(***************************************************************************)
(* Properties.                                                             *)
(***************************************************************************)

\* A listing names a claimant exactly while it is claimed or collected: no
\* path of cancel, release, no-show or complete leaves a claim on an open or
\* cancelled listing (db/seed/invariants.ts, "An open listing has a non-null
\* claimer").
ClaimantMatchesStatus ==
  \A l \in Listing :
    row[l].claimedBy # None <=> row[l].status \in {"claimed", "completed"}

\* The claimant is never the seller, and a B2B listing is only ever held by a
\* restaurant, although claim() checks both in an earlier transaction than
\* the one that claims and the listing may be escalated in between.
TakerIsEligible ==
  \A l \in Listing : row[l].claimedBy # None =>
    /\ row[l].claimedBy # row[l].owner
    /\ row[l].channel = "b2b" => row[l].claimedBy \in Restaurants

\* A B2B listing that can still be sold carries its deadline, also after a
\* claim was released or a no-show reopened it: the sweep can always find it
\* when its one-shot job has come and gone.
OpenB2bHasDeadline ==
  \A l \in Listing :
    row[l].status = "open" /\ row[l].channel = "b2b" => row[l].escalateAt # Never

\* The events of one kind, whoever caused them.
Count(l, event) ==
  SumFunctionOnSet(log[l], {[event |-> event, by |-> t] : t \in Tenant \cup {None}})

\* How many claims more than releases and no-shows the log of a listing may
\* have: a cancelled one was held or not.
Unreturned(status) ==
  CASE status \in {"claimed", "completed"} -> {1}
    [] status = "cancelled" -> {0, 1}
    [] OTHER -> {0}

\* The events of a listing account for its row, however requests and worker
\* interleave and whatever they find changed: each that changed the row is there,
\* once, and none that did not. It was created, collected and cancelled as often
\* as its status says, escalated once at most; every claim was given back but the
\* one that still stands, and nobody gave back more than it had claimed. Their
\* order is not told: the timeline sorts them by occurred_at.
LogAccountsForRow ==
  \A l \in Listing :
    /\ row[l].status = "absent" => \A e \in Entry : log[l][e] = 0
    /\ Count(l, "created") = IF row[l].status = "absent" THEN 0 ELSE 1
    /\ Count(l, "collected") = IF row[l].status = "completed" THEN 1 ELSE 0
    /\ Count(l, "cancelled") = IF row[l].status = "cancelled" THEN 1 ELSE 0
    /\ Count(l, "escalated") <= IF row[l].channel = "ngo" THEN 1 ELSE 0
    /\ Count(l, "claimed") - Count(l, "released") - Count(l, "no_show")
         \in Unreturned(row[l].status)
    /\ \A t \in Tenant :
         log[l][[event |-> "released", by |-> t]] + (IF row[l].claimedBy = t THEN 1 ELSE 0)
           <= log[l][[event |-> "claimed", by |-> t]]

(***************************************************************************)
(* The inductive invariant behind these.  A claim that has passed          *)
(* its check stays legitimate until it commits, because nobody changes the *)
(* seller and the channel only moves away from b2b; a held listing keeps   *)
(* the deadline it will need if it is reopened.                            *)
(***************************************************************************)
RowInv(l) ==
  /\ row[l].claimedBy # None <=> row[l].status \in {"claimed", "completed"}
  /\ row[l].claimedBy # None =>
       /\ row[l].claimedBy # row[l].owner
       /\ row[l].channel = "b2b" => row[l].claimedBy \in Restaurants
  /\ row[l].status \in {"open", "claimed"} /\ row[l].channel = "b2b"
       => row[l].escalateAt # Never
  /\ row[l].status = "absent" => row[l].channel = "b2b"

MayStillTake(l, t) ==
  /\ row[l].status # "absent"
  /\ row[l].owner # t
  /\ row[l].channel = "b2b" => t \in Restaurants

MarketInv ==
  /\ \A l \in Listing : RowInv(l)
  /\ \A u \in User : request[u].step = "claim" =>
       MayStillTake(request[u].listing, tenantOf[u])

\* Two racing claims have one winner: a listing never passes from one
\* claimant to another without having been reopened.
NoDirectHandover ==
  [][\A l \in Listing :
       row[l].claimedBy # None => row'[l].claimedBy \in {row[l].claimedBy, None}]_vars

\* A collected or cancelled listing is final: no late request, sweep or
\* one-shot job changes any column of it.
ClosedRowsFrozen ==
  [][\A l \in Listing :
       row[l].status \in {"completed", "cancelled"} => row'[l] = row[l]]_vars

\* A listing changes channel only from b2b to ngo and only while nobody
\* holds it: a sale already agreed never turns into a donation.
ChannelMovesWhileOpen ==
  [][\A l \in Listing :
       row[l].status # "absent" /\ row'[l].channel # row[l].channel =>
         /\ row[l].status = "open"
         /\ row'[l].channel = "ngo"
         /\ row'[l].price = "free"]_vars

\* The handlers and the worker together implement the lifecycle that
\* ListingLifecycle promises, each transaction being one of its steps.
Lifecycle == INSTANCE ListingLifecycle WITH
  phase  <- [l \in Listing |-> row[l].status],
  tier   <- [l \in Listing |-> row[l].channel],
  seller <- [l \in Listing |-> row[l].owner],
  holder <- [l \in Listing |-> row[l].claimedBy]

ImplementsLifecycle == Lifecycle!Spec

\* A B2B listing whose window has closed is escalated, sold or withdrawn,
\* even when its one-shot job was lost, failed or ran while it was claimed.
DueIsResolved ==
  \A l \in Listing :
    (Escalatable(l) /\ row[l].escalateAt <= now)
      ~> ~(Escalatable(l) /\ row[l].escalateAt <= now)

\* README: listing.created (donations) and listing.escalated are fanned out,
\* "so an NGO is actually told": an open donation is announced or goes away.
NgoIsTold ==
  \A l \in Listing :
    (row[l].status = "open" /\ row[l].channel = "ngo")
      ~> (l \in told \/ row[l].status # "open")

\* README: past safe_until the food is waste, "nobody took it": a listing is
\* only claimed while its food is safe.
ClaimedWhileSafe ==
  [][\A l \in Listing :
       row[l].status = "open" /\ row'[l].status = "claimed"
         => now < row[l].safeUntil]_vars
=============================================================================
