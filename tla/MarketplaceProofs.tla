------------------------- MODULE MarketplaceProofs -------------------------
(***************************************************************************)
(* Proofs about Marketplace, for any sets of listings, tenants and users   *)
(* and any bounds.                                                         *)
(***************************************************************************)
EXTENDS Marketplace, FoldTheorems, TLAPS

(***************************************************************************)
(* The transactions keep both tables well formed.                          *)
(***************************************************************************)
TablesOK ==
  /\ row \in [Listing -> Row]
  /\ log \in [Listing -> [Entry -> Nat]]

OwnerTransaction(l, t) ==
  \/ ReleaseListing(l, t)
  \/ \E price \in Prices : UpdateListingPrice(l, t, price)
  \/ UpdateListingPickupWindow(l, t)
  \/ CancelListing(l, t)
  \/ CompleteListing(l, t)
  \/ MarkListingNoShow(l, t)

Transaction(l, t) ==
  EscalateOpenB2b(l) \/ ClaimListing(l, t) \/ OwnerTransaction(l, t)

LEMMA TypeInit == Init => TypeOK
  BY BoundsAssumption
  DEF Init, TypeOK, Row, Status, Entry, Request, Idle, Worker, Resting, Never

LEMMA RecordType ==
  ASSUME NEW l \in Listing, NEW e, NEW t, TablesOK,
         [event |-> e, by |-> t] \in Entry, Record(l, e, t)
  PROVE  log' \in [Listing -> [Entry -> Nat]]
  BY DEF Record, TablesOK

LEMMA EscalateType ==
  ASSUME TablesOK, NEW l \in Listing, EscalateOpenB2b(l)
  PROVE  TablesOK'
<1>1. row \in [Listing -> Row] /\ row[l] \in Row
  BY DEF TablesOK
<1>2. row' \in [Listing -> Row]
  BY <1>1, BoundsAssumption DEF EscalateOpenB2b, Row, Status, Never
<1>3. log' \in [Listing -> [Entry -> Nat]]
  <2>1. [event |-> "escalated", by |-> None] \in Entry BY DEF Entry, Event
  <2>2. Record(l, "escalated", None) BY DEF EscalateOpenB2b
  <2> QED BY <2>1, <2>2, RecordType
<1> QED BY <1>2, <1>3 DEF TablesOK

LEMMA TransactionType ==
  ASSUME TablesOK, NEW l \in Listing, NEW t \in Tenant, Transaction(l, t)
  PROVE  TablesOK'
<1>1. row \in [Listing -> Row] /\ row[l] \in Row
  BY DEF TablesOK
<1>2. CASE EscalateOpenB2b(l)
  BY <1>2, EscalateType
<1>3. CASE ClaimListing(l, t)
  <2>1. row' \in [Listing -> Row]
    BY <1>1, <1>3, BoundsAssumption DEF ClaimListing, Row, Status, Never
  <2>2. log' \in [Listing -> [Entry -> Nat]]
    <3>1. [event |-> "claimed", by |-> t] \in Entry BY DEF Entry, Event
    <3>2. Record(l, "claimed", t) BY <1>3 DEF ClaimListing
    <3> QED BY <3>1, <3>2, RecordType
  <2> QED BY <2>1, <2>2 DEF TablesOK
<1>4. CASE ReleaseListing(l, t)
  <2>1. row' \in [Listing -> Row]
    BY <1>1, <1>4, BoundsAssumption DEF ReleaseListing, Row, Status, Never
  <2>2. log' \in [Listing -> [Entry -> Nat]]
    <3>1. [event |-> "released", by |-> t] \in Entry BY DEF Entry, Event
    <3>2. Record(l, "released", t) BY <1>4 DEF ReleaseListing
    <3> QED BY <3>1, <3>2, RecordType
  <2> QED BY <2>1, <2>2 DEF TablesOK
<1>5. CASE \E price \in Prices : UpdateListingPrice(l, t, price)
  <2>1. row' \in [Listing -> Row]
    BY <1>1, <1>5, BoundsAssumption DEF UpdateListingPrice, Row, Status, Never
  <2>2. log' \in [Listing -> [Entry -> Nat]]
    <3>1. [event |-> "price_updated", by |-> t] \in Entry BY DEF Entry, Event
    <3>2. Record(l, "price_updated", t) BY <1>5 DEF UpdateListingPrice
    <3> QED BY <3>1, <3>2, RecordType
  <2> QED BY <2>1, <2>2 DEF TablesOK
<1>6. CASE UpdateListingPickupWindow(l, t)
  <2>1. row' \in [Listing -> Row]
    BY <1>1, <1>6, BoundsAssumption DEF UpdateListingPickupWindow, Row, Status, Never
  <2>2. log' \in [Listing -> [Entry -> Nat]]
    <3>1. [event |-> "pickup_extended", by |-> t] \in Entry BY DEF Entry, Event
    <3>2. Record(l, "pickup_extended", t) BY <1>6 DEF UpdateListingPickupWindow
    <3> QED BY <3>1, <3>2, RecordType
  <2> QED BY <2>1, <2>2 DEF TablesOK
<1>7. CASE CancelListing(l, t)
  <2>1. row' \in [Listing -> Row]
    BY <1>1, <1>7, BoundsAssumption DEF CancelListing, Row, Status, Never
  <2>2. log' \in [Listing -> [Entry -> Nat]]
    <3>1. [event |-> "cancelled", by |-> t] \in Entry BY DEF Entry, Event
    <3>2. Record(l, "cancelled", t) BY <1>7 DEF CancelListing
    <3> QED BY <3>1, <3>2, RecordType
  <2> QED BY <2>1, <2>2 DEF TablesOK
<1>8. CASE CompleteListing(l, t)
  <2>1. row' \in [Listing -> Row]
    BY <1>1, <1>8, BoundsAssumption DEF CompleteListing, Row, Status, Never
  <2>2. log' \in [Listing -> [Entry -> Nat]]
    <3>1. [event |-> "collected", by |-> t] \in Entry BY DEF Entry, Event
    <3>2. Record(l, "collected", t) BY <1>8 DEF CompleteListing
    <3> QED BY <3>1, <3>2, RecordType
  <2> QED BY <2>1, <2>2 DEF TablesOK
<1>9. CASE MarkListingNoShow(l, t)
  <2>1. row' \in [Listing -> Row]
    BY <1>1, <1>9, BoundsAssumption DEF MarkListingNoShow, Row, Status, Never
  <2>2. log' \in [Listing -> [Entry -> Nat]]
    <3>1. [event |-> "no_show", by |-> t] \in Entry BY DEF Entry, Event
    <3>2. Record(l, "no_show", t) BY <1>9 DEF MarkListingNoShow
    <3> QED BY <3>1, <3>2, RecordType
  <2> QED BY <2>1, <2>2 DEF TablesOK
<1> QED
  BY <1>2, <1>3, <1>4, <1>5, <1>6, <1>7, <1>8, <1>9 DEF Transaction, OwnerTransaction

LEMMA OfferType ==
  ASSUME TablesOK, now \in Nat, NEW u \in User,
         NEW sell \in SUBSET Listing, NEW donate \in SUBSET Listing,
         NEW price \in Prices, NEW safeUntil \in 1..MaxSafe,
         OfferSurplus(u, sell, donate, price, safeUntil)
  PROVE  TablesOK'
<1>1. /\ NewRow(tenantOf[u], "b2b", price, safeUntil) \in Row
      /\ NewRow(tenantOf[u], "ngo", "free", safeUntil) \in Row
  BY BoundsAssumption DEF OfferSurplus, NewRow, Row, Status, Never
<1>2. row' \in [Listing -> Row]
  BY <1>1 DEF OfferSurplus, TablesOK
<1>3. [event |-> "created", by |-> tenantOf[u]] \in Entry
  BY TenantsAssumption DEF Entry, Event
<1>4. log' \in [Listing -> [Entry -> Nat]]
  BY <1>3 DEF OfferSurplus, TablesOK
<1> QED BY <1>2, <1>4 DEF TablesOK

\* What a user's step does to the two tables.
UserTables(u) ==
  \/ \E l \in Listing : OwnerTransaction(l, tenantOf[u])
  \/ /\ request[u].step = "claim"
     /\ ClaimListing(request[u].listing, tenantOf[u])
  \/ UNCHANGED <<row, log>>
  \/ \E sell, donate \in {S \in SUBSET Listing : AtMostOne(S)},
        price \in Prices, safeUntil \in 1..MaxSafe :
       OfferSurplus(u, sell, donate, price, safeUntil)

LEMMA PendingListing ==
  ASSUME TypeOK, NEW u \in User, request[u].step \in {"claim", "release", "patch"}
  PROVE  request[u].listing \in Listing
<1>1. request[u] \in Request BY DEF TypeOK
<1> QED BY <1>1 DEF Request, Idle

LEMMA UserTouches ==
  ASSUME TypeOK, NEW u \in User, UserStep(u)
  PROVE  UserTables(u)
<1>1. CASE \E sell, donate \in {S \in SUBSET Listing : AtMostOne(S)},
              price \in Prices, safeUntil \in 1..MaxSafe :
             OfferSurplus(u, sell, donate, price, safeUntil)
  BY <1>1 DEF UserTables
<1>2. CASE ScheduleEscalation(u) \/ AnnounceDonation(u) \/ LoseRequest(u)
  BY <1>2 DEF ScheduleEscalation, AnnounceDonation, LoseRequest, UserTables
<1>3. CASE \E l \in Listing : CheckClaim(u, l) \/ CheckRelease(u, l)
  BY <1>3 DEF CheckClaim, CheckRelease, UserTables
<1>4. CASE CommitClaim(u)
  BY <1>4, PendingListing DEF CommitClaim, UserTables, OwnerTransaction
<1>5. CASE CommitRelease(u)
  BY <1>5, PendingListing DEF CommitRelease, UserTables, OwnerTransaction
<1>6. CASE \E l \in Listing, price \in Prices, pickupToo \in BOOLEAN :
             PatchPrice(u, l, price, pickupToo)
  BY <1>6 DEF PatchPrice, UserTables, OwnerTransaction
<1>7. CASE PatchPickup(u)
  BY <1>7, PendingListing DEF PatchPickup, UserTables, OwnerTransaction
<1>8. CASE \E l \in Listing : SingleStep(u, l)
  BY <1>8 DEF SingleStep, UserTables, OwnerTransaction
<1> QED
  BY <1>1, <1>2, <1>3, <1>4, <1>5, <1>6, <1>7, <1>8 DEF UserStep

LEMMA UserType ==
  ASSUME TypeOK, NEW u \in User, UserStep(u)
  PROVE  TypeOK'
<1>1. TablesOK'
  <2>1. TablesOK /\ now \in Nat /\ tenantOf[u] \in Tenant
    BY TenantsAssumption DEF TypeOK, TablesOK
  <2>2. CASE \/ \E l \in Listing : OwnerTransaction(l, tenantOf[u])
             \/ /\ request[u].step = "claim"
                /\ ClaimListing(request[u].listing, tenantOf[u])
    BY <2>1, <2>2, PendingListing, TransactionType DEF Transaction
  <2>3. CASE UNCHANGED <<row, log>>
    BY <2>1, <2>3 DEF TablesOK
  <2>4. CASE \E sell, donate \in {S \in SUBSET Listing : AtMostOne(S)},
                price \in Prices, safeUntil \in 1..MaxSafe :
               OfferSurplus(u, sell, donate, price, safeUntil)
    BY <2>1, <2>4, OfferType
  <2> QED BY <2>2, <2>3, <2>4, UserTouches DEF UserTables
<1>2. request' \in [User -> Request] /\ jobs' \in [Listing -> Nat \cup {Never}]
  <2>0. Window \in Nat /\ Idle \in Request BY BoundsAssumption DEF Request
  <2> USE DEF TypeOK, SetRequest
  <2>1. CASE \E sell, donate \in {S \in SUBSET Listing : AtMostOne(S)},
              price \in Prices, safeUntil \in 1..MaxSafe :
             OfferSurplus(u, sell, donate, price, safeUntil)
    BY <2>1, <2>0 DEF OfferSurplus, Request
  <2>2. CASE ScheduleEscalation(u)
    <3>1. request[u].donate \in SUBSET Listing BY DEF Request, Idle
    <3>2. FanOutLeft(request[u].donate) \in Request
      BY <2>0, <3>1 DEF FanOutLeft, Request
    <3>3. now + Window \in Nat BY <2>0
    <3> QED BY <2>2, <3>2, <3>3 DEF ScheduleEscalation
  <2>3. CASE AnnounceDonation(u)
    BY <2>3, <2>0 DEF AnnounceDonation
  <2>4. CASE \E l \in Listing : CheckClaim(u, l)
    BY <2>4, <2>0 DEF CheckClaim, Pending, Request
  <2>5. CASE CommitClaim(u)
    BY <2>5, <2>0 DEF CommitClaim
  <2>6. CASE \E l \in Listing : CheckRelease(u, l)
    BY <2>6, <2>0 DEF CheckRelease, Pending, Request
  <2>7. CASE CommitRelease(u)
    BY <2>7, <2>0 DEF CommitRelease
  <2>8. CASE \E l \in Listing, price \in Prices, pickupToo \in BOOLEAN :
             PatchPrice(u, l, price, pickupToo)
    BY <2>8, <2>0 DEF PatchPrice, Pending, Request
  <2>9. CASE PatchPickup(u)
    BY <2>9, <2>0 DEF PatchPickup
  <2>10. CASE \E l \in Listing : SingleStep(u, l)
    BY <2>10, <2>0 DEF SingleStep
  <2>11. CASE LoseRequest(u)
    BY <2>11, <2>0 DEF LoseRequest
  <2> QED
    BY <2>1, <2>2, <2>3, <2>4, <2>5, <2>6, <2>7, <2>8, <2>9, <2>10, <2>11 DEF UserStep
<1>3. /\ worker' \in Worker
      /\ told' \in SUBSET Listing
      /\ now' \in Nat
      /\ faults' \in Nat
  <2> USE DEF TypeOK
  <2>1. CASE AnnounceDonation(u)
    <3>1. request[u].donate \in SUBSET Listing BY DEF Request, Idle
    <3> QED BY <2>1, <3>1 DEF AnnounceDonation
  <2>2. CASE LoseRequest(u)
    BY <2>2 DEF LoseRequest
  <2>3. CASE UNCHANGED <<worker, told, now, faults>>
    BY <2>3
  <2> QED
    BY <2>1, <2>2, <2>3
    DEF UserStep, OfferSurplus, ScheduleEscalation, CheckClaim, CommitClaim,
        CheckRelease, CommitRelease, PatchPrice, PatchPickup, SingleStep
<1> QED BY <1>1, <1>2, <1>3 DEF TypeOK, TablesOK

\* What a step of the worker or the clock does to the two tables.
WorkerTables ==
  \/ \E l \in Listing : EscalateOpenB2b(l)
  \/ UNCHANGED <<row, log>>

LEMMA WorkerTouches == WorkerStep \/ Tick => WorkerTables
  BY DEF WorkerStep, Tick, StartJob, EscalateNext, StartSweep,
         AnnounceEscalation, FinishTask, FailTask, CrashWorker, WorkerTables

LEMMA WorkerType ==
  ASSUME TypeOK, WorkerStep \/ Tick
  PROVE  TypeOK'
<1>1. TablesOK'
  <2>1. TablesOK BY DEF TypeOK, TablesOK
  <2>2. CASE \E l \in Listing : EscalateOpenB2b(l)
    BY <2>1, <2>2, EscalateType
  <2>3. CASE UNCHANGED <<row, log>>
    BY <2>1, <2>3 DEF TablesOK
  <2> QED BY <2>2, <2>3, WorkerTouches DEF WorkerTables
<1>2. /\ request' = request
      /\ jobs' \in [Listing -> Nat \cup {Never}]
      /\ worker' \in Worker
      /\ told' \in SUBSET Listing
      /\ now' \in Nat
      /\ faults' \in Nat
  <2> USE DEF TypeOK
  <2>1. CASE \E l \in Listing : StartJob(l)
    BY <2>1 DEF StartJob, Worker
  <2>2. CASE \E l \in Listing : EscalateNext(l)
    BY <2>2 DEF EscalateNext, Worker
  <2>3. CASE StartSweep
    BY <2>3 DEF StartSweep, Worker
  <2>4. CASE AnnounceEscalation
    BY <2>4 DEF AnnounceEscalation, Worker
  <2>5. CASE FinishTask \/ FailTask \/ CrashWorker
    BY <2>5 DEF FinishTask, FailTask, CrashWorker, Dequeue, Worker, Resting
  <2>6. CASE Tick
    BY <2>6 DEF Tick
  <2> QED
    BY <2>1, <2>2, <2>3, <2>4, <2>5, <2>6 DEF WorkerStep
<1> QED BY <1>1, <1>2 DEF TypeOK, TablesOK

(***************************************************************************)
(* The typing invariant: rows, logs, requests, jobs and worker keep their  *)
(* shape, whatever the interleaving of users, worker, clock and faults.    *)
(***************************************************************************)
THEOREM TypeCorrect == Spec => []TypeOK
<1>1. TypeOK /\ [Next]_vars => TypeOK'
  <2>1. ASSUME TypeOK, Next PROVE TypeOK'
    BY <2>1, UserType, WorkerType DEF Next
  <2>2. ASSUME TypeOK, UNCHANGED vars PROVE TypeOK'
    BY <2>2 DEF TypeOK, vars
  <2> QED BY <2>1, <2>2
<1> QED BY TypeInit, <1>1, PTL DEF Spec

-----------------------------------------------------------------------------
(***************************************************************************)
(* What any step may do to one row, seen by a request that looked at it    *)
(* earlier: it stays there, with its seller; it becomes a donation only    *)
(* while nobody holds it; nobody else takes it over; closing is final.     *)
(***************************************************************************)
RowMoves(l) ==
  row[l].status # "absent" =>
    /\ row'[l].status # "absent"
    /\ row'[l].owner = row[l].owner
    /\ row'[l].channel # row[l].channel =>
         /\ row[l].status = "open"
         /\ row'[l].channel = "ngo"
         /\ row'[l].price = "free"
    /\ row[l].claimedBy # None => row'[l].claimedBy \in {row[l].claimedBy, None}
    /\ row[l].status \in {"completed", "cancelled"} => row'[l] = row[l]

LEMMA TransactionInv ==
  ASSUME TypeOK, NEW l \in Listing, NEW t \in Tenant, NEW k \in Listing,
         RowInv(k),
         \/ EscalateOpenB2b(l)
         \/ OwnerTransaction(l, t)
         \/ ClaimListing(l, t) /\ MayStillTake(l, t)
  PROVE  RowInv(k)' /\ RowMoves(k)
<1>1. row \in [Listing -> Row] /\ row[l] \in Row /\ row[k] \in Row /\ t # None
  BY TenantsAssumption DEF TypeOK
<1>2. CASE l # k
  <2>1. row'[k] = row[k]
    BY <1>1, <1>2
    DEF OwnerTransaction, EscalateOpenB2b, ClaimListing,
        ReleaseListing, UpdateListingPrice, UpdateListingPickupWindow,
        CancelListing, CompleteListing, MarkListingNoShow
  <2> QED BY <2>1 DEF RowInv, RowMoves
<1>3. CASE l = k
  <2> USE <1>1, <1>3 DEF RowInv, RowMoves, Row, Never
  <2>1. CASE EscalateOpenB2b(l)
    BY <2>1 DEF EscalateOpenB2b, Escalatable
  <2>2. CASE ClaimListing(l, t) /\ MayStillTake(l, t)
    BY <2>2 DEF ClaimListing, Claimable, MayStillTake
  <2>3. CASE ReleaseListing(l, t)
    BY <2>3 DEF ReleaseListing, Releasable
  <2>4. CASE \E price \in Prices : UpdateListingPrice(l, t, price)
    BY <2>4 DEF UpdateListingPrice, Editable
  <2>5. CASE UpdateListingPickupWindow(l, t)
    BY <2>5 DEF UpdateListingPickupWindow
  <2>6. CASE CancelListing(l, t)
    BY <2>6 DEF CancelListing, Editable
  <2>7. CASE CompleteListing(l, t)
    BY <2>7 DEF CompleteListing, MayComplete
  <2>8. CASE MarkListingNoShow(l, t)
    BY <2>8 DEF MarkListingNoShow
  <2> QED
    BY <2>1, <2>2, <2>3, <2>4, <2>5, <2>6, <2>7, <2>8
    DEF OwnerTransaction
<1> QED BY <1>2, <1>3

LEMMA OfferInv ==
  ASSUME TypeOK, NEW u \in User,
         NEW sell \in SUBSET Listing, NEW donate \in SUBSET Listing,
         NEW price \in Prices, NEW safeUntil \in 1..MaxSafe,
         OfferSurplus(u, sell, donate, price, safeUntil),
         NEW k \in Listing, RowInv(k)
  PROVE  RowInv(k)' /\ RowMoves(k)
<1>1. /\ now + Window # Never
      /\ now \in Nat
  BY BoundsAssumption DEF TypeOK, Never
<1>2. CASE k \in sell \cup donate
  <2>1. row[k].status = "absent" BY <1>2 DEF OfferSurplus
  <2>2. \/ row'[k] = NewRow(tenantOf[u], "b2b", price, safeUntil)
        \/ row'[k] = NewRow(tenantOf[u], "ngo", "free", safeUntil)
    BY <1>2 DEF OfferSurplus
  <2>3. RowMoves(k) BY <2>1 DEF RowMoves
  <2>4. RowInv(k)'
    BY <1>1, <2>2 DEF RowInv, NewRow
  <2> QED BY <2>3, <2>4
<1>3. CASE k \notin sell \cup donate
  <2>1. row'[k] = row[k] BY <1>3 DEF OfferSurplus
  <2> QED BY <2>1 DEF RowInv, RowMoves
<1> QED BY <1>2, <1>3

LEMMA UserRows ==
  ASSUME TypeOK, MarketInv, NEW u \in User, UserStep(u), NEW k \in Listing
  PROVE  RowInv(k)' /\ RowMoves(k)
<1>1. tenantOf[u] \in Tenant /\ RowInv(k) BY TenantsAssumption DEF MarketInv
<1>2. CASE \E l \in Listing : OwnerTransaction(l, tenantOf[u])
  <2>1. PICK l \in Listing : OwnerTransaction(l, tenantOf[u]) BY <1>2
  <2> QED BY <1>1, <2>1, TransactionInv
<1>3. CASE /\ request[u].step = "claim"
           /\ ClaimListing(request[u].listing, tenantOf[u])
  <2>1. MayStillTake(request[u].listing, tenantOf[u]) BY <1>3 DEF MarketInv
  <2>2. request[u].listing \in Listing BY <1>3, PendingListing
  <2> QED BY <1>1, <1>3, <2>1, <2>2, TransactionInv
<1>4. CASE UNCHANGED <<row, log>>
  BY <1>1, <1>4 DEF RowInv, RowMoves
<1>5. CASE \E sell, donate \in {S \in SUBSET Listing : AtMostOne(S)},
              price \in Prices, safeUntil \in 1..MaxSafe :
             OfferSurplus(u, sell, donate, price, safeUntil)
  BY <1>1, <1>5, OfferInv
<1> QED BY <1>2, <1>3, <1>4, <1>5, UserTouches DEF UserTables

LEMMA WorkerRows ==
  ASSUME TypeOK, MarketInv, WorkerStep \/ Tick, NEW k \in Listing
  PROVE  RowInv(k)' /\ RowMoves(k)
<1>1. RowInv(k) BY DEF MarketInv
<1>2. CASE UNCHANGED <<row, log>>
  BY <1>1, <1>2 DEF RowInv, RowMoves
<1>3. CASE \E l \in Listing : EscalateOpenB2b(l)
  <2>1. PICK l \in Listing : EscalateOpenB2b(l) BY <1>3
  <2>2. row \in [Listing -> Row] /\ row[l] \in Row /\ row[k] \in Row
    BY DEF TypeOK
  <2> QED
    BY <1>1, <2>1, <2>2
    DEF EscalateOpenB2b, Escalatable, RowInv, RowMoves, Row, Never
<1> QED BY <1>2, <1>3, WorkerTouches DEF WorkerTables

\* A request is a claim after a step because it was one, or just became one.
LEMMA ClaimRequests ==
  ASSUME TypeOK, NEW u \in User, UserStep(u), NEW v \in User,
         request'[v].step = "claim"
  PROVE  \/ request'[v] = request[v]
         \/ \E l \in Listing : /\ request'[v] = Pending("claim", l)
                               /\ v = u
                               /\ MayClaim(l, tenantOf[u])
                               /\ UNCHANGED row
<1> USE DEF TypeOK, SetRequest
<1>1. CASE u # v
  BY <1>1
  DEF UserStep, OfferSurplus, ScheduleEscalation, AnnounceDonation, CheckClaim,
      CommitClaim, CheckRelease, CommitRelease, PatchPrice, PatchPickup,
      SingleStep, LoseRequest
<1>2. CASE u = v
  <2>1. CASE \E l \in Listing : CheckClaim(u, l)
    BY <1>2, <2>1 DEF CheckClaim
  <2>2. CASE \E l \in Listing : SingleStep(u, l)
    BY <2>2 DEF SingleStep
  <2>3. CASE \E sell, donate \in {S \in SUBSET Listing : AtMostOne(S)},
                price \in Prices, safeUntil \in 1..MaxSafe :
               OfferSurplus(u, sell, donate, price, safeUntil)
    BY <1>2, <2>3 DEF OfferSurplus
  <2>4. CASE ScheduleEscalation(u)
    BY <1>2, <2>4 DEF ScheduleEscalation, FanOutLeft, Idle
  <2>5. CASE \E l \in Listing : CheckRelease(u, l)
    BY <1>2, <2>5 DEF CheckRelease, Pending
  <2>6. CASE \E l \in Listing, price \in Prices, pickupToo \in BOOLEAN :
               PatchPrice(u, l, price, pickupToo)
    BY <1>2, <2>6 DEF PatchPrice, Pending, Idle
  <2>7. CASE \/ AnnounceDonation(u) \/ CommitClaim(u) \/ CommitRelease(u)
             \/ PatchPickup(u) \/ LoseRequest(u)
    BY <1>2, <2>7
    DEF AnnounceDonation, CommitClaim, CommitRelease, PatchPickup,
        LoseRequest, Idle
  <2> QED BY <2>1, <2>2, <2>3, <2>4, <2>5, <2>6, <2>7 DEF UserStep
<1> QED BY <1>1, <1>2

LEMMA MarketInit == Init => MarketInv
  BY DEF Init, MarketInv, RowInv, Idle

LEMMA MarketUserStep ==
  ASSUME TypeOK, MarketInv, NEW u \in User, UserStep(u)
  PROVE  MarketInv'
<1>1. \A k \in Listing : RowInv(k)' /\ RowMoves(k) BY UserRows
<1>2. ASSUME NEW v \in User, request'[v].step = "claim"
      PROVE  MayStillTake(request[v].listing, tenantOf[v])'
  <2>0. tenantOf[v] \in Tenant BY TenantsAssumption
  <2>1. CASE request'[v] = request[v]
    <3>1. request[v].listing \in Listing BY <1>2, <2>1, PendingListing
    <3>2. MayStillTake(request[v].listing, tenantOf[v])
      BY <1>2, <2>1 DEF MarketInv
    <3>3. MayStillTake(request[v].listing, tenantOf[v])
            /\ RowMoves(request[v].listing)
      BY <1>1, <3>1, <3>2
    <3> QED BY <2>0, <2>1, <3>1, <3>3 DEF MayStillTake, RowMoves
  <2>2. CASE \E l \in Listing : /\ request'[v] = Pending("claim", l)
                                /\ v = u
                                /\ MayClaim(l, tenantOf[u])
                                /\ UNCHANGED row
    BY <2>2 DEF MayClaim, Claimable, MayStillTake, Pending
  <2> QED BY <1>2, <2>1, <2>2, ClaimRequests
<1> QED BY <1>1, <1>2 DEF MarketInv

LEMMA MarketWorkerStep ==
  ASSUME TypeOK, MarketInv, WorkerStep \/ Tick
  PROVE  MarketInv'
<1>1. \A k \in Listing : RowInv(k)' /\ RowMoves(k) BY WorkerRows
<1>2. request' = request
  BY DEF WorkerStep, Tick, StartJob, EscalateNext, StartSweep,
         AnnounceEscalation, FinishTask, FailTask, CrashWorker
<1>3. ASSUME NEW v \in User, request'[v].step = "claim"
      PROVE  MayStillTake(request[v].listing, tenantOf[v])'
  <2>1. request[v].listing \in Listing BY <1>2, <1>3, PendingListing
  <2>2. MayStillTake(request[v].listing, tenantOf[v])
    BY <1>2, <1>3 DEF MarketInv
  <2> QED BY <1>1, <1>2, <2>1, <2>2 DEF MayStillTake, RowMoves
<1> QED BY <1>1, <1>3 DEF MarketInv

LEMMA MarketStep == TypeOK /\ MarketInv /\ [Next]_vars => MarketInv'
<1>1. ASSUME TypeOK, MarketInv, Next PROVE MarketInv'
  BY <1>1, MarketUserStep, MarketWorkerStep DEF Next
<1>2. ASSUME MarketInv, UNCHANGED vars PROVE MarketInv'
  BY <1>2 DEF MarketInv, RowInv, MayStillTake, vars
<1> QED BY <1>1, <1>2

(***************************************************************************)
(* The inductive invariant of the marketplace: a claim whose check passed  *)
(* stays legitimate until it commits, however many transactions of others  *)
(* run in between.                                                         *)
(***************************************************************************)
THEOREM MarketInvariant == Spec => []MarketInv
  BY TypeCorrect, MarketInit, MarketStep, PTL DEF Spec

(***************************************************************************)
(* No path of the code leaves a claim on an open or cancelled listing, nor *)
(* a claimed one without its claimant.                                     *)
(***************************************************************************)
THEOREM ClaimantFollowsStatus == Spec => []ClaimantMatchesStatus
<1>1. MarketInv => ClaimantMatchesStatus
  BY DEF MarketInv, RowInv, ClaimantMatchesStatus
<1> QED BY MarketInvariant, <1>1, PTL

(***************************************************************************)
(* claim()'s eligibility check holds at the commit, one transaction later. *)
(***************************************************************************)
THEOREM TakersAreEligible == Spec => []TakerIsEligible
<1>1. MarketInv => TakerIsEligible
  BY DEF MarketInv, RowInv, TakerIsEligible
<1> QED BY MarketInvariant, <1>1, PTL

(***************************************************************************)
(* Whatever can still be sold keeps the deadline the sweep looks for.      *)
(***************************************************************************)
THEOREM OpenSalesKeepDeadline == Spec => []OpenB2bHasDeadline
<1>1. MarketInv => OpenB2bHasDeadline
  BY DEF MarketInv, RowInv, OpenB2bHasDeadline
<1> QED BY MarketInvariant, <1>1, PTL

-----------------------------------------------------------------------------
\* Every step treats every row as RowMoves says.
LEMMA RowsMove ==
  ASSUME TypeOK, MarketInv, [Next]_vars, NEW k \in Listing
  PROVE  RowMoves(k)
<1>1. CASE Next BY <1>1, UserRows, WorkerRows DEF Next
<1>2. CASE UNCHANGED vars BY <1>2 DEF vars, RowMoves
<1> QED BY <1>1, <1>2

(***************************************************************************)
(* Of two racing claims one wins, and the loser never takes over.          *)
(***************************************************************************)
THEOREM OneWinner == Spec => NoDirectHandover
<1>1. ASSUME TypeOK, MarketInv, [Next]_vars, NEW k \in Listing,
             row[k].claimedBy # None
      PROVE  row'[k].claimedBy \in {row[k].claimedBy, None}
  BY <1>1, RowsMove DEF MarketInv, RowInv, RowMoves
<1>2. TypeOK /\ MarketInv /\ [Next]_vars => [\A l \in Listing :
       row[l].claimedBy # None => row'[l].claimedBy \in {row[l].claimedBy, None}]_vars
  BY <1>1
<1> QED BY <1>2, TypeCorrect, MarketInvariant, PTL DEF Spec, NoDirectHandover

(***************************************************************************)
(* Collected and cancelled listings are final.                             *)
(***************************************************************************)
THEOREM ClosingIsFinal == Spec => ClosedRowsFrozen
<1>1. ASSUME TypeOK, MarketInv, [Next]_vars, NEW k \in Listing,
             row[k].status \in {"completed", "cancelled"}
      PROVE  row'[k] = row[k]
  BY <1>1, RowsMove DEF RowMoves
<1>2. TypeOK /\ MarketInv /\ [Next]_vars => [\A l \in Listing :
       row[l].status \in {"completed", "cancelled"} => row'[l] = row[l]]_vars
  BY <1>1
<1> QED BY <1>2, TypeCorrect, MarketInvariant, PTL DEF Spec, ClosedRowsFrozen

(***************************************************************************)
(* An agreed sale never turns into a donation.                             *)
(***************************************************************************)
THEOREM SalesStaySales == Spec => ChannelMovesWhileOpen
<1>1. ASSUME TypeOK, MarketInv, [Next]_vars, NEW k \in Listing,
             row[k].status # "absent", row'[k].channel # row[k].channel
      PROVE  /\ row[k].status = "open"
             /\ row'[k].channel = "ngo"
             /\ row'[k].price = "free"
  BY <1>1, RowsMove DEF RowMoves
<1>2. TypeOK /\ MarketInv /\ [Next]_vars => [\A l \in Listing :
       row[l].status # "absent" /\ row'[l].channel # row[l].channel =>
         /\ row[l].status = "open"
         /\ row'[l].channel = "ngo"
         /\ row'[l].price = "free"]_vars
  BY <1>1
<1> QED BY <1>2, TypeCorrect, MarketInvariant, PTL DEF Spec, ChannelMovesWhileOpen

-----------------------------------------------------------------------------
(***************************************************************************)
(* The refinement, one transaction at a time.                              *)
(***************************************************************************)
LEMMA TransactionRefines ==
  ASSUME TypeOK, NEW l \in Listing, NEW t \in Tenant,
         \/ EscalateOpenB2b(l)
         \/ OwnerTransaction(l, t)
         \/ ClaimListing(l, t) /\ MayStillTake(l, t)
  PROVE  [Lifecycle!Next]_(Lifecycle!vars)
<1>1. row \in [Listing -> Row] /\ row[l] \in Row
  BY DEF TypeOK
<1> USE <1>1 DEF Lifecycle!Next, Row
<1>2. CASE EscalateOpenB2b(l)
  <2>1. Lifecycle!Escalate(l)
    BY <1>2 DEF EscalateOpenB2b, Escalatable, Lifecycle!Escalate
  <2> QED BY <2>1
<1>3. CASE ClaimListing(l, t) /\ MayStillTake(l, t)
  <2>1. Lifecycle!Take(l, t)
    BY <1>3 DEF ClaimListing, Claimable, MayStillTake, Lifecycle!Take,
                Lifecycle!Eligible
  <2> QED BY <2>1 DEF Tenant
<1>4. CASE ReleaseListing(l, t) \/ MarkListingNoShow(l, t)
  <2>1. /\ row[l].status = "claimed"
        /\ row' = [row EXCEPT ![l].claimedBy = None, ![l].status = "open"]
    BY <1>4 DEF ReleaseListing, Releasable, MarkListingNoShow
  <2>2. Lifecycle!GiveBack(l)
    BY <2>1 DEF Lifecycle!GiveBack
  <2> QED BY <2>2
<1>5. CASE \/ UpdateListingPickupWindow(l, t)
           \/ \E price \in Prices : UpdateListingPrice(l, t, price)
  <2>1. UNCHANGED Lifecycle!vars
    BY <1>5 DEF UpdateListingPrice, UpdateListingPickupWindow, Lifecycle!vars
  <2> QED BY <2>1
<1>6. CASE CancelListing(l, t)
  <2>1. Lifecycle!Withdraw(l)
    BY <1>6 DEF CancelListing, Editable, Lifecycle!Withdraw
  <2> QED BY <2>1
<1>7. CASE CompleteListing(l, t)
  <2>1. Lifecycle!Collect(l)
    BY <1>7 DEF CompleteListing, MayComplete, Lifecycle!Collect
  <2> QED BY <2>1
<1> QED
  BY <1>2, <1>3, <1>4, <1>5, <1>6, <1>7 DEF OwnerTransaction

LEMMA OfferRefines ==
  ASSUME TypeOK, MarketInv, NEW u \in User,
         NEW sell \in SUBSET Listing, NEW donate \in SUBSET Listing,
         NEW price \in Prices, NEW safeUntil \in 1..MaxSafe,
         OfferSurplus(u, sell, donate, price, safeUntil)
  PROVE  Lifecycle!Next
<1>1. \A l \in sell \cup donate :
        row[l].claimedBy = None /\ row[l].channel = "b2b"
  BY DEF OfferSurplus, MarketInv, RowInv
<1>2. Lifecycle!Offer(tenantOf[u], sell, donate)
  BY <1>1 DEF OfferSurplus, NewRow, Lifecycle!Offer
<1>3. tenantOf[u] \in Restaurants BY DEF OfferSurplus
<1> QED BY <1>2, <1>3 DEF Lifecycle!Next

LEMMA StepRefines ==
  ASSUME TypeOK, MarketInv, [Next]_vars
  PROVE  [Lifecycle!Next]_(Lifecycle!vars)
<1>1. CASE UNCHANGED row
  BY <1>1 DEF Lifecycle!vars
<1>2. CASE \E u \in User : UserStep(u)
  <2>1. PICK u \in User : UserStep(u) BY <1>2
  <2>2. tenantOf[u] \in Tenant /\ UserTables(u)
    BY <2>1, UserTouches, TenantsAssumption
  <2>3. CASE /\ request[u].step = "claim"
             /\ ClaimListing(request[u].listing, tenantOf[u])
    <3>1. MayStillTake(request[u].listing, tenantOf[u]) BY <2>3 DEF MarketInv
    <3>2. request[u].listing \in Listing BY <2>3, PendingListing
    <3> QED BY <2>2, <2>3, <3>1, <3>2, TransactionRefines
  <2>4. CASE \E l \in Listing : OwnerTransaction(l, tenantOf[u])
    BY <2>2, <2>4, TransactionRefines
  <2>5. CASE \E sell, donate \in {S \in SUBSET Listing : AtMostOne(S)},
                price \in Prices, safeUntil \in 1..MaxSafe :
               OfferSurplus(u, sell, donate, price, safeUntil)
    BY <2>5, OfferRefines
  <2> QED BY <1>1, <2>2, <2>3, <2>4, <2>5 DEF UserTables
<1>3. CASE WorkerStep \/ Tick
  <2>1. CASE \E l \in Listing : EscalateOpenB2b(l)
    <3>1. PICK l \in Listing : EscalateOpenB2b(l) BY <2>1
    <3>2. row \in [Listing -> Row] /\ row[l] \in Row BY DEF TypeOK
    <3>3. Lifecycle!Escalate(l)
      BY <3>1, <3>2 DEF EscalateOpenB2b, Escalatable, Row, Lifecycle!Escalate
    <3> QED BY <3>3 DEF Lifecycle!Next
  <2> QED BY <1>1, <1>3, <2>1, WorkerTouches DEF WorkerTables
<1> QED BY <1>1, <1>2, <1>3 DEF Next, vars

(***************************************************************************)
(* Handlers and worker together implement the lifecycle of                 *)
(* ListingLifecycle: every transaction is one of its steps, and nothing    *)
(* else the code does is visible in it.                                    *)
(***************************************************************************)
THEOREM MarketplaceImplementsLifecycle == Spec => ImplementsLifecycle
<1>1. Init => Lifecycle!Init
  BY DEF Init, Lifecycle!Init
<1> QED
  BY <1>1, StepRefines, TypeCorrect, MarketInvariant, PTL
  DEF Spec, ImplementsLifecycle, Lifecycle!Spec

-----------------------------------------------------------------------------
(***************************************************************************)
(* The events.  Each transaction adds one, and so moves one of the counts. *)
(***************************************************************************)
EventsOf(event) == {[event |-> event, by |-> t] : t \in Tenant \cup {None}}

LEMMA EventsFinite ==
  ASSUME NEW event \in Event
  PROVE  EventsOf(event) \in SUBSET Entry /\ IsFiniteSet(EventsOf(event))
<1> DEFINE f == [t \in Tenant \cup {None} |-> [event |-> event, by |-> t]]
<1>1. IsFiniteSet(Tenant \cup {None})
  BY FS_AddElement, TenantsAssumption
<1>2. f \in Surjection(Tenant \cup {None}, EventsOf(event))
  BY DEF Surjection, EventsOf
<1>3. IsFiniteSet(EventsOf(event))
  BY <1>1, <1>2, FS_Surjection
<1> QED BY <1>3 DEF EventsOf, Entry

\* One event more counts as one more of its kind.
LEMMA OneMore ==
  ASSUME NEW f \in [Entry -> Nat], NEW e \in Entry, NEW event \in Event
  PROVE  LET g == [f EXCEPT ![e] = @ + 1]
         IN  /\ SumFunctionOnSet(f, EventsOf(event)) \in Nat
             /\ SumFunctionOnSet(g, EventsOf(event)) =
                  SumFunctionOnSet(f, EventsOf(event)) + (IF event = e.event THEN 1 ELSE 0)
<1> DEFINE S == EventsOf(event)
<1>0. PICK g : g = [f EXCEPT ![e] = @ + 1] OBVIOUS
<1>1. IsFiniteSet(S) /\ S \in SUBSET Entry BY EventsFinite
<1>2. /\ \A x \in S : f[x] \in Nat /\ f[x] \in Int
      /\ g[e] = f[e] + 1 /\ f[e] \in Nat
      /\ \A x \in S \ {e} : g[x] = f[x]
  BY <1>0, <1>1
<1>3. SumFunctionOnSet(f, S) \in Nat BY <1>1, <1>2, SumNat
<1>4. CASE event = e.event
  <2>1. e \in S BY <1>4 DEF EventsOf, Entry
  <2> HIDE DEF S
  <2>2. SumFunctionOnSet(g, S) = SumFunctionOnSet(f, S) - f[e] + g[e]
    BY <1>1, <1>2, <2>1, SumChange
  <2> QED BY <1>0, <1>2, <1>3, <1>4, <2>2 DEF S
<1>5. CASE event # e.event
  <2>1. e \notin S BY <1>5 DEF EventsOf
  <2> HIDE DEF S
  <2>2. \A x \in S : f[x] \in Int /\ g[x] = f[x] BY <1>2, <2>1
  <2>3. SumFunctionOnSet(g, S) = SumFunctionOnSet(f, S)
    BY <1>1, <2>2, SumSame
  <2> QED BY <1>0, <1>3, <1>5, <2>3 DEF S
<1> QED BY <1>4, <1>5

LEMMA CountType ==
  ASSUME TypeOK, NEW l \in Listing, NEW event \in Event
  PROVE  Count(l, event) \in Nat
<1>1. IsFiniteSet(EventsOf(event)) /\ EventsOf(event) \in SUBSET Entry
  BY EventsFinite
<1>2. \A x \in EventsOf(event) : log[l][x] \in Nat BY <1>1 DEF TypeOK
<1>3. SumFunctionOnSet(log[l], EventsOf(event)) \in Nat BY <1>1, <1>2, SumNat
<1> QED BY <1>3 DEF Count, EventsOf

\* What the events of one listing account for.
Accounts(l) ==
  /\ row[l].status = "absent" => \A e \in Entry : log[l][e] = 0
  /\ Count(l, "created") = IF row[l].status = "absent" THEN 0 ELSE 1
  /\ Count(l, "collected") = IF row[l].status = "completed" THEN 1 ELSE 0
  /\ Count(l, "cancelled") = IF row[l].status = "cancelled" THEN 1 ELSE 0
  /\ Count(l, "escalated") <= IF row[l].channel = "ngo" THEN 1 ELSE 0
  /\ Count(l, "claimed") - Count(l, "released") - Count(l, "no_show")
       \in Unreturned(row[l].status)
  /\ \A t \in Tenant :
       log[l][[event |-> "released", by |-> t]] + (IF row[l].claimedBy = t THEN 1 ELSE 0)
         <= log[l][[event |-> "claimed", by |-> t]]

\* The counts that Accounts speaks of after one event more, and its entries.
Counted(l, e, by) ==
  /\ \A event \in Event :
       /\ Count(l, event) \in Nat
       /\ Count(l, event)' = Count(l, event) + (IF event = e THEN 1 ELSE 0)
  /\ \A event \in Event, t \in Tenant :
       /\ log[l][[event |-> event, by |-> t]] \in Nat
       /\ log'[l][[event |-> event, by |-> t]] =
            log[l][[event |-> event, by |-> t]] + (IF event = e /\ t = by THEN 1 ELSE 0)

LEMMA RecordCounts ==
  ASSUME TypeOK, NEW l \in Listing, NEW e \in Event, NEW by \in Tenant \cup {None},
         log'[l] = [log[l] EXCEPT ![[event |-> e, by |-> by]] = @ + 1]
  PROVE  Counted(l, e, by)
<1> DEFINE new == [event |-> e, by |-> by]
<1>1. new \in Entry /\ new.event = e /\ log[l] \in [Entry -> Nat]
  BY DEF Entry, Event, TypeOK
<1>2. ASSUME NEW event \in Event
      PROVE  /\ Count(l, event) \in Nat
             /\ Count(l, event)' = Count(l, event) + (IF event = e THEN 1 ELSE 0)
  BY <1>1, OneMore DEF Count, EventsOf
<1>3. ASSUME NEW event \in Event, NEW t \in Tenant
      PROVE  /\ log[l][[event |-> event, by |-> t]] \in Nat
             /\ log'[l][[event |-> event, by |-> t]] =
                  log[l][[event |-> event, by |-> t]] + (IF event = e /\ t = by THEN 1 ELSE 0)
  <2>1. [event |-> event, by |-> t] \in Entry BY DEF Entry, Event
  <2> QED BY <1>1, <2>1
<1> QED BY <1>2, <1>3 DEF Counted

LEMMA TransactionAccounts ==
  ASSUME TypeOK, MarketInv, NEW l \in Listing, Accounts(l),
         NEW t \in Tenant \cup {None}, Transaction(l, t),
         t = None => EscalateOpenB2b(l)
  PROVE  Accounts(l)'
<1>1. /\ row \in [Listing -> Row] /\ row[l] \in Row /\ RowInv(l)
      /\ log \in [Listing -> [Entry -> Nat]]
  BY DEF TypeOK, MarketInv
<1>2. ASSUME NEW e \in Event, NEW by \in Tenant \cup {None}, Record(l, e, by)
      PROVE  Counted(l, e, by)
  <2>1. log'[l] = [log[l] EXCEPT ![[event |-> e, by |-> by]] = @ + 1]
    BY <1>1, <1>2 DEF Record
  <2> QED BY <2>1, RecordCounts
<1>3. {"created", "collected", "cancelled", "escalated", "claimed", "released",
       "no_show", "price_updated", "pickup_extended"} \subseteq Event
  BY DEF Event
<1> USE <1>3 DEF Accounts, Counted, Unreturned
<1>4. CASE EscalateOpenB2b(l)
  <2>1. Counted(l, "escalated", None) BY <1>2, <1>4 DEF EscalateOpenB2b
  <2>2. /\ row[l].status = "open" /\ row'[l].status = "open"
        /\ row[l].channel = "b2b" /\ row'[l].channel = "ngo"
        /\ row'[l].claimedBy = row[l].claimedBy
    BY <1>1, <1>4 DEF EscalateOpenB2b, Escalatable, Row
  <2> QED BY <2>1, <2>2, TenantsAssumption
<1>5. CASE ClaimListing(l, t)
  <2>1. Counted(l, "claimed", t) BY <1>2, <1>5 DEF ClaimListing
  <2>2. /\ row[l].status = "open" /\ row'[l].status = "claimed"
        /\ row'[l].channel = row[l].channel
        /\ row[l].claimedBy = None /\ row'[l].claimedBy = t
    BY <1>1, <1>5 DEF ClaimListing, Claimable, Row
  <2> QED BY <2>1, <2>2, TenantsAssumption
<1>6. CASE ReleaseListing(l, t)
  <2>1. Counted(l, "released", t) BY <1>2, <1>6 DEF ReleaseListing
  <2>2. /\ row[l].status = "claimed" /\ row'[l].status = "open"
        /\ row'[l].channel = row[l].channel
        /\ row[l].claimedBy = t /\ row'[l].claimedBy = None
    BY <1>1, <1>6 DEF ReleaseListing, Releasable, Row
  <2> QED BY <2>1, <2>2, TenantsAssumption
<1>7. CASE \E price \in Prices : UpdateListingPrice(l, t, price)
  <2>1. Counted(l, "price_updated", t) BY <1>2, <1>7 DEF UpdateListingPrice
  <2>2. /\ row[l].status \in {"open", "claimed"} /\ row'[l].status = row[l].status
        /\ row'[l].channel = row[l].channel /\ row'[l].claimedBy = row[l].claimedBy
    BY <1>1, <1>7 DEF UpdateListingPrice, Editable, Row
  <2> QED BY <2>1, <2>2
<1>8. CASE UpdateListingPickupWindow(l, t)
  <2>1. Counted(l, "pickup_extended", t) BY <1>2, <1>8 DEF UpdateListingPickupWindow
  <2>2. row[l].status \in {"open", "claimed"} /\ row' = row
    BY <1>8 DEF UpdateListingPickupWindow, Editable
  <2> QED BY <2>1, <2>2
<1>9. CASE CancelListing(l, t)
  <2>1. Counted(l, "cancelled", t) BY <1>2, <1>9 DEF CancelListing
  <2>2. /\ row[l].status \in {"open", "claimed"} /\ row'[l].status = "cancelled"
        /\ row'[l].channel = row[l].channel /\ row'[l].claimedBy = None
    BY <1>1, <1>9 DEF CancelListing, Editable, Row
  <2> QED BY <2>1, <2>2, TenantsAssumption
<1>10. CASE CompleteListing(l, t)
  <2>1. Counted(l, "collected", t) BY <1>2, <1>10 DEF CompleteListing
  <2>2. /\ row[l].status = "claimed" /\ row'[l].status = "completed"
        /\ row'[l].channel = row[l].channel /\ row'[l].claimedBy = row[l].claimedBy
    BY <1>1, <1>10 DEF CompleteListing, MayComplete, Row
  <2> QED BY <2>1, <2>2
<1>11. CASE MarkListingNoShow(l, t)
  <2>1. Counted(l, "no_show", t) BY <1>2, <1>11 DEF MarkListingNoShow
  <2>2. /\ row[l].status = "claimed" /\ row'[l].status = "open"
        /\ row'[l].channel = row[l].channel /\ row'[l].claimedBy = None
    BY <1>1, <1>11 DEF MarkListingNoShow, Row
  <2> QED BY <2>1, <2>2, TenantsAssumption
<1> QED
  BY <1>4, <1>5, <1>6, <1>7, <1>8, <1>9, <1>10, <1>11
  DEF Transaction, OwnerTransaction

\* A transaction leaves the other listings and their events alone.
LEMMA OthersUntouched ==
  ASSUME TypeOK, NEW l \in Listing, NEW t, Transaction(l, t),
         NEW k \in Listing \ {l}
  PROVE  row'[k] = row[k] /\ log'[k] = log[k]
<1>1. row' = row \/ row'[k] = row[k]
  BY DEF TypeOK, Transaction, OwnerTransaction, EscalateOpenB2b, ClaimListing,
         ReleaseListing, UpdateListingPrice, UpdateListingPickupWindow,
         CancelListing, CompleteListing, MarkListingNoShow
<1>2. \E e, by : Record(l, e, by)
  BY DEF Transaction, OwnerTransaction, EscalateOpenB2b, ClaimListing,
         ReleaseListing, UpdateListingPrice, UpdateListingPickupWindow,
         CancelListing, CompleteListing, MarkListingNoShow
<1>3. log'[k] = log[k] BY <1>2 DEF Record, TypeOK
<1> QED BY <1>1, <1>3

LEMMA AccountsStay ==
  ASSUME NEW k \in Listing, Accounts(k), row'[k] = row[k], log'[k] = log[k]
  PROVE  Accounts(k)'
<1>1. \A event : Count(k, event)' = Count(k, event) BY DEF Count
<1> QED BY <1>1 DEF Accounts

LEMMA OfferAccounts ==
  ASSUME TypeOK, MarketInv, NEW u \in User,
         NEW sell \in SUBSET Listing, NEW donate \in SUBSET Listing,
         NEW price \in Prices, NEW safeUntil \in 1..MaxSafe,
         OfferSurplus(u, sell, donate, price, safeUntil),
         NEW k \in Listing, Accounts(k)
  PROVE  Accounts(k)'
<1>1. CASE k \in sell \cup donate
  <2>1. /\ row[k].status = "absent" /\ row[k].claimedBy = None
        /\ row[k].channel = "b2b"
    BY <1>1 DEF OfferSurplus, MarketInv, RowInv
  <2>2. log'[k] = [log[k] EXCEPT ![[event |-> "created", by |-> tenantOf[u]]] = @ + 1]
    BY <1>1 DEF OfferSurplus
  <2>3. tenantOf[u] \in Tenant /\ "created" \in Event
    BY TenantsAssumption DEF Event
  <2>4. Counted(k, "created", tenantOf[u]) BY <2>2, <2>3, RecordCounts
  <2>5. /\ row'[k].status = "open" /\ row'[k].claimedBy = None
        /\ row'[k].channel \in {"b2b", "ngo"}
    BY <1>1 DEF OfferSurplus, NewRow
  <2>6. {"collected", "cancelled", "escalated", "claimed", "released", "no_show"}
          \subseteq Event
    BY DEF Event
  <2> QED
    BY <2>1, <2>3, <2>4, <2>5, <2>6, TenantsAssumption
    DEF Accounts, Counted, Unreturned
<1>2. CASE k \notin sell \cup donate
  <2>1. log'[k] = log[k] /\ row'[k] = row[k] BY <1>2 DEF OfferSurplus
  <2> QED BY <2>1, AccountsStay
<1> QED BY <1>1, <1>2

LEMMA AccountsStep ==
  ASSUME TypeOK, MarketInv, [Next]_vars, NEW k \in Listing, Accounts(k)
  PROVE  Accounts(k)'
<1>1. CASE UNCHANGED <<row, log>>
  BY <1>1, AccountsStay
<1>2. ASSUME NEW l \in Listing, NEW t \in Tenant \cup {None}, Transaction(l, t),
             t = None => EscalateOpenB2b(l)
      PROVE  Accounts(k)'
  <2>1. CASE k = l BY <1>2, <2>1, TransactionAccounts
  <2>2. CASE k # l BY <1>2, <2>2, OthersUntouched, AccountsStay
  <2> QED BY <2>1, <2>2
<1>3. CASE \E u \in User : UserStep(u)
  <2>1. PICK u \in User : UserStep(u) BY <1>3
  <2>2. tenantOf[u] \in Tenant /\ UserTables(u) /\ tenantOf[u] # None
    BY <2>1, UserTouches, TenantsAssumption
  <2>3. CASE /\ request[u].step = "claim"
             /\ ClaimListing(request[u].listing, tenantOf[u])
    BY <1>2, <2>2, <2>3, PendingListing DEF Transaction
  <2>4. CASE \E l \in Listing : OwnerTransaction(l, tenantOf[u])
    BY <1>2, <2>2, <2>4 DEF Transaction
  <2>5. CASE \E sell, donate \in {S \in SUBSET Listing : AtMostOne(S)},
                price \in Prices, safeUntil \in 1..MaxSafe :
               OfferSurplus(u, sell, donate, price, safeUntil)
    BY <2>5, OfferAccounts
  <2> QED BY <1>1, <2>2, <2>3, <2>4, <2>5 DEF UserTables
<1>4. CASE WorkerStep \/ Tick
  <2>1. CASE \E l \in Listing : EscalateOpenB2b(l)
    <3>1. PICK l \in Listing : EscalateOpenB2b(l) BY <2>1
    <3>2. Transaction(l, None) BY <3>1 DEF Transaction
    <3> QED BY <1>2, <3>1, <3>2
  <2> QED BY <1>1, <1>4, <2>1, WorkerTouches DEF WorkerTables
<1> QED BY <1>1, <1>3, <1>4 DEF Next, vars

LEMMA AccountsFor == LogAccountsForRow <=> \A l \in Listing : Accounts(l)
  BY DEF LogAccountsForRow, Accounts

\* Before the first event every count is zero.
LEMMA NothingCounted ==
  ASSUME Init, NEW l \in Listing
  PROVE  Accounts(l)
<1>1. \A e \in Entry : log[l][e] = 0 BY DEF Init
<1>2. ASSUME NEW event \in Event PROVE Count(l, event) = 0
  <2>1. IsFiniteSet(EventsOf(event)) /\ EventsOf(event) \in SUBSET Entry
    BY EventsFinite
  <2>2. \A x \in EventsOf(event) : log[l][x] = 0 BY <1>1, <2>1
  <2>3. SumFunctionOnSet(log[l], EventsOf(event)) = 0 BY <2>1, <2>2, SumZero
  <2> QED BY <2>3 DEF Count, EventsOf
<1>3. {"created", "collected", "cancelled", "escalated", "claimed", "released",
       "no_show"} \subseteq Event
  BY DEF Event
<1>4. row[l].status = "absent" /\ row[l].channel = "b2b" /\ row[l].claimedBy = None
  BY DEF Init
<1>5. \A t \in Tenant : /\ [event |-> "released", by |-> t] \in Entry
                        /\ [event |-> "claimed", by |-> t] \in Entry
  BY <1>3 DEF Entry, Event
<1> QED BY <1>1, <1>2, <1>3, <1>4, <1>5, TenantsAssumption DEF Accounts, Unreturned

(***************************************************************************)
(* The events of a listing account for its row: no transaction changes one *)
(* table without the other, whatever requests and worker find changed      *)
(* between their steps. Nothing is said of the order in which the timeline *)
(* shows them.                                                             *)
(***************************************************************************)
THEOREM LogAccounts == Spec => []LogAccountsForRow
<1>1. Init => LogAccountsForRow
  BY NothingCounted, AccountsFor
<1>2. TypeOK /\ MarketInv /\ LogAccountsForRow /\ [Next]_vars => LogAccountsForRow'
  <2>1. ASSUME TypeOK, MarketInv, LogAccountsForRow, [Next]_vars
        PROVE  \A l \in Listing : Accounts(l)'
    BY <2>1, AccountsFor, AccountsStep
  <2>2. (\A l \in Listing : Accounts(l)') => LogAccountsForRow'
    BY DEF LogAccountsForRow, Accounts
  <2> QED BY <2>1, <2>2
<1> QED BY <1>1, <1>2, TypeCorrect, MarketInvariant, PTL DEF Spec
=============================================================================
