------------------------------ MODULE Kitchen ------------------------------
(***************************************************************************)
(* The stock room of one restaurant: purchases add lots, adjustments       *)
(* correct them, and recording a prep draws the dish's ingredients, first  *)
(* expired first out, over the tables inventory_lots, inventory_movements  *)
(* and prep_entries.                                                       *)
(*                                                                         *)
(* A handler runs in a transaction of its own, but the queries it calls    *)
(* open further ones, each on another connection of the pool: they need a  *)
(* connection while the handler holds one, and they commit on their own.   *)
(* Lots are locked with SELECT ... FOR UPDATE, one row after the other, so *)
(* that requests wait for each other and may deadlock.                     *)
(*                                                                         *)
(* Quantities are in halves of the thousandth that numeric(12,3) stores:   *)
(* half a thousandth is where rounding a balance and rounding a movement   *)
(* part ways; finer fractions round alike.                                 *)
(***************************************************************************)
EXTENDS Integers, FiniteSets, FiniteSetsExt

CONSTANTS
  Lot,         \* lot ids
  Ingredient,  \* ingredient ids
  Dish,        \* dishes, each in some number of portions
  recipe,      \* what a dish needs of each ingredient, 0 if it is not in it
  Request,     \* requests; each is sent once
  None,        \* no request, no ingredient
  Expiries,    \* expiry dates; NULL is the last
  Quantities,  \* quantities bought
  Deltas,      \* corrections, up or down
  onHand,      \* the lots on the shelf to begin with
  PoolSize     \* connections of the pool

NoLot == [ingredient |-> None, expiry |-> 0, bought |-> 0, remaining |-> 0]

LotRow == [ingredient : Ingredient, expiry : Expiries, bought : Nat, remaining : Nat]

ASSUME RecipeAssumption ==
  /\ None \notin Request \cup Ingredient
  /\ IsFiniteSet(Lot) /\ IsFiniteSet(Request)
  /\ recipe \in [Dish -> [Ingredient -> Nat]]

ASSUME StockAssumption ==
  /\ Expiries \subseteq Nat
  /\ Quantities \subseteq Nat \ {0}
  /\ Deltas \subseteq Int \ {0}
  /\ onHand \in [Lot -> LotRow \cup {NoLot}]
  /\ PoolSize \in Nat

\* bought numbers the lots on the shelf from the oldest to the youngest.
ASSUME AgesAssumption ==
  LET shelf == {l \in Lot : onHand[l] # NoLot}
  IN  \A l \in shelf :
        /\ onHand[l].bought < Cardinality(shelf)
        /\ \A m \in shelf \ {l} : onHand[m].bought # onHand[l].bought

VARIABLES
  lot,      \* inventory_lots
  ledger,   \* inventory_movements: their sum by lot
  entries,  \* prep_entries, named by the request that saved them
  owner,    \* the request that holds the row lock of a lot
  request   \* progress of each request

vars == <<lot, ledger, entries, owner, request>>

-----------------------------------------------------------------------------
\* What a numeric(12,3) column stores of x: ties go away from zero.
Stored(x) == IF x % 2 = 0 THEN x ELSE IF x > 0 THEN x + 1 ELSE x - 1

\* Faulty variant: takes what is needed from a lot, whatever it holds.
NeedRegardless(stock, need) == need

Smaller(a, b) == IF a < b THEN a ELSE b

New == [step |-> "new"]

Done == [step |-> "done"]

\* Answered with INSUFFICIENT_STOCK.
Short == [step |-> "short"]

\* Answered with any other error, or not at all.
Failed == [step |-> "failed"]

Zero == [l \in Lot |-> 0]

Prep == [step : {"recipe", "insert", "pick", "draw"},
         dish : Dish,
         left : SUBSET Ingredient,  \* recipe items still to draw
         need : Nat,                \* of the current item
         todo : SUBSET Lot,         \* its lots still to lock
         read : [Lot -> Nat],       \* what the locked lots held
         take : [Lot -> Nat]]       \* what is drawn from them

Purchase == [step : {"buy"}, lot : Lot, ingredient : Ingredient,
             expiry : Expiries, qty : Quantities]

Adjustment == [step : {"look", "adjust"}, lot : Lot, delta : Deltas]

TypeOK ==
  /\ lot \in [Lot -> LotRow \cup {NoLot}]
  /\ ledger \in [Lot -> Int]
  /\ entries \in SUBSET Request
  /\ owner \in [Lot -> Request \cup {None}]
  /\ request \in [Request -> {New, Done, Short, Failed} \cup Prep \cup Purchase
                               \cup Adjustment]

-----------------------------------------------------------------------------
Ended(r) == request[r].step \in {"done", "short", "failed"}

Preparing(r) == request[r].step \in {"recipe", "insert", "pick", "draw"}

InFlight(r) == request[r].step \notin {"new", "done", "short", "failed"}

\* Connections nobody holds: a request in flight holds one for its own
\* transaction, and the transactions it opens meanwhile are single steps.
Free == PoolSize - Cardinality({r \in Request : InFlight(r)})

SetRequest(r, s) == request' = [request EXCEPT ![r] = s]

OnShelf(l) == lot[l] # NoLot

\* Faulty variant: a rolled back transaction leaves its locks behind.
ReleaseNothing(r) == UNCHANGED owner

\* The transaction of r ends: its row locks go.
Release(r) == owner' = [l \in Lot |-> IF owner[l] = r THEN None ELSE owner[l]]

-----------------------------------------------------------------------------
(***************************************************************************)
(* recordPurchase: a transaction, one inside it to look up the ingredient, *)
(* then addLot.                                                            *)
(***************************************************************************)
BeginPurchase(r, l, i, expiry, qty) ==
  /\ request[r] = New
  /\ Free > 0
  /\ ~OnShelf(l)
  /\ \A q \in Request : request[q].step = "buy" => request[q].lot # l
  /\ SetRequest(r, [step |-> "buy", lot |-> l, ingredient |-> i,
                    expiry |-> expiry, qty |-> qty])
  /\ UNCHANGED <<lot, ledger, entries, owner>>

AddLot(r) ==
  LET p == request[r]
  IN  /\ p.step = "buy"
      /\ Free > 0
      /\ lot' = [lot EXCEPT ![p.lot] =
           [ingredient |-> p.ingredient, expiry |-> p.expiry,
            bought |-> Cardinality({l \in Lot : OnShelf(l)}),
            remaining |-> Stored(p.qty)]]
      /\ ledger' = [ledger EXCEPT ![p.lot] = Stored(p.qty)]
      /\ SetRequest(r, Done)
      /\ UNCHANGED <<entries, owner>>

(***************************************************************************)
(* recordAdjustment: findLotForUpdate looks in a transaction of its own,   *)
(* so it locks nothing; adjustLot locks the row and reads it again.        *)
(***************************************************************************)
BeginAdjustment(r, l, delta) ==
  /\ request[r] = New
  /\ Free > 0
  /\ OnShelf(l)
  /\ SetRequest(r, [step |-> "look", lot |-> l, delta |-> delta])
  /\ UNCHANGED <<lot, ledger, entries, owner>>

FindLot(r) ==
  /\ request[r].step = "look"
  /\ Free > 0
  /\ SetRequest(r, [request[r] EXCEPT !.step = "adjust"])
  /\ UNCHANGED <<lot, ledger, entries, owner>>

\* Faulty variant: does not wait for the row lock.
AdjustLotUnlocked(r) ==
  LET l == request[r].lot
      after == lot[l].remaining + request[r].delta
  IN  /\ request[r].step = "adjust"
      /\ \/ /\ after < 0
            /\ SetRequest(r, Short)
            /\ UNCHANGED <<lot, ledger>>
         \/ /\ after >= 0
            /\ lot' = [lot EXCEPT ![l].remaining = Stored(after)]
            /\ ledger' = [ledger EXCEPT ![l] = @ + Stored(request[r].delta)]
            /\ SetRequest(r, Done)
      /\ UNCHANGED <<entries, owner>>

AdjustLot(r) ==
  LET l == request[r].lot
      after == lot[l].remaining + request[r].delta
  IN  /\ request[r].step = "adjust"
      /\ owner[l] = None
      /\ \/ /\ after < 0
            /\ SetRequest(r, Short)
            /\ UNCHANGED <<lot, ledger>>
         \/ /\ after >= 0
            /\ lot' = [lot EXCEPT ![l].remaining = Stored(after)]
            /\ ledger' = [ledger EXCEPT ![l] = @ + Stored(request[r].delta)]
            /\ SetRequest(r, Done)
      /\ UNCHANGED <<entries, owner>>

-----------------------------------------------------------------------------
(***************************************************************************)
(* createPrepEntry.  Inside the handler's transaction the recipe is read   *)
(* and the entry saved by transactions of their own; the lots are drawn by *)
(* the handler's.                                                          *)
(***************************************************************************)
Items(d) == {i \in Ingredient : recipe[d][i] > 0}

BeginPrep(r, d) ==
  /\ request[r] = New
  /\ Free > 0
  /\ SetRequest(r, [step |-> "recipe", dish |-> d, left |-> Items(d),
                    need |-> 0, todo |-> {}, read |-> Zero, take |-> Zero])
  /\ UNCHANGED <<lot, ledger, entries, owner>>

FindRecipe(r) ==
  /\ request[r].step = "recipe"
  /\ Free > 0
  /\ SetRequest(r, IF request[r].left = {} THEN Failed
                   ELSE [request[r] EXCEPT !.step = "insert"])
  /\ UNCHANGED <<lot, ledger, entries, owner>>

InsertPrepEntry(r) ==
  /\ request[r].step = "insert"
  /\ Free > 0
  /\ entries' = entries \cup {r}
  /\ SetRequest(r, [request[r] EXCEPT !.step = "pick"])
  /\ UNCHANGED <<lot, ledger, owner>>

\* consumeLotsFefo begins: the snapshot of the lots with stock.  The recipe
\* comes in no particular order.
SelectLots(r, i) ==
  /\ request[r].step = "pick"
  /\ i \in request[r].left
  /\ SetRequest(r, [request[r] EXCEPT
       !.step = "draw",
       !.left = @ \ {i},
       !.need = recipe[request[r].dish][i],
       !.todo = {l \in Lot : lot[l].ingredient = i /\ lot[l].remaining > 0}])
  /\ UNCHANGED <<lot, ledger, entries, owner>>

\* Faulty variant: oldest lot first, whatever its expiry.
BeforeByAge(l, m) == lot[l].bought < lot[m].bought

\* ORDER BY expiry_date NULLS LAST, purchase_date, created_at.
Before(l, m) ==
  \/ lot[l].expiry < lot[m].expiry
  \/ lot[l].expiry = lot[m].expiry /\ lot[l].bought < lot[m].bought

IsNext(r, l) ==
  l \in request[r].todo /\ \A m \in request[r].todo \ {l} : Before(l, m)

\* Faulty variant: a plain SELECT, which neither waits nor locks.
LockLotNot(r, l) ==
  LET take == Smaller(lot[l].remaining, request[r].need)
  IN  /\ request[r].step = "draw"
      /\ IsNext(r, l)
      /\ UNCHANGED owner
      /\ SetRequest(r, [request[r] EXCEPT
           !.todo = @ \ {l},
           !.need = @ - take,
           !.read[l] = lot[l].remaining,
           !.take[l] = take])
      /\ UNCHANGED <<lot, ledger, entries>>

(***************************************************************************)
(* The next lot is locked, read as it is now, and drawn from.  The code    *)
(* locks all of them, compares their total with the need and then draws:   *)
(* what it draws is seen by nobody before the commit, so that drawing      *)
(* while locking and comparing at the end (StopShort) are the same.        *)
(***************************************************************************)
LockLot(r, l) ==
  LET take == Smaller(lot[l].remaining, request[r].need)
  IN  /\ request[r].step = "draw"
      /\ IsNext(r, l)
      /\ owner[l] = None
      /\ owner' = [owner EXCEPT ![l] = r]
      /\ SetRequest(r, [request[r] EXCEPT
           !.todo = @ \ {l},
           !.need = @ - take,
           !.read[l] = lot[l].remaining,
           !.take[l] = take])
      /\ UNCHANGED <<lot, ledger, entries>>

\* The lots do not add up: INSUFFICIENT_STOCK, and a rollback.
StopShort(r) ==
  /\ request[r].step = "draw"
  /\ request[r].todo = {}
  /\ request[r].need > 0
  /\ SetRequest(r, Short)
  /\ Release(r)
  /\ UNCHANGED <<lot, ledger, entries>>

\* Faulty variant: takes what there is and goes on.
FinishItemShort(r) ==
  /\ request[r].step = "draw"
  /\ request[r].todo = {}
  /\ SetRequest(r, [request[r] EXCEPT !.step = "pick"])
  /\ UNCHANGED <<lot, ledger, entries, owner>>

FinishItem(r) ==
  /\ request[r].step = "draw"
  /\ request[r].todo = {}
  /\ request[r].need = 0
  /\ SetRequest(r, [request[r] EXCEPT !.step = "pick"])
  /\ UNCHANGED <<lot, ledger, entries, owner>>

\* Faulty variant: commits as soon as one ingredient was drawn.
DrawnAny(r) == request[r].step = "pick" /\ request[r].take # Zero

\* Nothing left to draw: the handler's transaction may commit.
DrawnAll(r) == request[r].step = "pick" /\ request[r].left = {}

\* The commit publishes the balances computed from what was read.
CommitPrep(r) ==
  LET p == request[r]
  IN  /\ DrawnAll(r)
      /\ lot' = [l \in Lot |->
           IF p.take[l] > 0
           THEN [lot[l] EXCEPT !.remaining = Stored(p.read[l] - p.take[l])]
           ELSE lot[l]]
      /\ ledger' = [l \in Lot |-> ledger[l] - Stored(p.take[l])]
      /\ SetRequest(r, Done)
      /\ Release(r)
      /\ UNCHANGED entries

-----------------------------------------------------------------------------
\* Whom r waits for, if it waits at all.
WaitsFor(r) ==
  IF request[r].step = "draw" /\ \E l \in Lot : IsNext(r, l) /\ owner[l] # r
  THEN owner[CHOOSE l \in Lot : IsNext(r, l)]
  ELSE None

\* r is on a cycle of requests that wait for one another.
Deadlocked(r) ==
  \E C \in SUBSET Request : r \in C /\ {WaitsFor(c) : c \in C} = C

\* Postgres notices and aborts one of them.
AbortDeadlocked(r) ==
  /\ Deadlocked(r)
  /\ SetRequest(r, Failed)
  /\ Release(r)
  /\ UNCHANGED <<lot, ledger, entries>>

\* The process dies, a query fails, or an ingredient's unit no longer matches
\* the recipe's: the handler's transaction is rolled back.
LoseRequest(r) ==
  /\ InFlight(r)
  /\ SetRequest(r, Failed)
  /\ Release(r)
  /\ UNCHANGED <<lot, ledger, entries>>

-----------------------------------------------------------------------------
Init ==
  /\ lot = onHand
  /\ ledger = [l \in Lot |-> onHand[l].remaining]
  /\ entries = {}
  /\ owner = [l \in Lot |-> None]
  /\ request = [r \in Request |-> New]

Begin(r) ==
  \/ \E l \in Lot, i \in Ingredient, expiry \in Expiries, qty \in Quantities :
       BeginPurchase(r, l, i, expiry, qty)
  \/ \E l \in Lot, delta \in Deltas : BeginAdjustment(r, l, delta)
  \/ \E d \in Dish : BeginPrep(r, d)

Proceed(r) ==
  \/ AddLot(r)
  \/ FindLot(r)
  \/ AdjustLot(r)
  \/ FindRecipe(r)
  \/ InsertPrepEntry(r)
  \/ \E i \in Ingredient : SelectLots(r, i)
  \/ \E l \in Lot : LockLot(r, l)
  \/ StopShort(r)
  \/ FinishItem(r)
  \/ CommitPrep(r)
  \/ AbortDeadlocked(r)

Next == \E r \in Request : Begin(r) \/ Proceed(r) \/ LoseRequest(r)

Spec == Init /\ [][Next]_vars

\* A request that was begun goes on whenever it can; Postgres looks for
\* deadlocks after deadlock_timeout.  Nobody has to send requests.
FairSpec == Spec /\ \A r \in Request : WF_vars(Proceed(r))

-----------------------------------------------------------------------------
(***************************************************************************)
(* Properties.                                                             *)
(***************************************************************************)

\* Every quantity that comes in is a whole number of thousandths.
WholeUnits ==
  /\ \A d \in Dish, i \in Ingredient : recipe[d][i] % 2 = 0
  /\ \A x \in Quantities \cup Deltas : x % 2 = 0
  /\ \A l \in Lot : onHand[l].remaining % 2 = 0

\* db/seed/invariants.ts, "Inventory movements do not sum to the lot quantity
\* remaining": they do, whichever requests overlap or are rolled back.
BalanceMatchesLedger == \A l \in Lot : lot[l].remaining = ledger[l]

\* The balances that a prep writes were computed from what it read, so
\* whatever it drew from must still hold just that, and be locked by it.
DrawsAreLocked ==
  \A r \in Request : Preparing(r) =>
    \A l \in Lot :
      /\ request[r].take[l] > 0 =>
           owner[l] = r /\ request[r].read[l] = lot[l].remaining
      /\ request[r].take[l] <= request[r].read[l]

\* A lot that is being bought is not on the shelf yet, nor bought by another.
PurchasesAreFresh ==
  \A r \in Request : request[r].step = "buy" =>
    /\ ~OnShelf(request[r].lot)
    /\ \A q \in Request \ {r} :
         request[q].step = "buy" => request[q].lot # request[r].lot

\* The lot of an adjustment stays on the shelf.
AdjustmentsHaveLots ==
  \A r \in Request : request[r].step \in {"look", "adjust"} => OnShelf(request[r].lot)

(***************************************************************************)
(* The inductive invariant is two-phase locking: from the moment a prep    *)
(* locks a lot until it commits nobody else changes it, be it by a prep,   *)
(* an adjustment or a purchase.                                            *)
(***************************************************************************)
LocksInv == DrawsAreLocked /\ PurchasesAreFresh /\ AdjustmentsHaveLots

\* Draws go by expiry as long as a prep goes on: a lot whose successor was drawn
\* from is used up, and the lots still to lock come after those locked, which
\* are all used up while something is needed.
InOrder(p) ==
  LET locked == {l \in Lot : p.read[l] > 0}
      drawn == {l \in Lot : p.take[l] > 0}
      drained == {l \in Lot : p.take[l] = p.read[l]}
      Same(l, m) == lot[l].ingredient = lot[m].ingredient
  IN  /\ \A l \in locked \cup p.todo : OnShelf(l) /\ lot[l].ingredient \notin p.left
      /\ \A l \in locked, m \in drawn :
           Same(l, m) /\ lot[l].expiry < lot[m].expiry => l \in drained
      /\ \A l \in locked, m \in p.todo :
           Same(l, m) => lot[l].expiry <= lot[m].expiry /\ (p.need > 0 => l \in drained)

\* The order of consumeLotsFefo, kept while purchases, adjustments and other
\* preps change the lots between its snapshot and its locks.
DrawnInOrder == \A r \in Request : Preparing(r) => InOrder(request[r])

\* What requests in flight have read is what they overwrite, and in order.
KitchenInv == LocksInv /\ DrawnInOrder

\* First expired, first out: when a prep has used some of a lot, the lots of
\* the same ingredient that it saw and that expire earlier are empty.
FirstExpiredFirstOut ==
  [][\A r \in Request, l, m \in Lot :
       /\ CommitPrep(r)
       /\ request[r].take[m] > 0
       /\ request[r].read[l] > 0
       /\ lot[l].ingredient = lot[m].ingredient
       /\ lot[l].expiry < lot[m].expiry
       => lot'[l].remaining = 0]_vars

LotsOf(i) == {l \in Lot : lot[l].ingredient = i}

\* Item by item, what a prep has drawn is what the recipe asks for: all of the
\* items that are over, and what is missing of the one at hand.
FollowsRecipe(p) ==
  LET Drawn(i) == SumFunctionOnSet(p.take, LotsOf(i))
      IsPaid(i) == Drawn(i) = recipe[p.dish][i]
  IN  /\ \A l \in p.todo : p.take[l] = 0
      /\ p.step # "draw" => \A i \in Ingredient \ p.left : IsPaid(i)
      /\ p.step = "draw" =>
           \E i \in Ingredient \ p.left :
             /\ p.todo \subseteq LotsOf(i)
             /\ Drawn(i) + p.need = recipe[p.dish][i]
             /\ \A j \in (Ingredient \ p.left) \ {i} : IsPaid(j)

\* A prep takes what its recipe says, out of however many lots, while others
\* add to them and correct them; its entry is there from the insert on.
PrepsFollowRecipe ==
  \A r \in Request :
    /\ Preparing(r) => FollowsRecipe(request[r])
    /\ request[r].step \in {"pick", "draw"} => r \in entries
    /\ request[r].step \in {"new", "buy", "look", "adjust", "recipe", "insert"} => r \notin entries

\* Cooking is all or nothing, although lots are drawn one by one by requests
\* that overlap, are aborted in a deadlock or die.
Abstract == INSTANCE Pantry WITH
  stock <- [i \in Ingredient |->
              SumFunctionOnSet([l \in Lot |-> lot[l].remaining], LotsOf(i))],
  cooked <- {r \in entries : request[r].step = "done"}

ImplementsPantry == Abstract!Spec

\* With fewer requests than the pool has connections, every request is answered:
\* preps that wait for each other's lots in a circle are told apart by an abort
\* (shared/fefo.ts). With as many requests as connections each may hold one and
\* wait for another one for good (db/client.ts:8); about that nothing is said.
EveryRequestEnds ==
  Cardinality(Request) < PoolSize => \A r \in Request : InFlight(r) ~> Ended(r)

\* When Proceed(r) is open: nested transactions need a connection, a lot must be
\* nobody's or the request be on a cycle; all else is the handler's own.
MayProceed(r) ==
  CASE request[r].step \in {"buy", "look", "recipe", "insert"} -> Free > 0
    [] request[r].step = "adjust" -> owner[request[r].lot] = None
    [] request[r].step = "pick" -> TRUE
    [] request[r].step = "draw" ->
         \/ request[r].todo = {}
         \/ \E l \in Lot : IsNext(r, l) /\ owner[l] = None
         \/ Deadlocked(r)
    [] OTHER -> FALSE

HeldUpBy(r) == IF request[r].step = "adjust" THEN owner[request[r].lot] ELSE WaitsFor(r)

(***************************************************************************)
(* While a connection is free, a group of requests that cannot go on waits *)
(* for a request in flight outside of the group, so that somebody always   *)
(* goes on: no lock is left behind by a request that ended, and whoever    *)
(* waits in a circle is found (shared/fefo.ts). Of a pool without a free   *)
(* connection nothing is said.                                             *)
(***************************************************************************)
SomebodyGoesOn ==
  Free > 0 =>
    \A group \in SUBSET {r \in Request : InFlight(r) /\ ~MayProceed(r)} :
      group # {} => \E r \in group, q \in Request \ group : HeldUpBy(r) = q /\ InFlight(q)

\* frontend/src/pages/kitchen-page.tsx, "Insufficient stock is rejected before
\* saving": a prep that ran short leaves no entry.
ShortPrepIsNotSaved ==
  \A r \in Request : request[r].step = "short" => r \notin entries
=============================================================================
