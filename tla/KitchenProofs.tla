--------------------------- MODULE KitchenProofs ---------------------------
(***************************************************************************)
(* Proofs about Kitchen, for any lots, ingredients, recipes and requests,  *)
(* any pool size and any quantities: the types, the two-phase locking that *)
(* keeps a prep's draws valid until it commits, and, for quantities of     *)
(* whole thousandths, that balances and movements agree.                   *)
(***************************************************************************)
EXTENDS Kitchen, FoldTheorems

\* Shapes of requests in flight.
LEMMA PrepShape ==
  ASSUME TypeOK, NEW r \in Request, Preparing(r)
  PROVE  request[r] \in Prep
BY DEF TypeOK, Preparing, New, Done, Short, Failed, Prep, Purchase, Adjustment

LEMMA PurchaseShape ==
  ASSUME TypeOK, NEW r \in Request, request[r].step = "buy"
  PROVE  request[r] \in Purchase
BY DEF TypeOK, New, Done, Short, Failed, Prep, Purchase, Adjustment

LEMMA AdjustmentShape ==
  ASSUME TypeOK, NEW r \in Request, request[r].step \in {"look", "adjust"}
  PROVE  request[r] \in Adjustment
BY DEF TypeOK, New, Done, Short, Failed, Prep, Purchase, Adjustment

\* What a column stores of a quantity is a quantity.
LEMMA StoredIsInt ==
  ASSUME NEW x \in Int
  PROVE  Stored(x) \in Int /\ (x \in Nat => Stored(x) \in Nat)
BY DEF Stored

\* The states a request may be in.
States == {New, Done, Short, Failed} \cup Prep \cup Purchase \cup Adjustment

LEMMA SetRequestType ==
  ASSUME TypeOK, NEW r \in Request, NEW s \in States, SetRequest(r, s)
  PROVE  request' \in [Request -> States]
BY DEF TypeOK, SetRequest, States

LEMMA ReleaseType ==
  ASSUME TypeOK, NEW r \in Request, Release(r)
  PROVE  owner' \in [Lot -> Request \cup {None}]
BY DEF TypeOK, Release

-----------------------------------------------------------------------------
LEMMA BeginTyped ==
  ASSUME TypeOK, NEW r \in Request, Begin(r)
  PROVE  TypeOK'
<1>1. ASSUME NEW l \in Lot, NEW i \in Ingredient, NEW expiry \in Expiries,
             NEW qty \in Quantities, BeginPurchase(r, l, i, expiry, qty)
      PROVE  TypeOK'
  <2>1. [step |-> "buy", lot |-> l, ingredient |-> i, expiry |-> expiry, qty |-> qty]
          \in States
    BY DEF States, Purchase
  <2> QED BY <1>1, <2>1, SetRequestType DEF BeginPurchase, TypeOK, States
<1>2. ASSUME NEW l \in Lot, NEW delta \in Deltas, BeginAdjustment(r, l, delta)
      PROVE  TypeOK'
  <2>1. [step |-> "look", lot |-> l, delta |-> delta] \in States
    BY DEF States, Adjustment
  <2> QED BY <1>2, <2>1, SetRequestType DEF BeginAdjustment, TypeOK, States
<1>3. ASSUME NEW d \in Dish, BeginPrep(r, d) PROVE TypeOK'
  <2>1. [step |-> "recipe", dish |-> d, left |-> Items(d), need |-> 0,
         todo |-> {}, read |-> Zero, take |-> Zero] \in States
    BY DEF States, Prep, Zero, Items
  <2> QED BY <1>3, <2>1, SetRequestType DEF BeginPrep, TypeOK, States
<1> QED BY <1>1, <1>2, <1>3 DEF Begin

LEMMA StockTyped ==
  ASSUME TypeOK, LocksInv, NEW r \in Request,
         AddLot(r) \/ FindLot(r) \/ AdjustLot(r)
  PROVE  TypeOK'
<1>1. CASE AddLot(r)
  <2>1. request[r] \in Purchase BY <1>1, PurchaseShape DEF AddLot
  <2>2. Stored(request[r].qty) \in Nat
    <3>1. request[r].qty \in Nat BY <2>1, StockAssumption DEF Purchase
    <3> QED BY <3>1, StoredIsInt
  <2>3. Cardinality({l \in Lot : OnShelf(l)}) \in Nat
    BY RecipeAssumption, FS_Subset, FS_CardinalityType
  <2>4. lot' \in [Lot -> LotRow \cup {NoLot}]
    BY <1>1, <2>1, <2>2, <2>3 DEF AddLot, TypeOK, Purchase, LotRow
  <2>5. ledger' \in [Lot -> Int]
    <3>1. Stored(request[r].qty) \in Int BY <2>2
    <3>2. ledger' = [ledger EXCEPT ![request[r].lot] = Stored(request[r].qty)]
      BY <1>1 DEF AddLot
    <3> QED BY <3>1, <3>2 DEF TypeOK
  <2>6. request' \in [Request -> States]
    BY <1>1, SetRequestType DEF AddLot, States
  <2> QED BY <1>1, <2>4, <2>5, <2>6 DEF AddLot, TypeOK, States
<1>2. CASE FindLot(r)
  <2>1. request[r] \in Adjustment BY <1>2, AdjustmentShape DEF FindLot
  <2>2. [request[r] EXCEPT !.step = "adjust"] \in States
    BY <2>1 DEF States, Adjustment
  <2> QED BY <1>2, <2>2, SetRequestType DEF FindLot, TypeOK, States
<1>3. CASE AdjustLot(r)
  <2>1. request[r] \in Adjustment BY <1>3, AdjustmentShape DEF AdjustLot
  <2>2. PICK k \in Lot, delta \in Deltas :
          request[r].lot = k /\ request[r].delta = delta
    BY <2>1 DEF Adjustment
  <2>3. delta \in Int BY StockAssumption
  <2>4. CASE SetRequest(r, Short) /\ UNCHANGED <<lot, ledger>>
    <3>1. request' \in [Request -> States]
      BY <2>4, SetRequestType DEF States
    <3> QED BY <1>3, <2>4, <3>1 DEF AdjustLot, TypeOK, States
  <2>5. CASE /\ lot[k].remaining + delta >= 0
             /\ lot' = [lot EXCEPT ![k].remaining = Stored(lot[k].remaining + delta)]
             /\ ledger' = [ledger EXCEPT ![k] = @ + Stored(delta)]
             /\ SetRequest(r, Done)
    <3>1. lot[k] \in LotRow /\ lot[k].remaining \in Nat
      BY <1>3, <2>2 DEF TypeOK, LotRow, LocksInv, AdjustmentsHaveLots, AdjustLot, OnShelf
    <3>2. Stored(lot[k].remaining + delta) \in Nat
      <4>1. lot[k].remaining + delta \in Nat BY <2>3, <2>5, <3>1
      <4> QED BY <4>1, StoredIsInt
    <3>3. lot' \in [Lot -> LotRow \cup {NoLot}]
      <4>1. [lot[k] EXCEPT !.remaining = Stored(lot[k].remaining + delta)] \in LotRow
        BY <3>1, <3>2 DEF LotRow
      <4> QED BY <2>5, <4>1 DEF TypeOK
    <3>4. Stored(delta) \in Int BY <2>3, StoredIsInt
    <3>5. ledger' \in [Lot -> Int] BY <2>5, <3>4 DEF TypeOK
    <3>6. request' \in [Request -> States]
      BY <2>5, SetRequestType DEF States
    <3> QED BY <1>3, <3>3, <3>5, <3>6 DEF AdjustLot, TypeOK, States
  <2> QED BY <1>3, <2>2, <2>4, <2>5 DEF AdjustLot
<1> QED BY <1>1, <1>2, <1>3

LEMMA PrepTyped ==
  ASSUME TypeOK, NEW r \in Request,
         \/ FindRecipe(r) \/ InsertPrepEntry(r) \/ FinishItem(r)
         \/ \E i \in Ingredient : SelectLots(r, i)
         \/ \E l \in Lot : LockLot(r, l)
  PROVE  TypeOK'
<1>1. request[r] \in Prep
  BY PrepShape
  DEF Preparing, FindRecipe, InsertPrepEntry, FinishItem, SelectLots, LockLot
<1>2. CASE FindRecipe(r)
  <2>1. [request[r] EXCEPT !.step = "insert"] \in States
    BY <1>1 DEF States, Prep
  <2>2. request' \in [Request -> States]
    BY <1>2, <2>1, SetRequestType DEF FindRecipe, States
  <2> QED BY <1>2, <2>2 DEF FindRecipe, TypeOK, States
<1>3. CASE InsertPrepEntry(r) \/ FinishItem(r)
  <2>1. [request[r] EXCEPT !.step = "pick"] \in States
    BY <1>1 DEF States, Prep
  <2>2. request' \in [Request -> States]
    BY <1>3, <2>1, SetRequestType DEF InsertPrepEntry, FinishItem
  <2> QED BY <1>3, <2>2 DEF InsertPrepEntry, FinishItem, TypeOK, States
<1>4. ASSUME NEW i \in Ingredient, SelectLots(r, i) PROVE TypeOK'
  <2>1. PICK d \in Dish : request[r].dish = d BY <1>1 DEF Prep
  <2>2. recipe[d][i] \in Nat BY RecipeAssumption
  <2> DEFINE lots == {l \in Lot : lot[l].ingredient = i /\ lot[l].remaining > 0}
  <2>3. lots \in SUBSET Lot OBVIOUS
  <2> HIDE DEF lots
  <2>4. [request[r] EXCEPT !.step = "draw", !.left = @ \ {i},
           !.need = recipe[d][i], !.todo = lots] \in States
    BY <1>1, <2>2, <2>3 DEF States, Prep
  <2>5. request' \in [Request -> States]
    BY <1>4, <2>1, <2>4, SetRequestType DEF SelectLots, lots
  <2> QED BY <1>4, <2>5 DEF SelectLots, TypeOK, States
<1>5. ASSUME NEW l \in Lot, LockLot(r, l) PROVE TypeOK'
  <2> DEFINE take == Smaller(lot[l].remaining, request[r].need)
  <2>1. lot[l].remaining \in Nat BY DEF TypeOK, LotRow, NoLot
  <2>2. request[r].need \in Nat BY <1>1 DEF Prep
  <2>3. take \in Nat /\ request[r].need - take \in Nat
    BY <2>1, <2>2 DEF Smaller
  <2> HIDE DEF take
  <2>4. [request[r] EXCEPT !.todo = @ \ {l}, !.need = @ - take,
           !.read[l] = lot[l].remaining, !.take[l] = take] \in States
    BY <1>1, <2>1, <2>3 DEF States, Prep
  <2>5. request' \in [Request -> States]
    BY <1>5, <2>4, SetRequestType DEF LockLot, take
  <2> QED BY <1>5, <2>5 DEF LockLot, TypeOK, States
<1> QED BY <1>2, <1>3, <1>4, <1>5

LEMMA EndTyped ==
  ASSUME TypeOK, NEW r \in Request,
         StopShort(r) \/ AbortDeadlocked(r) \/ LoseRequest(r)
  PROVE  TypeOK'
<1>1. request' \in [Request -> States]
  BY SetRequestType DEF StopShort, AbortDeadlocked, LoseRequest, States
<1>2. owner' \in [Lot -> Request \cup {None}]
  BY ReleaseType DEF StopShort, AbortDeadlocked, LoseRequest
<1> QED BY <1>1, <1>2 DEF StopShort, AbortDeadlocked, LoseRequest, TypeOK, States

LEMMA CommitTyped ==
  ASSUME TypeOK, NEW r \in Request, CommitPrep(r), LocksInv
  PROVE  TypeOK'
<1>1. request[r] \in Prep
  BY PrepShape DEF Preparing, CommitPrep, DrawnAll
<1>2. ASSUME NEW l \in Lot
      PROVE  /\ Stored(request[r].read[l] - request[r].take[l]) \in Nat
             /\ Stored(request[r].take[l]) \in Nat
  <2>1. request[r].read[l] \in Nat /\ request[r].take[l] \in Nat
    BY <1>1 DEF Prep
  <2>2. request[r].take[l] <= request[r].read[l]
    BY DEF LocksInv, DrawsAreLocked, Preparing, CommitPrep, DrawnAll
  <2>3. request[r].read[l] - request[r].take[l] \in Nat BY <2>1, <2>2
  <2> QED BY <2>1, <2>3, StoredIsInt
<1>3. lot' \in [Lot -> LotRow \cup {NoLot}]
  <2>1. ASSUME NEW l \in Lot, request[r].take[l] > 0
        PROVE  [lot[l] EXCEPT !.remaining =
                  Stored(request[r].read[l] - request[r].take[l])] \in LotRow
    <3>1. /\ request[r].read[l] = lot[l].remaining
          /\ request[r].take[l] <= request[r].read[l]
      BY <2>1 DEF LocksInv, DrawsAreLocked, Preparing, CommitPrep, DrawnAll
    <3>2. request[r].take[l] \in Nat BY <1>1 DEF Prep
    <3>3. lot[l] # NoLot BY <2>1, <3>1, <3>2 DEF NoLot
    <3> QED BY <1>2, <3>3 DEF TypeOK, LotRow
  <2> QED BY <2>1 DEF CommitPrep, TypeOK
<1>4. ledger' \in [Lot -> Int]
  BY <1>2 DEF CommitPrep, TypeOK
<1>5. request' \in [Request -> States]
  BY SetRequestType DEF CommitPrep, States
<1>6. owner' \in [Lot -> Request \cup {None}]
  BY ReleaseType DEF CommitPrep
<1> QED BY <1>3, <1>4, <1>5, <1>6 DEF CommitPrep, TypeOK, States

-----------------------------------------------------------------------------
LEMMA KitchenInit == Init => TypeOK /\ LocksInv
<1> SUFFICES ASSUME Init PROVE TypeOK /\ LocksInv OBVIOUS
<1>1. TypeOK
  <2>1. \A l \in Lot : onHand[l].remaining \in Int
    BY StockAssumption DEF LotRow, NoLot
  <2> QED BY <2>1, StockAssumption DEF Init, TypeOK
<1>2. LocksInv
  BY DEF Init, LocksInv, DrawsAreLocked, PurchasesAreFresh, AdjustmentsHaveLots,
         Preparing, New
<1> QED BY <1>1, <1>2

\* A request sees no change in the others.
LEMMA OthersKeep ==
  ASSUME TypeOK, NEW r \in Request, NEW s, SetRequest(r, s),
         NEW q \in Request \ {r}
  PROVE  request'[q] = request[q]
BY DEF TypeOK, SetRequest

LEMMA OwnKeeps ==
  ASSUME TypeOK, NEW r \in Request, NEW s, SetRequest(r, s)
  PROVE  request'[r] = s
BY DEF TypeOK, SetRequest

\* What another prep has drawn survives a step that neither releases its
\* locks nor touches a lot it has locked.
LEMMA OthersStayLocked ==
  ASSUME DrawsAreLocked, NEW q \in Request, Preparing(q), request'[q] = request[q],
         \A l \in Lot : request[q].take[l] > 0 /\ owner[l] = q =>
           owner'[l] = q /\ lot'[l] = lot[l]
  PROVE  \A l \in Lot :
           /\ request'[q].take[l] > 0 =>
                owner'[l] = q /\ request'[q].read[l] = lot'[l].remaining
           /\ request'[q].take[l] <= request'[q].read[l]
BY DEF DrawsAreLocked

LEMMA BeginLocked ==
  ASSUME TypeOK, LocksInv, NEW r \in Request, Begin(r)
  PROVE  LocksInv'
<1>1. UNCHANGED <<lot, owner>> /\ \A q \in Request \ {r} : request'[q] = request[q]
  BY OthersKeep DEF Begin, BeginPurchase, BeginAdjustment, BeginPrep
<1>2. ASSUME NEW l \in Lot, NEW i \in Ingredient, NEW expiry \in Expiries,
             NEW qty \in Quantities, BeginPurchase(r, l, i, expiry, qty)
      PROVE  LocksInv'
  <2>1. request'[r].step = "buy" /\ request'[r].lot = l
    BY <1>2, OwnKeeps DEF BeginPurchase
  <2>2. ~OnShelf(l) /\ \A q \in Request : request[q].step = "buy" => request[q].lot # l
    BY <1>2 DEF BeginPurchase
  <2> QED
    BY <1>1, <2>1, <2>2
    DEF LocksInv, DrawsAreLocked, PurchasesAreFresh, AdjustmentsHaveLots,
        Preparing, OnShelf
<1>3. ASSUME NEW l \in Lot, NEW delta \in Deltas, BeginAdjustment(r, l, delta)
      PROVE  LocksInv'
  <2>1. request'[r].step = "look" /\ request'[r].lot = l /\ OnShelf(l)
    BY <1>3, OwnKeeps DEF BeginAdjustment
  <2> QED
    BY <1>1, <2>1
    DEF LocksInv, DrawsAreLocked, PurchasesAreFresh, AdjustmentsHaveLots,
        Preparing, OnShelf
<1>4. ASSUME NEW d \in Dish, BeginPrep(r, d) PROVE LocksInv'
  <2>1. request'[r].step = "recipe" /\ request'[r].take = Zero /\ request'[r].read = Zero
    BY <1>4, OwnKeeps DEF BeginPrep
  <2> QED
    BY <1>1, <2>1
    DEF LocksInv, DrawsAreLocked, PurchasesAreFresh, AdjustmentsHaveLots,
        Preparing, OnShelf, Zero
<1> QED BY <1>2, <1>3, <1>4 DEF Begin

LEMMA StockLocked ==
  ASSUME TypeOK, LocksInv, NEW r \in Request,
         AddLot(r) \/ FindLot(r) \/ AdjustLot(r)
  PROVE  LocksInv'
<1>1. owner' = owner /\ \A q \in Request \ {r} : request'[q] = request[q]
  BY OthersKeep DEF AddLot, FindLot, AdjustLot
<1>2. request'[r].step \in {"done", "short", "adjust"}
  BY OwnKeeps, AdjustmentShape
  DEF AddLot, FindLot, AdjustLot, Done, Short, Adjustment
<1>3. ASSUME NEW k \in Lot, lot'[k] # lot[k]
      PROVE  request[r].lot = k /\ OnShelf(k)'
  <2>1. CASE AddLot(r)
    <3>1. request[r] \in Purchase BY <2>1, PurchaseShape DEF AddLot
    <3>2. request[r].lot = k BY <1>3, <2>1 DEF AddLot, TypeOK
    <3>3. lot'[k].ingredient # None
      BY <2>1, <3>1, <3>2, RecipeAssumption DEF AddLot, TypeOK, Purchase
    <3> QED BY <3>2, <3>3 DEF OnShelf, NoLot
  <2>2. CASE AdjustLot(r)
    <3>1. request[r].lot = k BY <1>3, <2>2 DEF AdjustLot, TypeOK
    <3>2. lot[k] \in LotRow
      BY <2>2, <3>1 DEF LocksInv, AdjustmentsHaveLots, AdjustLot, OnShelf, TypeOK
    <3>3. lot'[k].ingredient = lot[k].ingredient
      BY <1>3, <2>2, <3>1, <3>2 DEF AdjustLot, TypeOK, LotRow
    <3>4. lot'[k].ingredient # None BY <3>2, <3>3, RecipeAssumption DEF LotRow
    <3> QED BY <3>1, <3>4 DEF OnShelf, NoLot
  <2> QED BY <1>3, <2>1, <2>2 DEF FindLot
<1>4. ASSUME NEW k \in Lot, lot'[k] # lot[k], NEW q \in Request, Preparing(q)
      PROVE  ~(request[q].take[k] > 0 /\ owner[k] = q)
  <2>1. CASE AddLot(r)
    <3>1. lot[k].remaining = 0
      BY <1>3, <1>4, <2>1 DEF LocksInv, PurchasesAreFresh, AddLot, OnShelf, NoLot
    <3>2. request[q].take[k] \in Nat BY <1>4, PrepShape DEF Prep
    <3> QED BY <1>4, <3>1, <3>2 DEF LocksInv, DrawsAreLocked
  <2>2. CASE AdjustLot(r)
    BY <1>3, <1>4, <2>2, RecipeAssumption DEF AdjustLot
  <2> QED BY <1>4, <2>1, <2>2 DEF FindLot
<1>5. ASSUME NEW k \in Lot, OnShelf(k) PROVE OnShelf(k)'
  BY <1>3, <1>5 DEF OnShelf
<1>6. PurchasesAreFresh'
  <2> SUFFICES ASSUME NEW q \in Request, request'[q].step = "buy"
               PROVE  /\ ~OnShelf(request[q].lot)'
                      /\ \A p \in Request \ {q} :
                           request'[p].step = "buy" => request'[p].lot # request'[q].lot
    BY DEF PurchasesAreFresh
  <2>1. q # r /\ request'[q] = request[q] BY <1>1, <1>2
  <2>2. request[q].lot \in Lot /\ ~OnShelf(request[q].lot)
    BY <2>1, PurchaseShape DEF LocksInv, PurchasesAreFresh, Purchase
  <2>3. request[r].lot # request[q].lot
    BY <2>1, <2>2
    DEF LocksInv, PurchasesAreFresh, AdjustmentsHaveLots, AddLot, FindLot, AdjustLot
  <2>4. lot'[request[q].lot] = lot[request[q].lot] BY <1>3, <2>2, <2>3
  <2>5. ~OnShelf(request[q].lot)' BY <2>1, <2>2, <2>4 DEF OnShelf
  <2>6. \A p \in Request \ {q} :
          request'[p].step = "buy" => request'[p].lot # request'[q].lot
    BY <1>1, <1>2, <2>1 DEF LocksInv, PurchasesAreFresh
  <2> QED BY <2>5, <2>6
<1>7. AdjustmentsHaveLots'
  <2> SUFFICES ASSUME NEW q \in Request, request'[q].step \in {"look", "adjust"}
               PROVE  OnShelf(request[q].lot)'
    BY DEF AdjustmentsHaveLots
  <2>1. /\ request[q].step \in {"look", "adjust"}
        /\ request'[q].lot = request[q].lot
    BY <1>1, <1>2, OwnKeeps, AdjustmentShape
    DEF AddLot, FindLot, AdjustLot, Done, Short, Adjustment
  <2>2. request[q].lot \in Lot BY <2>1, AdjustmentShape DEF Adjustment
  <2>3. OnShelf(request[q].lot)
    BY <2>1 DEF LocksInv, AdjustmentsHaveLots
  <2> QED BY <1>5, <2>1, <2>2, <2>3 DEF OnShelf
<1>8. DrawsAreLocked'
  <2> SUFFICES ASSUME NEW q \in Request, Preparing(q)'
               PROVE  \A l \in Lot :
                        /\ request'[q].take[l] > 0 =>
                             owner'[l] = q /\ request'[q].read[l] = lot'[l].remaining
                        /\ request'[q].take[l] <= request'[q].read[l]
    BY DEF DrawsAreLocked
  <2>1. request'[q] = request[q] /\ Preparing(q)
    BY <1>1, <1>2 DEF Preparing
  <2> QED BY <1>1, <1>4, <2>1, OthersStayLocked DEF LocksInv
<1> QED BY <1>6, <1>7, <1>8 DEF LocksInv

\* Only a prep changes, no lot does: the other two parts keep by themselves.
LEMMA PrepKeepsRest ==
  ASSUME TypeOK, LocksInv, NEW r \in Request,
         \A q \in Request \ {r} : request'[q] = request[q],
         request'[r].step \notin {"buy", "look", "adjust"},
         \A l \in Lot : OnShelf(l)' = OnShelf(l)
  PROVE  PurchasesAreFresh' /\ AdjustmentsHaveLots'
<1>1. PurchasesAreFresh'
  <2> SUFFICES ASSUME NEW q \in Request, request'[q].step = "buy"
               PROVE  /\ ~OnShelf(request[q].lot)'
                      /\ \A p \in Request \ {q} :
                           request'[p].step = "buy" => request'[p].lot # request'[q].lot
    BY DEF PurchasesAreFresh
  <2>1. q # r /\ request'[q] = request[q] OBVIOUS
  <2>2. request[q].lot \in Lot /\ ~OnShelf(request[q].lot)
    BY <2>1, PurchaseShape DEF LocksInv, PurchasesAreFresh, Purchase
  <2>3. ~OnShelf(request[q].lot)' BY <2>1, <2>2 DEF OnShelf
  <2> QED BY <2>1, <2>3 DEF LocksInv, PurchasesAreFresh
<1>2. AdjustmentsHaveLots'
  <2> SUFFICES ASSUME NEW q \in Request, request'[q].step \in {"look", "adjust"}
               PROVE  OnShelf(request[q].lot)'
    BY DEF AdjustmentsHaveLots
  <2>1. q # r /\ request'[q] = request[q] OBVIOUS
  <2>2. request[q].lot \in Lot /\ OnShelf(request[q].lot)
    BY <2>1, AdjustmentShape DEF LocksInv, AdjustmentsHaveLots, Adjustment
  <2> QED BY <2>1, <2>2 DEF OnShelf
<1> QED BY <1>1, <1>2

\* The steps of a prep that draw nothing keep what it has read and drawn.
LEMMA PrepStep ==
  ASSUME TypeOK, NEW r \in Request,
         \/ FindRecipe(r) \/ InsertPrepEntry(r) \/ FinishItem(r)
         \/ \E i \in Ingredient : SelectLots(r, i)
  PROVE  /\ owner' = owner
         /\ request'[r].step \notin {"buy", "look", "adjust"}
         /\ Preparing(r)' => /\ request'[r].take = request[r].take
                             /\ request'[r].read = request[r].read
<1>1. request[r] \in Prep
  BY PrepShape DEF Preparing, FindRecipe, InsertPrepEntry, FinishItem, SelectLots
<1>2. CASE FindRecipe(r)
  <2>1. \/ request'[r] = Failed
        \/ request'[r] = [request[r] EXCEPT !.step = "insert"]
    BY <1>2, OwnKeeps DEF FindRecipe
  <2> QED BY <1>1, <1>2, <2>1 DEF FindRecipe, Failed, Prep, Preparing
<1>3. CASE InsertPrepEntry(r) \/ FinishItem(r)
  <2>1. request'[r] = [request[r] EXCEPT !.step = "pick"]
    BY <1>3, OwnKeeps DEF InsertPrepEntry, FinishItem
  <2> QED BY <1>1, <1>3, <2>1 DEF InsertPrepEntry, FinishItem, Prep, Preparing
<1>4. ASSUME NEW i \in Ingredient, SelectLots(r, i)
      PROVE  /\ owner' = owner
             /\ request'[r].step = "draw"
             /\ request'[r].take = request[r].take
             /\ request'[r].read = request[r].read
  <2> DEFINE lots == {l \in Lot : lot[l].ingredient = i /\ lot[l].remaining > 0}
             n == recipe[request[r].dish][i]
  <2> HIDE DEF lots, n
  <2>1. request'[r] = [request[r] EXCEPT
          !.step = "draw", !.left = @ \ {i}, !.need = n, !.todo = lots]
    BY <1>4, OwnKeeps DEF SelectLots, lots, n
  <2> QED BY <1>1, <1>4, <2>1 DEF SelectLots, Prep
<1> QED BY <1>2, <1>3, <1>4

LEMMA PrepLocked ==
  ASSUME TypeOK, LocksInv, NEW r \in Request,
         \/ FindRecipe(r) \/ InsertPrepEntry(r) \/ FinishItem(r)
         \/ \E i \in Ingredient : SelectLots(r, i)
         \/ \E l \in Lot : LockLot(r, l)
  PROVE  LocksInv'
<1>1. request[r] \in Prep /\ Preparing(r)
  BY PrepShape
  DEF Preparing, FindRecipe, InsertPrepEntry, FinishItem, SelectLots, LockLot
<1>2. lot' = lot /\ \A q \in Request \ {r} : request'[q] = request[q]
  BY OthersKeep DEF FindRecipe, InsertPrepEntry, FinishItem, SelectLots, LockLot
<1>3. request'[r].step \notin {"buy", "look", "adjust"}
  <2>1. ASSUME NEW l \in Lot, LockLot(r, l) PROVE request'[r].step = "draw"
    BY <1>1, <2>1, OwnKeeps DEF LockLot, Prep
  <2> QED BY <2>1, PrepStep
<1>4. ASSUME NEW q \in Request \ {r}, Preparing(q)
      PROVE  \A l \in Lot : owner[l] = q => owner'[l] = q
  BY RecipeAssumption
  DEF FindRecipe, InsertPrepEntry, FinishItem, SelectLots, LockLot, TypeOK
<1>5. ASSUME Preparing(r)', NEW l \in Lot
      PROVE  /\ request'[r].take[l] > 0 =>
                  owner'[l] = r /\ request'[r].read[l] = lot'[l].remaining
             /\ request'[r].take[l] <= request'[r].read[l]
  <2>1. CASE /\ FindRecipe(r) \/ InsertPrepEntry(r) \/ FinishItem(r)
                 \/ \E i \in Ingredient : SelectLots(r, i)
    <3>1. owner' = owner /\ request'[r].take = request[r].take
            /\ request'[r].read = request[r].read
      BY <1>5, <2>1, PrepStep
    <3> QED BY <1>1, <1>2, <3>1 DEF LocksInv, DrawsAreLocked
  <2>2. ASSUME NEW k \in Lot, LockLot(r, k)
        PROVE  /\ request'[r].take[l] > 0 =>
                    owner'[l] = r /\ request'[r].read[l] = lot'[l].remaining
               /\ request'[r].take[l] <= request'[r].read[l]
    <3> DEFINE draw == Smaller(lot[k].remaining, request[r].need)
    <3>1. /\ request'[r].take = [request[r].take EXCEPT ![k] = draw]
          /\ request'[r].read = [request[r].read EXCEPT ![k] = lot[k].remaining]
          /\ owner' = [owner EXCEPT ![k] = r]
      BY <1>1, <2>2, OwnKeeps DEF LockLot, Prep
    <3>2. draw <= lot[k].remaining
      BY <1>1 DEF Smaller, TypeOK, LotRow, NoLot, Prep
    <3>3. /\ request[r].take \in [Lot -> Nat] /\ request[r].read \in [Lot -> Nat]
          /\ owner \in [Lot -> Request \cup {None}]
      BY <1>1 DEF Prep, TypeOK
    <3> HIDE DEF draw
    <3>4. CASE l = k BY <1>2, <3>1, <3>2, <3>3, <3>4
    <3>5. CASE l # k
      BY <1>1, <1>2, <3>1, <3>3, <3>5 DEF LocksInv, DrawsAreLocked
    <3> QED BY <3>4, <3>5
  <2> QED BY <2>1, <2>2
<1>6. DrawsAreLocked'
  <2> SUFFICES ASSUME NEW q \in Request \ {r}, Preparing(q)'
               PROVE  \A l \in Lot :
                        /\ request'[q].take[l] > 0 =>
                             owner'[l] = q /\ request'[q].read[l] = lot'[l].remaining
                        /\ request'[q].take[l] <= request'[q].read[l]
    BY <1>5 DEF DrawsAreLocked
  <2>1. request'[q] = request[q] /\ Preparing(q)
    BY <1>2 DEF Preparing
  <2> QED BY <1>2, <1>4, <2>1, OthersStayLocked DEF LocksInv
<1>7. \A l \in Lot : OnShelf(l)' = OnShelf(l) BY <1>2 DEF OnShelf
<1> QED BY <1>2, <1>3, <1>6, <1>7, PrepKeepsRest DEF LocksInv

LEMMA EndLocked ==
  ASSUME TypeOK, LocksInv, NEW r \in Request,
         StopShort(r) \/ CommitPrep(r) \/ AbortDeadlocked(r) \/ LoseRequest(r)
  PROVE  LocksInv'
<1>1. /\ \A q \in Request \ {r} : request'[q] = request[q]
      /\ request'[r].step \in {"done", "short", "failed"}
  BY OthersKeep, OwnKeeps
  DEF StopShort, CommitPrep, AbortDeadlocked, LoseRequest, Done, Short, Failed
<1>2. ASSUME NEW l \in Lot, lot'[l] # lot[l]
      PROVE  CommitPrep(r) /\ request[r].take[l] > 0
  BY <1>2 DEF StopShort, CommitPrep, AbortDeadlocked, LoseRequest, TypeOK
<1>3. ASSUME NEW l \in Lot, lot'[l] # lot[l]
      PROVE  owner[l] = r /\ OnShelf(l) /\ OnShelf(l)'
  <2>1. Preparing(r) /\ request[r] \in Prep
    BY <1>2, <1>3, PrepShape DEF CommitPrep, DrawnAll, Preparing
  <2>2. /\ owner[l] = r /\ request[r].read[l] = lot[l].remaining
        /\ request[r].take[l] <= request[r].read[l]
    BY <1>2, <1>3, <2>1 DEF LocksInv, DrawsAreLocked
  <2>3. request[r].take[l] \in Nat BY <2>1 DEF Prep
  <2>4. lot[l] # NoLot BY <1>2, <1>3, <2>2, <2>3 DEF NoLot
  <2>5. lot[l] \in LotRow BY <2>4 DEF TypeOK
  <2>6. lot'[l].ingredient = lot[l].ingredient
    BY <1>2, <1>3, <2>5 DEF CommitPrep, TypeOK, LotRow
  <2>7. lot'[l].ingredient # None BY <2>5, <2>6, RecipeAssumption DEF LotRow
  <2> QED BY <2>2, <2>4, <2>7 DEF OnShelf, NoLot
<1>4. \A l \in Lot : OnShelf(l)' = OnShelf(l)
  BY <1>3 DEF OnShelf
<1>5. ASSUME NEW q \in Request \ {r}, NEW l \in Lot, owner[l] = q
      PROVE  owner'[l] = q /\ lot'[l] = lot[l]
  <2>1. owner'[l] = q
    BY <1>5 DEF StopShort, CommitPrep, AbortDeadlocked, LoseRequest, Release
  <2> QED BY <1>3, <1>5, <2>1
<1>6. DrawsAreLocked'
  <2> SUFFICES ASSUME NEW q \in Request, Preparing(q)'
               PROVE  \A l \in Lot :
                        /\ request'[q].take[l] > 0 =>
                             owner'[l] = q /\ request'[q].read[l] = lot'[l].remaining
                        /\ request'[q].take[l] <= request'[q].read[l]
    BY DEF DrawsAreLocked
  <2>1. q # r BY <1>1 DEF Preparing
  <2>2. request'[q] = request[q] /\ Preparing(q) BY <1>1, <2>1 DEF Preparing
  <2> QED BY <1>5, <2>1, <2>2, OthersStayLocked DEF LocksInv
<1> QED BY <1>1, <1>4, <1>6, PrepKeepsRest DEF LocksInv

-----------------------------------------------------------------------------
LEMMA StepKeeps ==
  ASSUME TypeOK, LocksInv, [Next]_vars
  PROVE  TypeOK' /\ LocksInv'
<1>1. CASE UNCHANGED vars
  BY <1>1
  DEF vars, TypeOK, LocksInv, DrawsAreLocked, PurchasesAreFresh,
      AdjustmentsHaveLots, Preparing, OnShelf
<1>2. ASSUME NEW r \in Request, Begin(r) \/ Proceed(r) \/ LoseRequest(r)
      PROVE  TypeOK' /\ LocksInv'
  <2>1. TypeOK'
    BY <1>2, BeginTyped, StockTyped, PrepTyped, CommitTyped, EndTyped DEF Proceed
  <2>2. LocksInv'
    BY <1>2, BeginLocked, StockLocked, PrepLocked, EndLocked DEF Proceed
  <2> QED BY <2>1, <2>2
<1> QED BY <1>1, <1>2 DEF Next

(***************************************************************************)
(* The tables and the requests keep their shape: no balance is ever below  *)
(* zero.                                                                   *)
(***************************************************************************)
THEOREM TypeCorrect == Spec => []TypeOK
<1>1. (TypeOK /\ LocksInv) /\ [Next]_vars => (TypeOK /\ LocksInv)'
  BY StepKeeps
<1> QED BY KitchenInit, <1>1, PTL DEF Spec

(***************************************************************************)
(* Two-phase locking: what a prep has read and drawn is what it overwrites *)
(* when it commits, whatever else the kitchen does meanwhile.              *)
(***************************************************************************)
THEOREM DrawsStayValid == Spec => []LocksInv
<1>1. (TypeOK /\ LocksInv) /\ [Next]_vars => (TypeOK /\ LocksInv)'
  BY StepKeeps
<1> QED BY KitchenInit, <1>1, PTL DEF Spec

-----------------------------------------------------------------------------
(***************************************************************************)
(* Balances and movements agree as long as nothing has to be rounded:      *)
(* quantities of whole thousandths stay whole, and draws are valid.        *)
(***************************************************************************)
Balanced ==
  /\ \A l \in Lot : lot[l].remaining % 2 = 0 /\ lot[l].remaining = ledger[l]
  /\ \A r \in Request : Preparing(r) =>
       request[r].need % 2 = 0 /\ \A l \in Lot : request[r].take[l] % 2 = 0

LEMMA WholeArithmetic ==
  ASSUME NEW x \in Int, NEW y \in Int, x % 2 = 0, y % 2 = 0
  PROVE  (x + y) % 2 = 0 /\ (x - y) % 2 = 0 /\ Stored(x) = x
BY DEF Stored

LEMMA BalancedInit ==
  ASSUME WholeUnits, Init
  PROVE  Balanced
BY DEF WholeUnits, Init, Balanced, Preparing, New

\* The requests that prep nothing, and those that draw nothing.
LEMMA BalancedOthers ==
  ASSUME TypeOK, Balanced, NEW r \in Request, NEW s, SetRequest(r, s),
         UNCHANGED <<lot, ledger>>,
         Preparing(r)' =>
           request'[r].need % 2 = 0 /\ \A l \in Lot : request'[r].take[l] % 2 = 0
  PROVE  Balanced'
<1>1. \A q \in Request \ {r} : request'[q] = request[q] BY OthersKeep
<1> QED BY <1>1 DEF Balanced, Preparing

LEMMA BalancedStep ==
  ASSUME WholeUnits, TypeOK, LocksInv, Balanced, NEW r \in Request,
         Begin(r) \/ Proceed(r) \/ LoseRequest(r)
  PROVE  Balanced'
<1>1. CASE Begin(r)
  <2>1. ASSUME NEW d \in Dish, BeginPrep(r, d) PROVE Balanced'
    <3>1. request'[r].need = 0 /\ request'[r].take = Zero
      BY <2>1, OwnKeeps DEF BeginPrep
    <3>2. request'[r].need % 2 = 0 /\ \A l \in Lot : request'[r].take[l] % 2 = 0
      BY <3>1 DEF Zero
    <3> QED BY <2>1, <3>2, BalancedOthers DEF BeginPrep
  <2>2. ASSUME NEW l \in Lot, NEW i \in Ingredient, NEW expiry \in Expiries,
               NEW qty \in Quantities, BeginPurchase(r, l, i, expiry, qty)
        PROVE  Balanced'
    <3>1. ~Preparing(r)' BY <2>2, OwnKeeps DEF BeginPurchase, Preparing
    <3> QED BY <2>2, <3>1, BalancedOthers DEF BeginPurchase
  <2>3. ASSUME NEW l \in Lot, NEW delta \in Deltas, BeginAdjustment(r, l, delta)
        PROVE  Balanced'
    <3>1. ~Preparing(r)' BY <2>3, OwnKeeps DEF BeginAdjustment, Preparing
    <3> QED BY <2>3, <3>1, BalancedOthers DEF BeginAdjustment
  <2> QED BY <1>1, <2>1, <2>2, <2>3 DEF Begin
<1>2. CASE AddLot(r)
  <2>1. PICK k \in Lot, qty \in Quantities : request[r].lot = k /\ request[r].qty = qty
    BY <1>2, PurchaseShape DEF AddLot, Purchase
  <2>2. Stored(qty) = qty /\ qty % 2 = 0
    <3>1. qty \in Int /\ qty % 2 = 0 BY StockAssumption DEF WholeUnits
    <3> QED BY <3>1, WholeArithmetic
  <2>3. /\ lot'[k].remaining = qty /\ ledger'[k] = qty
        /\ \A l \in Lot \ {k} : lot'[l] = lot[l] /\ ledger'[l] = ledger[l]
    BY <1>2, <2>1, <2>2 DEF AddLot, TypeOK
  <2>4. /\ request'[r].step = "done"
        /\ \A q \in Request \ {r} : request'[q] = request[q]
    BY <1>2, OwnKeeps, OthersKeep DEF AddLot, Done
  <2> QED BY <2>2, <2>3, <2>4 DEF Balanced, Preparing
<1>3. CASE FindLot(r)
  <2>1. request'[r].step = "adjust"
    BY <1>3, OwnKeeps, AdjustmentShape DEF FindLot, Adjustment
  <2>2. ~Preparing(r)' BY <2>1 DEF Preparing
  <2> QED BY <1>3, <2>2, BalancedOthers DEF FindLot
<1>4. CASE AdjustLot(r)
  <2>1. PICK k \in Lot, delta \in Deltas : request[r].lot = k /\ request[r].delta = delta
    BY <1>4, AdjustmentShape DEF AdjustLot, Adjustment
  <2>2. lot[k].remaining \in Int /\ lot[k].remaining % 2 = 0
    BY DEF TypeOK, LotRow, NoLot, Balanced
  <2>3. /\ Stored(delta) = delta
        /\ (lot[k].remaining + delta) % 2 = 0
        /\ Stored(lot[k].remaining + delta) = lot[k].remaining + delta
    <3>1. delta \in Int /\ delta % 2 = 0 BY StockAssumption DEF WholeUnits
    <3>2. (lot[k].remaining + delta) % 2 = 0 /\ lot[k].remaining + delta \in Int
      BY <2>2, <3>1, WholeArithmetic
    <3> QED BY <3>1, <3>2, WholeArithmetic
  <2>4. /\ request'[r].step \in {"done", "short"}
        /\ \A q \in Request \ {r} : request'[q] = request[q]
    BY <1>4, OwnKeeps, OthersKeep DEF AdjustLot, Done, Short
  <2>5. CASE UNCHANGED <<lot, ledger>>
    BY <2>4, <2>5 DEF Balanced, Preparing
  <2>6. CASE /\ lot' = [lot EXCEPT ![k].remaining = Stored(lot[k].remaining + delta)]
             /\ ledger' = [ledger EXCEPT ![k] = @ + Stored(delta)]
    <3>1. lot[k] \in LotRow
      BY <1>4, <2>1 DEF LocksInv, AdjustmentsHaveLots, AdjustLot, OnShelf, TypeOK
    <3>2. /\ lot'[k].remaining = lot[k].remaining + delta
          /\ ledger'[k] = ledger[k] + delta
          /\ \A l \in Lot \ {k} : lot'[l] = lot[l] /\ ledger'[l] = ledger[l]
      BY <2>3, <2>6, <3>1 DEF TypeOK, LotRow
    <3> QED BY <2>3, <2>4, <3>2 DEF Balanced, Preparing
  <2> QED BY <1>4, <2>1, <2>5, <2>6 DEF AdjustLot
<1>5. CASE FindRecipe(r) \/ InsertPrepEntry(r) \/ FinishItem(r)
  <2>1. request[r] \in Prep /\ Preparing(r)
    BY <1>5, PrepShape DEF Preparing, FindRecipe, InsertPrepEntry, FinishItem
  <2>2. Preparing(r)' => /\ request'[r].need = request[r].need
                         /\ request'[r].take = request[r].take
    <3>1. \/ request'[r] = Failed
          \/ request'[r] = [request[r] EXCEPT !.step = "insert"]
          \/ request'[r] = [request[r] EXCEPT !.step = "pick"]
      BY <1>5, OwnKeeps DEF FindRecipe, InsertPrepEntry, FinishItem
    <3> QED BY <2>1, <3>1 DEF Failed, Prep, Preparing
  <2>3. UNCHANGED <<lot, ledger>> BY <1>5 DEF FindRecipe, InsertPrepEntry, FinishItem
  <2>4. \A q \in Request \ {r} : request'[q] = request[q]
    BY <1>5, OthersKeep DEF FindRecipe, InsertPrepEntry, FinishItem
  <2> QED BY <2>1, <2>2, <2>3, <2>4 DEF Balanced, Preparing
<1>6. ASSUME NEW i \in Ingredient, SelectLots(r, i) PROVE Balanced'
  <2>1. request[r] \in Prep /\ Preparing(r)
    BY <1>6, PrepShape DEF Preparing, SelectLots
  <2>2. PICK d \in Dish : request[r].dish = d BY <2>1 DEF Prep
  <2> DEFINE lots == {l \in Lot : lot[l].ingredient = i /\ lot[l].remaining > 0}
             n == recipe[d][i]
  <2>3. n % 2 = 0 BY DEF WholeUnits
  <2> HIDE DEF lots, n
  <2>4. request'[r] = [request[r] EXCEPT
          !.step = "draw", !.left = @ \ {i}, !.need = n, !.todo = lots]
    BY <1>6, <2>2, OwnKeeps DEF SelectLots, lots, n
  <2>5. request'[r].need = n /\ request'[r].take = request[r].take
    BY <2>1, <2>4 DEF Prep
  <2>6. \A q \in Request \ {r} : request'[q] = request[q]
    BY <1>6, OthersKeep DEF SelectLots
  <2>7. UNCHANGED <<lot, ledger>> BY <1>6 DEF SelectLots
  <2> QED BY <2>1, <2>3, <2>5, <2>6, <2>7 DEF Balanced, Preparing
<1>7. ASSUME NEW k \in Lot, LockLot(r, k) PROVE Balanced'
  <2>1. request[r] \in Prep /\ Preparing(r)
    BY <1>7, PrepShape DEF Preparing, LockLot
  <2> DEFINE draw == Smaller(lot[k].remaining, request[r].need)
  <2>2. request[r].need \in Int /\ lot[k].remaining \in Int
    BY <2>1 DEF Prep, TypeOK, LotRow, NoLot
  <2>3. draw \in Int /\ draw % 2 = 0
    BY <2>1, <2>2 DEF Smaller, Balanced
  <2>4. (request[r].need - draw) % 2 = 0
    <3>1. request[r].need % 2 = 0 BY <2>1 DEF Balanced
    <3> HIDE DEF draw
    <3> QED BY <2>2, <2>3, <3>1, WholeArithmetic
  <2>5. /\ request'[r].need = request[r].need - draw
        /\ request'[r].take = [request[r].take EXCEPT ![k] = draw]
    BY <1>7, <2>1, OwnKeeps DEF LockLot, Prep
  <2>6. request[r].take \in [Lot -> Nat] BY <2>1 DEF Prep
  <2> HIDE DEF draw
  <2>7. request'[r].need % 2 = 0 /\ \A l \in Lot : request'[r].take[l] % 2 = 0
    BY <2>1, <2>3, <2>4, <2>5, <2>6 DEF Balanced
  <2>8. \A q \in Request \ {r} : request'[q] = request[q]
    BY <1>7, OthersKeep DEF LockLot
  <2>9. UNCHANGED <<lot, ledger>> BY <1>7 DEF LockLot
  <2> QED BY <2>7, <2>8, <2>9 DEF Balanced, Preparing
<1>8. CASE StopShort(r) \/ AbortDeadlocked(r) \/ LoseRequest(r)
  <2>1. /\ request'[r].step \in {"short", "failed"}
        /\ \A q \in Request \ {r} : request'[q] = request[q]
    BY <1>8, OwnKeeps, OthersKeep
    DEF StopShort, AbortDeadlocked, LoseRequest, Short, Failed
  <2>2. UNCHANGED <<lot, ledger>>
    BY <1>8 DEF StopShort, AbortDeadlocked, LoseRequest
  <2> QED BY <2>1, <2>2 DEF Balanced, Preparing
<1>9. CASE CommitPrep(r)
  <2>1. request[r] \in Prep /\ Preparing(r)
    BY <1>9, PrepShape DEF Preparing, CommitPrep, DrawnAll
  <2>2. /\ request'[r].step = "done"
        /\ \A q \in Request \ {r} : request'[q] = request[q]
    BY <1>9, OwnKeeps, OthersKeep DEF CommitPrep, Done
  <2>3. ASSUME NEW l \in Lot
        PROVE  /\ lot'[l].remaining % 2 = 0
               /\ lot'[l].remaining = ledger'[l]
    <3> DEFINE t == request[r].take[l]
    <3>1. t \in Nat /\ lot[l].remaining \in Nat
      BY <2>1 DEF Prep, TypeOK, LotRow, NoLot
    <3>2. t % 2 = 0 /\ lot[l].remaining % 2 = 0 /\ lot[l].remaining = ledger[l]
      BY <2>1 DEF Balanced
    <3>3. ledger'[l] = ledger[l] - Stored(t) BY <1>9 DEF CommitPrep
    <3>4. Stored(t) = t
      <4> HIDE DEF t
      <4> QED BY <3>1, <3>2, WholeArithmetic
    <3>5. CASE t > 0
      <4>1. request[r].read[l] = lot[l].remaining
        BY <2>1, <3>5 DEF LocksInv, DrawsAreLocked
      <4>2. lot[l] \in LotRow
        <5>1. t <= lot[l].remaining
          BY <2>1, <4>1 DEF LocksInv, DrawsAreLocked
        <5>2. lot[l] # NoLot BY <3>1, <3>5, <5>1 DEF NoLot
        <5> QED BY <5>2 DEF TypeOK
      <4>3. lot'[l].remaining = Stored(lot[l].remaining - t)
        BY <1>9, <3>5, <4>1, <4>2 DEF CommitPrep, LotRow
      <4> HIDE DEF t
      <4>4. /\ (lot[l].remaining - t) % 2 = 0
            /\ lot[l].remaining - t \in Int
        <5>1. t \in Int /\ lot[l].remaining \in Int BY <3>1
        <5>2. t % 2 = 0 /\ lot[l].remaining % 2 = 0 BY <3>2
        <5>3. lot[l].remaining - t \in Int BY <5>1
        <5> QED BY <5>1, <5>2, <5>3, WholeArithmetic
      <4>5. Stored(lot[l].remaining - t) = lot[l].remaining - t
        BY <4>4, WholeArithmetic
      <4> QED BY <3>2, <3>3, <3>4, <4>3, <4>4, <4>5
    <3>6. CASE t = 0
      <4>1. lot'[l] = lot[l] BY <1>9, <3>6 DEF CommitPrep
      <4>2. ledger'[l] = ledger[l] BY <3>1, <3>3, <3>4, <3>6 DEF TypeOK
      <4> QED BY <3>2, <4>1, <4>2
    <3> QED BY <3>1, <3>5, <3>6
  <2> QED BY <2>2, <2>3 DEF Balanced, Preparing
<1> QED BY <1>1, <1>2, <1>3, <1>4, <1>5, <1>6, <1>7, <1>8, <1>9 DEF Proceed

(***************************************************************************)
(* The seed's own check, "Inventory movements do not sum to the lot        *)
(* quantity remaining", holds of every history of purchases, adjustments   *)
(* and preps whose quantities are whole thousandths.                       *)
(***************************************************************************)
THEOREM LedgerBalances ==
  ASSUME WholeUnits
  PROVE  Spec => []BalanceMatchesLedger
<1>1. Init => TypeOK /\ LocksInv /\ Balanced
  BY KitchenInit, BalancedInit
<1>2. (TypeOK /\ LocksInv /\ Balanced) /\ [Next]_vars
        => (TypeOK /\ LocksInv /\ Balanced)'
  <2> SUFFICES ASSUME TypeOK, LocksInv, Balanced, [Next]_vars
               PROVE  TypeOK' /\ LocksInv' /\ Balanced'
    OBVIOUS
  <2>1. TypeOK' /\ LocksInv' BY StepKeeps
  <2>2. UNCHANGED vars => Balanced' BY DEF vars, Balanced, Preparing
  <2>3. Next => Balanced' BY BalancedStep DEF Next
  <2> QED BY <2>1, <2>2, <2>3
<1>3. TypeOK /\ LocksInv /\ Balanced => BalanceMatchesLedger
  BY DEF Balanced, BalanceMatchesLedger
<1> QED BY <1>1, <1>2, <1>3, PTL DEF Spec
-----------------------------------------------------------------------------
(***************************************************************************)
(* First expired, first out.                                               *)
(***************************************************************************)

\* A lot on the shelf stays what it is, and when it expires.
LEMMA LotsKeep ==
  ASSUME TypeOK, LocksInv, NEW r \in Request,
         Begin(r) \/ Proceed(r) \/ LoseRequest(r),
         NEW l \in Lot, OnShelf(l)
  PROVE  /\ OnShelf(l)'
         /\ lot'[l].ingredient = lot[l].ingredient
         /\ lot'[l].expiry = lot[l].expiry
<1>1. lot[l] \in LotRow BY DEF OnShelf, TypeOK
<1>2. CASE lot'[l] = lot[l]
  BY <1>2 DEF OnShelf
<1>3. ASSUME NEW n, lot'[l] = [lot[l] EXCEPT !.remaining = n]
      PROVE  /\ OnShelf(l)'
             /\ lot'[l].ingredient = lot[l].ingredient
             /\ lot'[l].expiry = lot[l].expiry
  <2>1. /\ lot'[l].ingredient = lot[l].ingredient
        /\ lot'[l].expiry = lot[l].expiry
    BY <1>1, <1>3 DEF LotRow
  <2>2. lot'[l].ingredient # None
    BY <1>1, <2>1, RecipeAssumption DEF LotRow
  <2> QED BY <2>1, <2>2 DEF OnShelf, NoLot
<1>4. CASE Begin(r)
  BY <1>2, <1>4 DEF Begin, BeginPurchase, BeginAdjustment, BeginPrep
<1>5. CASE AddLot(r)
  <2>1. ~OnShelf(request[r].lot)
    BY <1>5 DEF AddLot, LocksInv, PurchasesAreFresh
  <2> QED BY <1>2, <1>5, <2>1 DEF AddLot, TypeOK
<1>6. CASE AdjustLot(r)
  <2>1. \/ lot' = lot
        \/ \E n : lot' = [lot EXCEPT ![request[r].lot].remaining = n]
    BY <1>6 DEF AdjustLot
  <2> QED BY <1>2, <1>3, <2>1 DEF TypeOK
<1>7. CASE CommitPrep(r)
  <2>1. \/ lot'[l] = lot[l]
        \/ \E n : lot'[l] = [lot[l] EXCEPT !.remaining = n]
    BY <1>7 DEF CommitPrep
  <2> QED BY <1>2, <1>3, <2>1
<1>8. CASE lot' = lot
  BY <1>2, <1>8
<1> QED
  BY <1>4, <1>5, <1>6, <1>7, <1>8
  DEF Proceed, LoseRequest, FindLot, FindRecipe, InsertPrepEntry, SelectLots,
      LockLot, StopShort, FinishItem, AbortDeadlocked

\* What a prep has locked and chosen stays in order while others go on.
LEMMA StaysInOrder ==
  ASSUME TypeOK, LocksInv, NEW r \in Request,
         Begin(r) \/ Proceed(r) \/ LoseRequest(r),
         NEW p \in Prep, \A l \in Lot : p.take[l] <= p.read[l], InOrder(p)
  PROVE  InOrder(p)'
<1>1. /\ \A l \in Lot : p.read[l] > 0 => OnShelf(l)
      /\ \A l \in p.todo : OnShelf(l) /\ l \in Lot
  BY DEF InOrder, Prep
<1>2. \A l \in Lot : OnShelf(l) =>
        /\ OnShelf(l)'
        /\ lot'[l].ingredient = lot[l].ingredient
        /\ lot'[l].expiry = lot[l].expiry
  BY LotsKeep
<1>3. \A l \in Lot : p.take[l] > 0 => p.read[l] > 0
  BY DEF Prep
<1> QED
  BY <1>1, <1>2, <1>3 DEF InOrder

\* InOrder looks at nothing but these parts of a prep.
LEMMA SameOrder ==
  ASSUME NEW p, NEW q, InOrder(p),
         q.left = p.left, q.need = p.need, q.todo = p.todo,
         q.read = p.read, q.take = p.take
  PROVE  InOrder(q)
BY DEF InOrder

\* What order asks of a prep, pair by pair.
LEMMA IsInOrder ==
  ASSUME NEW q, q.todo \subseteq Lot,
         \A l \in Lot : q.read[l] > 0 \/ l \in q.todo =>
           OnShelf(l) /\ lot[l].ingredient \notin q.left,
         \A l, m \in Lot :
           /\ q.read[l] > 0 /\ q.take[m] > 0
           /\ lot[l].ingredient = lot[m].ingredient /\ lot[l].expiry < lot[m].expiry
           => q.take[l] = q.read[l],
         \A l \in Lot, m \in q.todo :
           q.read[l] > 0 /\ lot[l].ingredient = lot[m].ingredient =>
             /\ lot[l].expiry <= lot[m].expiry
             /\ q.need > 0 => q.take[l] = q.read[l]
  PROVE  InOrder(q)
BY DEF InOrder

\* The lots of the next ingredient are chosen: none of them was locked before.
LEMMA ChoosesInOrder ==
  ASSUME TypeOK, NEW p \in Prep, InOrder(p), NEW q \in Prep, NEW i \in p.left,
         q.left = p.left \ {i}, q.read = p.read, q.take = p.take,
         q.todo = {l \in Lot : lot[l].ingredient = i /\ lot[l].remaining > 0}
  PROVE  InOrder(q)
<1>1. \A l \in Lot : p.read[l] > 0 =>
        OnShelf(l) /\ lot[l].ingredient \notin p.left
  BY DEF InOrder
<1>2. \A l \in q.todo : /\ lot[l].ingredient = i /\ l \in Lot
                       /\ OnShelf(l)
  BY DEF OnShelf, NoLot
<1>3. \A l, m \in Lot :
        /\ q.read[l] > 0 /\ q.take[m] > 0
        /\ lot[l].ingredient = lot[m].ingredient /\ lot[l].expiry < lot[m].expiry
        => q.take[l] = q.read[l]
  BY DEF InOrder
<1>4. \A l \in Lot : q.read[l] > 0 \/ l \in q.todo =>
        OnShelf(l) /\ lot[l].ingredient \notin q.left
  BY <1>1, <1>2
<1>5. \A l \in Lot, m \in q.todo :
        q.read[l] > 0 => lot[l].ingredient # lot[m].ingredient
  BY <1>1, <1>2
<1>6. q.todo \subseteq Lot OBVIOUS
<1> QED
  BY <1>3, <1>4, <1>5, <1>6, IsInOrder

\* The next lot is locked and drawn from: it comes before those still to lock,
\* and after those that were locked, which are used up if it is needed.
LEMMA LocksInOrder ==
  ASSUME TypeOK, NEW p \in Prep, \A l \in Lot : p.take[l] <= p.read[l], InOrder(p),
         NEW q \in Prep, NEW k \in p.todo, \A m \in p.todo \ {k} : Before(k, m),
         NEW draw, draw = Smaller(lot[k].remaining, p.need),
         q.left = p.left, q.todo = p.todo \ {k}, q.need = p.need - draw,
         q.read = [p.read EXCEPT ![k] = lot[k].remaining],
         q.take = [p.take EXCEPT ![k] = draw]
  PROVE  InOrder(q)
<1>1. /\ k \in Lot /\ p.need \in Nat /\ p.todo \subseteq Lot
      /\ p.read \in [Lot -> Nat] /\ p.take \in [Lot -> Nat]
  BY DEF Prep
<1>2. /\ lot[k].remaining \in Nat
      /\ \A l \in Lot : OnShelf(l) => lot[l].expiry \in Int
  <2>1. lot[k].remaining \in Nat BY <1>1 DEF TypeOK, LotRow, NoLot
  <2>2. ASSUME NEW l \in Lot, OnShelf(l) PROVE lot[l].expiry \in Int
    <3>1. lot[l] \in LotRow BY <2>2 DEF TypeOK, OnShelf
    <3> QED BY <3>1, StockAssumption DEF LotRow
  <2> QED BY <2>1, <2>2
<1>3. /\ draw \in Nat /\ draw <= p.need
      /\ p.need - draw > 0 => draw = lot[k].remaining
      /\ draw > 0 => p.need > 0
  BY <1>1, <1>2 DEF Smaller
<1>4. \A l \in Lot : q.read[l] > 0 => p.read[l] > 0 \/ l = k
  BY <1>1
<1>5. \A l \in Lot : p.take[l] > 0 => p.read[l] > 0
  BY <1>1
<1>6. \A l \in Lot : q.read[l] > 0 \/ l \in q.todo =>
        OnShelf(l) /\ lot[l].ingredient \notin q.left
  BY <1>4 DEF InOrder
<1>7. ASSUME NEW l \in Lot, NEW m \in Lot, q.read[l] > 0, q.take[m] > 0,
             lot[l].ingredient = lot[m].ingredient, lot[l].expiry < lot[m].expiry
      PROVE  q.take[l] = q.read[l]
  <2>1. CASE l = k /\ m = k
    BY <1>2, <1>6, <1>7, <2>1
  <2>2. CASE l = k /\ m # k
    <3>1. p.read[m] > 0 BY <1>1, <1>5, <1>7, <2>2
    <3>2. lot[m].expiry <= lot[k].expiry BY <1>7, <2>2, <3>1 DEF InOrder
    <3>3. OnShelf(m) /\ OnShelf(k) BY <3>1 DEF InOrder
    <3> QED BY <1>1, <1>2, <1>7, <2>2, <3>2, <3>3
  <2>3. CASE l # k /\ m = k
    <3>1. p.read[l] > 0 BY <1>1, <1>7, <2>3
    <3>2. p.need > 0 BY <1>1, <1>3, <1>7, <2>3
    <3>3. p.take[l] = p.read[l] BY <1>7, <2>3, <3>1, <3>2 DEF InOrder
    <3> QED BY <1>1, <2>3, <3>3
  <2>4. CASE l # k /\ m # k
    BY <1>1, <1>7, <2>4 DEF InOrder
  <2> QED BY <2>1, <2>2, <2>3, <2>4
<1>8. ASSUME NEW l \in Lot, NEW m \in q.todo, q.read[l] > 0,
             lot[l].ingredient = lot[m].ingredient
      PROVE  /\ lot[l].expiry <= lot[m].expiry
             /\ q.need > 0 => q.take[l] = q.read[l]
  <2>1. CASE l = k
    <3>1. Before(k, m) OBVIOUS
    <3>2. OnShelf(k) /\ OnShelf(m) BY DEF InOrder
    <3>3. lot[k].expiry <= lot[m].expiry BY <1>1, <1>2, <3>1, <3>2 DEF Before
    <3>4. q.need > 0 => q.take[k] = q.read[k] BY <1>1, <1>3
    <3> QED BY <2>1, <3>3, <3>4
  <2>2. CASE l # k
    <3>1. p.read[l] > 0 BY <1>1, <1>8, <2>2
    <3>2. /\ lot[l].expiry <= lot[m].expiry
          /\ p.need > 0 => p.take[l] = p.read[l]
      BY <1>8, <3>1 DEF InOrder
    <3>3. q.need > 0 => p.need > 0 BY <1>1, <1>3
    <3> QED BY <1>1, <2>2, <3>2, <3>3
  <2> QED BY <2>1, <2>2
<1> QED
  BY <1>6, <1>7, <1>8 DEF InOrder
\* Other requests' preps keep their order, whoever takes a step.
LEMMA OthersInOrder ==
  ASSUME TypeOK, LocksInv, DrawnInOrder, NEW r \in Request,
         Begin(r) \/ Proceed(r) \/ LoseRequest(r),
         NEW q \in Request, request'[q] = request[q], Preparing(q)
  PROVE  InOrder(request[q])'
<1>1. PICK p \in Prep : p = request[q] BY PrepShape
<1>2. InOrder(p) /\ \A l \in Lot : p.take[l] <= p.read[l]
  BY <1>1 DEF DrawnInOrder, LocksInv, DrawsAreLocked
<1>3. InOrder(p)' BY <1>2, StaysInOrder
<1> QED BY <1>1, <1>3

LEMMA SameLotsSameOrder ==
  ASSUME lot' = lot, NEW p, InOrder(p)
  PROVE  InOrder(p)'
BY DEF InOrder, OnShelf

\* A prep that goes on keeps its own order.
LEMMA OwnInOrder ==
  ASSUME TypeOK, LocksInv, DrawnInOrder, NEW r \in Request,
         \/ \E d \in Dish : BeginPrep(r, d)
         \/ FindRecipe(r) \/ InsertPrepEntry(r) \/ FinishItem(r)
         \/ \E i \in Ingredient : SelectLots(r, i)
         \/ \E l \in Lot : LockLot(r, l),
         Preparing(r)'
  PROVE  InOrder(request[r])'
<1>1. TypeOK' BY BeginTyped, PrepTyped DEF Begin
<1>2. PICK q \in Prep : q = request'[r]
  BY <1>1, PrepShape DEF TypeOK, Preparing, New, Done, Short, Failed, Prep, Purchase, Adjustment
<1>3. lot' = lot
  BY DEF BeginPrep, FindRecipe, InsertPrepEntry, FinishItem, SelectLots, LockLot
<1>4. SUFFICES InOrder(q)
  BY <1>2, <1>3, SameLotsSameOrder
<1>5. CASE \E d \in Dish : BeginPrep(r, d)
  <2>1. q.todo = {} /\ q.read = Zero /\ q.take = Zero
    BY <1>2, <1>5, OwnKeeps DEF BeginPrep
  <2> QED BY <2>1, IsInOrder DEF Zero
<1>6. ASSUME ~ \E d \in Dish : BeginPrep(r, d)
      PROVE  InOrder(q)
  <2>1. Preparing(r)
    BY <1>6
    DEF Preparing, FindRecipe, InsertPrepEntry, FinishItem, SelectLots, LockLot
  <2>2. PICK p \in Prep : p = request[r] BY <2>1, PrepShape
  <2>3. InOrder(p) /\ \A l \in Lot : p.take[l] <= p.read[l]
    BY <2>1, <2>2 DEF DrawnInOrder, LocksInv, DrawsAreLocked
  <2>4. CASE FindRecipe(r) \/ InsertPrepEntry(r) \/ FinishItem(r)
    <3>1. \/ q = Failed
          \/ q = [p EXCEPT !.step = "insert"]
          \/ q = [p EXCEPT !.step = "pick"]
      BY <1>2, <2>2, <2>4, OwnKeeps DEF FindRecipe, InsertPrepEntry, FinishItem
    <3>2. q # Failed BY <1>2 DEF Failed, Preparing
    <3>3. /\ q.left = p.left /\ q.need = p.need /\ q.todo = p.todo
          /\ q.read = p.read /\ q.take = p.take
      BY <3>1, <3>2 DEF Prep
    <3> QED BY <2>3, <3>3, SameOrder
  <2>5. ASSUME NEW i \in Ingredient, SelectLots(r, i) PROVE InOrder(q)
    <3> DEFINE lots == {l \in Lot : lot[l].ingredient = i /\ lot[l].remaining > 0}
               n == recipe[p.dish][i]
    <3>1. i \in p.left BY <2>2, <2>5 DEF SelectLots
    <3>2. q = [p EXCEPT !.step = "draw", !.left = @ \ {i}, !.need = n, !.todo = lots]
      BY <1>2, <2>2, <2>5, OwnKeeps DEF SelectLots
    <3> HIDE DEF lots, n
    <3>3. /\ q.left = p.left \ {i} /\ q.todo = lots
          /\ q.read = p.read /\ q.take = p.take
      BY <3>2 DEF Prep
    <3> QED BY <2>3, <3>1, <3>3, ChoosesInOrder DEF lots
  <2>6. ASSUME NEW k \in Lot, LockLot(r, k) PROVE InOrder(q)
    <3> DEFINE draw == Smaller(lot[k].remaining, p.need)
    <3>1. k \in p.todo /\ \A m \in p.todo \ {k} : Before(k, m)
      BY <2>2, <2>6 DEF LockLot, IsNext
    <3>2. request[r] \in Prep BY <2>2
    <3> DEFINE own == request[r]
               next == request'[r]
               drawn == Smaller(lot[k].remaining, own.need)
    <3>3. /\ next.left = own.left /\ next.todo = own.todo \ {k}
          /\ next.need = own.need - drawn
          /\ next.read = [own.read EXCEPT ![k] = lot[k].remaining]
          /\ next.take = [own.take EXCEPT ![k] = drawn]
      <4>1. next = [own EXCEPT !.todo = @ \ {k}, !.need = @ - drawn,
                               !.read[k] = lot[k].remaining, !.take[k] = drawn]
        BY <2>6, OwnKeeps DEF LockLot
      <4> HIDE DEF drawn, next
      <4> QED BY <3>2, <4>1 DEF Prep
    <3>4. /\ q.left = p.left /\ q.todo = p.todo \ {k} /\ q.need = p.need - draw
          /\ q.read = [p.read EXCEPT ![k] = lot[k].remaining]
          /\ q.take = [p.take EXCEPT ![k] = draw]
      BY <1>2, <2>2, <3>3
    <3> HIDE DEF draw
    <3> QED BY <2>3, <3>1, <3>4, LocksInOrder DEF draw
  <2> QED BY <1>6, <2>4, <2>5, <2>6
<1> QED BY <1>5, <1>6

LEMMA OrderKept ==
  ASSUME TypeOK, LocksInv, DrawnInOrder, NEW r \in Request,
         Begin(r) \/ Proceed(r) \/ LoseRequest(r)
  PROVE  DrawnInOrder'
<1> SUFFICES ASSUME NEW q \in Request, Preparing(q)'
             PROVE  InOrder(request[q])'
  BY DEF DrawnInOrder
<1>1. CASE q # r
  <2>1. request'[q] = request[q]
    BY <1>1, OthersKeep
    DEF Begin, BeginPurchase, BeginAdjustment, BeginPrep, Proceed, AddLot, FindLot,
        AdjustLot, FindRecipe, InsertPrepEntry, SelectLots, LockLot, StopShort,
        FinishItem, CommitPrep, AbortDeadlocked, LoseRequest
  <2>2. Preparing(q) BY <2>1 DEF Preparing
  <2> QED BY <2>1, <2>2, OthersInOrder
<1>2. CASE q = r
  <2>1. CASE \/ \E d \in Dish : BeginPrep(r, d)
             \/ FindRecipe(r) \/ InsertPrepEntry(r) \/ FinishItem(r)
             \/ \E i \in Ingredient : SelectLots(r, i)
             \/ \E l \in Lot : LockLot(r, l)
    BY <1>2, <2>1, OwnInOrder
  <2>2. CASE \/ \E l \in Lot, i \in Ingredient, e \in Expiries, n \in Quantities :
                  BeginPurchase(r, l, i, e, n)
             \/ \E l \in Lot, delta \in Deltas : BeginAdjustment(r, l, delta)
    <3>1. CASE \E l \in Lot, i \in Ingredient, e \in Expiries, n \in Quantities :
                 BeginPurchase(r, l, i, e, n)
      BY <1>2, <3>1, OwnKeeps DEF BeginPurchase, Preparing
    <3>2. CASE \E l \in Lot, delta \in Deltas : BeginAdjustment(r, l, delta)
      BY <1>2, <3>2, OwnKeeps DEF BeginAdjustment, Preparing
    <3> QED BY <2>2, <3>1, <3>2
  <2>3. CASE AddLot(r) \/ AdjustLot(r) \/ StopShort(r) \/ CommitPrep(r)
               \/ AbortDeadlocked(r) \/ LoseRequest(r)
    <3>1. request'[r].step \in {"done", "short", "failed"}
      BY <2>3, OwnKeeps
      DEF AddLot, AdjustLot, StopShort, CommitPrep, AbortDeadlocked, LoseRequest,
          Done, Short, Failed
    <3> QED BY <1>2, <3>1 DEF Preparing
  <2>4. CASE FindLot(r)
    <3>1. request'[r].step = "adjust"
      BY <2>4, OwnKeeps, AdjustmentShape DEF FindLot, Adjustment
    <3> QED BY <1>2, <3>1 DEF Preparing
  <2> QED BY <2>1, <2>2, <2>3, <2>4 DEF Begin, Proceed
<1> QED BY <1>1, <1>2

(***************************************************************************)
(* The draws of every prep go by expiry: what is locked later expires      *)
(* later, and is drawn from only when all before it is used up.            *)
(***************************************************************************)
THEOREM DrawsGoByExpiry == Spec => []KitchenInv
<1>1. Init => TypeOK /\ LocksInv /\ DrawnInOrder
  <2>1. Init => DrawnInOrder BY DEF Init, DrawnInOrder, Preparing, New
  <2> QED BY <2>1, KitchenInit
<1>2. (TypeOK /\ LocksInv /\ DrawnInOrder) /\ [Next]_vars
        => (TypeOK /\ LocksInv /\ DrawnInOrder)'
  <2> SUFFICES ASSUME TypeOK, LocksInv, DrawnInOrder, [Next]_vars
               PROVE  TypeOK' /\ LocksInv' /\ DrawnInOrder'
    OBVIOUS
  <2>1. TypeOK' /\ LocksInv' BY StepKeeps
  <2>2. UNCHANGED vars => DrawnInOrder'
    BY DEF vars, DrawnInOrder, Preparing, InOrder, OnShelf
  <2>3. Next => DrawnInOrder' BY OrderKept DEF Next
  <2> QED BY <2>1, <2>2, <2>3
<1>3. LocksInv /\ DrawnInOrder => KitchenInv BY DEF KitchenInv
<1> QED BY <1>1, <1>2, <1>3, PTL DEF Spec

(***************************************************************************)
(* A prep that used some of a lot leaves the lots it saw of the same       *)
(* ingredient that expire earlier empty, whatever else bought, corrected   *)
(* or cooked while it drew.                                                *)
(***************************************************************************)
THEOREM FirstOut == Spec => FirstExpiredFirstOut
<1>1. ASSUME TypeOK, LocksInv, DrawnInOrder, NEW r \in Request, NEW l \in Lot, NEW m \in Lot,
             CommitPrep(r), request[r].take[m] > 0, request[r].read[l] > 0,
             lot[l].ingredient = lot[m].ingredient, lot[l].expiry < lot[m].expiry
      PROVE  lot'[l].remaining = 0
  <2>1. Preparing(r) /\ request[r] \in Prep
    BY <1>1, PrepShape DEF CommitPrep, DrawnAll, Preparing
  <2>2. request[r].take[l] = request[r].read[l]
    BY <1>1, <2>1 DEF DrawnInOrder, InOrder
  <2>3. /\ request[r].take[l] > 0
        /\ request[r].read[l] - request[r].take[l] = 0
    BY <1>1, <2>1, <2>2 DEF Prep
  <2>4. lot'[l] = [lot[l] EXCEPT !.remaining = Stored(0)]
    BY <1>1, <2>3 DEF CommitPrep
  <2>5. lot'[l].remaining = Stored(0)
    BY <2>4 DEF TypeOK, LotRow, NoLot
  <2> QED BY <2>5 DEF Stored
<1>2. ASSUME TypeOK, LocksInv, DrawnInOrder
      PROVE  [\A r \in Request, l, m \in Lot :
                /\ CommitPrep(r)
                /\ request[r].take[m] > 0
                /\ request[r].read[l] > 0
                /\ lot[l].ingredient = lot[m].ingredient
                /\ lot[l].expiry < lot[m].expiry
                => lot'[l].remaining = 0]_vars
  BY <1>1, <1>2
<1>3. KitchenInv => LocksInv /\ DrawnInOrder BY DEF KitchenInv
<1> QED
  BY <1>2, <1>3, TypeCorrect, DrawsGoByExpiry, PTL DEF FirstExpiredFirstOut

-----------------------------------------------------------------------------
(***************************************************************************)
(* Cooking is all or nothing: Kitchen implements Pantry.                   *)
(***************************************************************************)

LEMMA LotsOfFinite ==
  ASSUME NEW i
  PROVE  LotsOf(i) \in SUBSET Lot /\ IsFiniteSet(LotsOf(i))
<1>1. LotsOf(i) \in SUBSET Lot BY DEF LotsOf
<1> QED BY <1>1, RecipeAssumption, FS_Subset

\* A prep has drawn nothing from a lot that is not on the shelf.
LEMMA NothingOffShelf ==
  ASSUME TypeOK, LocksInv, NEW q \in Request, Preparing(q),
         NEW l \in Lot, ~OnShelf(l)
  PROVE  request[q].take[l] = 0
<1>1. request[q].take[l] \in Nat /\ request[q].read[l] \in Nat
  BY PrepShape DEF Prep
<1>2. lot[l].remaining = 0 BY DEF OnShelf, NoLot
<1>3. /\ request[q].take[l] > 0 => request[q].read[l] = lot[l].remaining
      /\ request[q].take[l] <= request[q].read[l]
  BY DEF LocksInv, DrawsAreLocked
<1> QED BY <1>1, <1>2, <1>3

\* Lots come to an ingredient by purchases, and stay with it.
LEMMA LotsGrow ==
  ASSUME TypeOK, LocksInv, NEW r \in Request,
         Begin(r) \/ Proceed(r) \/ LoseRequest(r), NEW i \in Ingredient
  PROVE  \/ LotsOf(i)' = LotsOf(i)
         \/ /\ AddLot(r)
            /\ request[r].lot \in Lot \ LotsOf(i) /\ ~OnShelf(request[r].lot)
            /\ LotsOf(i)' = LotsOf(i) \cup {request[r].lot}
<1>1. \A l \in Lot : OnShelf(l) => lot'[l].ingredient = lot[l].ingredient
  BY LotsKeep
<1>2. \A l \in Lot : ~OnShelf(l) => lot[l].ingredient = None
  BY DEF OnShelf, NoLot
<1>3. i # None BY RecipeAssumption
<1>4. CASE AddLot(r)
  <2>1. request[r].lot \in Lot /\ ~OnShelf(request[r].lot)
    BY <1>4, PurchaseShape DEF AddLot, Purchase, LocksInv, PurchasesAreFresh
  <2>2. \A l \in Lot \ {request[r].lot} : lot'[l] = lot[l]
    BY <1>4 DEF AddLot, TypeOK
  <2>3. request[r].lot \notin LotsOf(i) BY <1>2, <1>3, <2>1 DEF LotsOf
  <2>4. CASE lot'[request[r].lot].ingredient = i
    <3>1. LotsOf(i)' = LotsOf(i) \cup {request[r].lot}
      BY <2>1, <2>2, <2>4 DEF LotsOf
    <3> QED BY <1>4, <2>1, <2>3, <3>1
  <2>5. CASE lot'[request[r].lot].ingredient # i
    <3>1. LotsOf(i)' = LotsOf(i)
      BY <2>1, <2>2, <2>3, <2>5 DEF LotsOf
    <3> QED BY <3>1
  <2> QED BY <2>4, <2>5
<1>5. ASSUME \A l \in Lot : ~OnShelf(l) => lot'[l] = lot[l]
      PROVE  LotsOf(i)' = LotsOf(i)
  <2>1. \A l \in Lot : lot'[l].ingredient = lot[l].ingredient BY <1>1, <1>5
  <2> QED BY <2>1 DEF LotsOf
<1>6. CASE AdjustLot(r)
  <2>1. request[r].lot \in Lot /\ OnShelf(request[r].lot)
    BY <1>6, AdjustmentShape DEF AdjustLot, Adjustment, LocksInv, AdjustmentsHaveLots
  <2>2. \A l \in Lot \ {request[r].lot} : lot'[l] = lot[l]
    BY <1>6 DEF AdjustLot, TypeOK
  <2> QED BY <1>5, <2>1, <2>2
<1>7. CASE CommitPrep(r)
  <2>1. Preparing(r) BY <1>7 DEF CommitPrep, DrawnAll, Preparing
  <2>2. ASSUME NEW l \in Lot, ~OnShelf(l) PROVE lot'[l] = lot[l]
    <3>1. request[r].take[l] = 0 BY <2>1, <2>2, NothingOffShelf
    <3> QED BY <1>7, <3>1 DEF CommitPrep
  <2> QED BY <1>5, <2>2
<1>8. CASE lot' = lot
  BY <1>8 DEF LotsOf
<1> QED
  BY <1>4, <1>6, <1>7, <1>8
  DEF Begin, BeginPurchase, BeginAdjustment, BeginPrep, Proceed, LoseRequest, FindLot,
      FindRecipe, InsertPrepEntry, SelectLots, LockLot, StopShort, FinishItem,
      AbortDeadlocked

\* What FollowsRecipe looks at.
LEMMA FollowsStill ==
  ASSUME NEW p, FollowsRecipe(p),
         \A i \in Ingredient :
           /\ LotsOf(i) \subseteq LotsOf(i)'
           /\ SumFunctionOnSet(p.take, LotsOf(i)') = SumFunctionOnSet(p.take, LotsOf(i))
  PROVE  FollowsRecipe(p)'
BY DEF FollowsRecipe

\* A prep that does nothing follows its recipe while others go on.
LEMMA OthersFollow ==
  ASSUME TypeOK, LocksInv, NEW r \in Request,
         Begin(r) \/ Proceed(r) \/ LoseRequest(r),
         NEW q \in Request, Preparing(q), FollowsRecipe(request[q])
  PROVE  \A p : p = request[q] => FollowsRecipe(p)'
<1> TAKE p
<1> HAVE p = request[q]
<1>1. p.take \in [Lot -> Nat] BY PrepShape DEF Prep
<1>2. FollowsRecipe(p) OBVIOUS
<1>3. ASSUME NEW i \in Ingredient
      PROVE  /\ LotsOf(i) \subseteq LotsOf(i)'
             /\ SumFunctionOnSet(p.take, LotsOf(i)') = SumFunctionOnSet(p.take, LotsOf(i))
  <2>1. CASE LotsOf(i)' = LotsOf(i)
    BY <2>1
  <2>2. ASSUME NEW l \in Lot \ LotsOf(i), ~OnShelf(l), LotsOf(i)' = LotsOf(i) \cup {l}
        PROVE  /\ LotsOf(i) \subseteq LotsOf(i)'
               /\ SumFunctionOnSet(p.take, LotsOf(i)') = SumFunctionOnSet(p.take, LotsOf(i))
    <3> DEFINE S == LotsOf(i)
               t == p.take
    <3>1. p.take[l] = 0 BY <2>2, NothingOffShelf
    <3>2. IsFiniteSet(S) /\ S \in SUBSET Lot BY LotsOfFinite
    <3>3. l \notin S BY <2>2
    <3>4. \A x \in S \cup {l} : t[x] \in Int BY <1>1, <2>2, <3>2
    <3> HIDE DEF S, t
    <3>5. SumFunctionOnSet(t, S \cup {l}) = t[l] + SumFunctionOnSet(t, S)
      BY <3>2, <3>3, <3>4, SumAdd
    <3>6. SumFunctionOnSet(t, S) \in Int BY <3>2, <3>4, SumType
    <3>7. SumFunctionOnSet(t, S \cup {l}) = SumFunctionOnSet(t, S)
      BY <3>1, <3>5, <3>6 DEF t
    <3> QED BY <2>2, <3>7 DEF S, t
  <2> QED BY <2>1, <2>2, LotsGrow
<1> HIDE DEF FollowsRecipe
<1> QED BY <1>2, <1>3, FollowsStill

\* A prep begins with nothing drawn and with all it needs ahead of it.
LEMMA BeginsByRecipe ==
  ASSUME NEW d \in Dish, NEW q, q.step # "draw", q.dish = d, q.left = Items(d),
         q.todo = {}, q.take = Zero
  PROVE  FollowsRecipe(q)
<1>1. ASSUME NEW i \in Ingredient \ Items(d)
      PROVE  SumFunctionOnSet(q.take, LotsOf(i)) = recipe[d][i]
  <2>1. recipe[d][i] = 0 BY RecipeAssumption DEF Items
  <2>2. \A l \in LotsOf(i) : q.take[l] = 0 BY LotsOfFinite DEF Zero
  <2>3. SumFunctionOnSet(q.take, LotsOf(i)) = 0 BY <2>2, LotsOfFinite, SumZero
  <2> QED BY <2>1, <2>3
<1> QED BY <1>1 DEF FollowsRecipe

\* The next item of the recipe: nothing was drawn for it before.
LEMMA ChoosesByRecipe ==
  ASSUME TypeOK, NEW p \in Prep, FollowsRecipe(p), InOrder(p), p.step # "draw",
         \A l \in Lot : p.take[l] <= p.read[l],
         NEW i \in p.left, NEW q, q.step = "draw", q.dish = p.dish, q.left = p.left \ {i},
         q.need = recipe[p.dish][i], q.take = p.take,
         q.todo = {l \in Lot : lot[l].ingredient = i /\ lot[l].remaining > 0}
  PROVE  FollowsRecipe(q)
<1>1. i \in Ingredient /\ p.dish \in Dish /\ recipe[p.dish][i] \in Nat
  BY RecipeAssumption DEF Prep
<1>2. ASSUME NEW l \in LotsOf(i) PROVE p.take[l] = 0
  <2>1. l \in Lot /\ lot[l].ingredient = i BY DEF LotsOf
  <2>2. p.read[l] \in Nat /\ p.take[l] \in Nat BY <2>1 DEF Prep
  <2>3. ~ (p.read[l] > 0) BY <2>1 DEF InOrder
  <2> QED BY <2>1, <2>2, <2>3
<1>3. SumFunctionOnSet(q.take, LotsOf(i)) = 0 BY <1>2, LotsOfFinite, SumZero
<1>4. q.todo \subseteq LotsOf(i) BY DEF LotsOf
<1>5. \A j \in (Ingredient \ q.left) \ {i} :
        SumFunctionOnSet(q.take, LotsOf(j)) = recipe[q.dish][j]
  BY DEF FollowsRecipe
<1>6. \A l \in q.todo : q.take[l] = 0 BY <1>2, <1>4
<1>7. SumFunctionOnSet(q.take, LotsOf(i)) + q.need = recipe[q.dish][i] BY <1>1, <1>3
<1>8. i \in Ingredient \ q.left BY <1>1
<1> QED BY <1>4, <1>5, <1>6, <1>7, <1>8 DEF FollowsRecipe

\* What a lot gives is no longer needed.
LEMMA DrawsByRecipe ==
  ASSUME NEW p \in Prep, FollowsRecipe(p), p.step = "draw",
         NEW k \in p.todo, NEW draw \in Nat, NEW q, q.step = "draw", q.dish = p.dish,
         q.left = p.left, q.todo = p.todo \ {k}, q.need = p.need - draw,
         q.take = [p.take EXCEPT ![k] = draw]
  PROVE  FollowsRecipe(q)
<1>1. PICK i \in Ingredient \ p.left :
        /\ p.todo \subseteq LotsOf(i)
        /\ SumFunctionOnSet(p.take, LotsOf(i)) + p.need = recipe[p.dish][i]
        /\ \A j \in (Ingredient \ p.left) \ {i} :
             SumFunctionOnSet(p.take, LotsOf(j)) = recipe[p.dish][j]
  BY DEF FollowsRecipe
<1>2. /\ k \in Lot /\ p.take \in [Lot -> Nat] /\ p.need \in Nat
      /\ p.take[k] = 0 /\ q.take[k] = draw
      /\ \A l \in Lot \ {k} : q.take[l] = p.take[l]
  BY DEF Prep, FollowsRecipe
<1>3. SumFunctionOnSet(q.take, LotsOf(i)) = SumFunctionOnSet(p.take, LotsOf(i)) + draw
  <2> DEFINE S == LotsOf(i)
             f == p.take
             h == q.take
  <2>1. IsFiniteSet(S) /\ k \in S /\ S \in SUBSET Lot BY <1>1, LotsOfFinite
  <2>2. h[k] \in Int /\ f[k] = 0 /\ \A l \in S : f[l] \in Int BY <1>2, <2>1
  <2>3. \A l \in S \ {k} : h[l] = f[l] BY <1>2, <2>1
  <2> HIDE DEF S, f, h
  <2>4. SumFunctionOnSet(h, S) = SumFunctionOnSet(f, S) - f[k] + h[k]
    BY <2>1, <2>2, <2>3, SumChange
  <2>5. SumFunctionOnSet(f, S) \in Int BY <2>1, <2>2, SumType
  <2>6. SumFunctionOnSet(h, S) = SumFunctionOnSet(f, S) + h[k] BY <2>2, <2>4, <2>5
  <2> QED BY <1>2, <2>6 DEF S, f, h
<1>4. SumFunctionOnSet(q.take, LotsOf(i)) + q.need = recipe[q.dish][i]
  <2>1. SumFunctionOnSet(p.take, LotsOf(i)) \in Int
    <3>1. \A l \in LotsOf(i) : p.take[l] \in Int BY <1>2, LotsOfFinite
    <3> QED BY <3>1, LotsOfFinite, SumType
  <2> QED BY <1>1, <1>2, <1>3, <2>1
<1>5. ASSUME NEW j \in (Ingredient \ q.left) \ {i}
      PROVE  SumFunctionOnSet(q.take, LotsOf(j)) = recipe[q.dish][j]
  <2>1. \A l \in LotsOf(j) : l # k BY <1>1 DEF LotsOf
  <2>2. \A l \in LotsOf(j) : p.take[l] \in Int /\ q.take[l] = p.take[l]
    BY <1>2, <2>1, LotsOfFinite
  <2>3. SumFunctionOnSet(q.take, LotsOf(j)) = SumFunctionOnSet(p.take, LotsOf(j))
    BY <2>2, LotsOfFinite, SumSame
  <2> QED BY <1>1, <2>3
<1>6. \A l \in q.todo : q.take[l] = 0
  <2>1. \A l \in p.todo : p.take[l] = 0 /\ l \in Lot BY DEF FollowsRecipe, Prep
  <2> QED BY <1>2, <2>1
<1>7. q.todo \subseteq LotsOf(i) /\ i \in Ingredient \ q.left BY <1>1
<1> QED BY <1>4, <1>5, <1>6, <1>7 DEF FollowsRecipe

\* An item is over when nothing of it is needed.
LEMMA EndsByRecipe ==
  ASSUME NEW p \in Prep, FollowsRecipe(p), p.step = "draw", p.need = 0,
         NEW q, q.step # "draw", q.dish = p.dish, q.left = p.left,
         q.todo = p.todo, q.take = p.take
  PROVE  FollowsRecipe(q)
<1>1. PICK i \in Ingredient \ p.left :
        /\ SumFunctionOnSet(p.take, LotsOf(i)) + p.need = recipe[p.dish][i]
        /\ \A j \in (Ingredient \ p.left) \ {i} :
             SumFunctionOnSet(p.take, LotsOf(j)) = recipe[p.dish][j]
  BY DEF FollowsRecipe
<1>2. \A l \in LotsOf(i) : p.take[l] \in Int BY LotsOfFinite DEF Prep
<1>3. SumFunctionOnSet(p.take, LotsOf(i)) \in Int BY <1>2, LotsOfFinite, SumType
<1>4. SumFunctionOnSet(p.take, LotsOf(i)) = recipe[p.dish][i] BY <1>1, <1>3
<1> QED BY <1>1, <1>4 DEF FollowsRecipe

\* FollowsRecipe looks at nothing but these parts of a prep.
LEMMA SameRecipe ==
  ASSUME NEW p, NEW q, FollowsRecipe(p), p.step # "draw", q.step # "draw",
         q.dish = p.dish, q.left = p.left, q.todo = p.todo, q.take = p.take
  PROVE  FollowsRecipe(q)
BY DEF FollowsRecipe

LEMMA SameLotsSameRecipe ==
  ASSUME lot' = lot, NEW p, FollowsRecipe(p)
  PROVE  FollowsRecipe(p)'
BY DEF FollowsRecipe, LotsOf

\* A prep that goes on keeps to its recipe.
LEMMA OwnFollows ==
  ASSUME TypeOK, LocksInv, DrawnInOrder, PrepsFollowRecipe, NEW r \in Request,
         \/ \E d \in Dish : BeginPrep(r, d)
         \/ FindRecipe(r) \/ InsertPrepEntry(r) \/ FinishItem(r)
         \/ \E i \in Ingredient : SelectLots(r, i)
         \/ \E l \in Lot : LockLot(r, l),
         Preparing(r)'
  PROVE  FollowsRecipe(request[r])'
<1>1. TypeOK' BY BeginTyped, PrepTyped DEF Begin
<1>2. PICK q \in Prep : q = request'[r]
  BY <1>1, PrepShape DEF TypeOK, Preparing, New, Done, Short, Failed, Prep, Purchase, Adjustment
<1>3. lot' = lot
  BY DEF BeginPrep, FindRecipe, InsertPrepEntry, FinishItem, SelectLots, LockLot
<1>4. SUFFICES FollowsRecipe(q)
  BY <1>2, <1>3, SameLotsSameRecipe
<1>5. ASSUME NEW d \in Dish, BeginPrep(r, d) PROVE FollowsRecipe(q)
  <2>1. /\ q.step = "recipe" /\ q.dish = d /\ q.left = Items(d)
        /\ q.todo = {} /\ q.take = Zero
    BY <1>2, <1>5, OwnKeeps DEF BeginPrep
  <2>2. q.step # "draw" BY <2>1
  <2> QED BY <2>1, <2>2, BeginsByRecipe
<1>6. ASSUME ~ \E d \in Dish : BeginPrep(r, d)
      PROVE  FollowsRecipe(q)
  <2>1. Preparing(r)
    BY <1>6
    DEF Preparing, FindRecipe, InsertPrepEntry, FinishItem, SelectLots, LockLot
  <2>2. PICK p \in Prep : p = request[r] BY <2>1, PrepShape
  <2>3. /\ FollowsRecipe(p) /\ InOrder(p)
        /\ \A l \in Lot : p.take[l] <= p.read[l]
    BY <2>1, <2>2 DEF PrepsFollowRecipe, DrawnInOrder, LocksInv, DrawsAreLocked
  <2>4. CASE FindRecipe(r) \/ InsertPrepEntry(r)
    <3>1. \/ q = Failed
          \/ q = [p EXCEPT !.step = "insert"]
          \/ q = [p EXCEPT !.step = "pick"]
      BY <1>2, <2>2, <2>4, OwnKeeps DEF FindRecipe, InsertPrepEntry
    <3>2. q # Failed BY <1>2 DEF Failed, Preparing
    <3>3. /\ q.left = p.left /\ q.dish = p.dish /\ q.todo = p.todo
          /\ q.take = p.take /\ q.step # "draw"
      BY <3>1, <3>2 DEF Prep
    <3>4. p.step # "draw" BY <2>2, <2>4 DEF FindRecipe, InsertPrepEntry
    <3> QED BY <2>3, <3>3, <3>4, SameRecipe
  <2>5. CASE FinishItem(r)
    <3>1. q = [p EXCEPT !.step = "pick"]
      BY <1>2, <2>2, <2>5, OwnKeeps DEF FinishItem
    <3>2. /\ q.left = p.left /\ q.dish = p.dish /\ q.todo = p.todo
          /\ q.take = p.take /\ q.step # "draw"
      BY <3>1 DEF Prep
    <3>3. p.step = "draw" /\ p.need = 0 BY <2>2, <2>5 DEF FinishItem
    <3> QED BY <2>3, <3>2, <3>3, EndsByRecipe
  <2>6. ASSUME NEW i \in Ingredient, SelectLots(r, i) PROVE FollowsRecipe(q)
    <3> DEFINE lots == {l \in Lot : lot[l].ingredient = i /\ lot[l].remaining > 0}
               n == recipe[p.dish][i]
    <3>1. i \in p.left /\ p.step # "draw" BY <2>2, <2>6 DEF SelectLots
    <3>2. q = [p EXCEPT !.step = "draw", !.left = @ \ {i}, !.need = n, !.todo = lots]
      BY <1>2, <2>2, <2>6, OwnKeeps DEF SelectLots
    <3> HIDE DEF lots, n
    <3>3. /\ q.left = p.left \ {i} /\ q.todo = lots /\ q.need = n
          /\ q.step = "draw" /\ q.dish = p.dish /\ q.take = p.take
      BY <3>2 DEF Prep
    <3> QED BY <2>3, <3>1, <3>3, ChoosesByRecipe DEF lots, n
  <2>7. ASSUME NEW k \in Lot, LockLot(r, k) PROVE FollowsRecipe(q)
    <3>1. k \in p.todo /\ p.step = "draw"
      BY <2>2, <2>7 DEF LockLot, IsNext
    <3>2. request[r] \in Prep BY <2>2
    <3> DEFINE own == request[r]
               next == request'[r]
               drawn == Smaller(lot[k].remaining, own.need)
    <3>3. drawn \in Nat
      <4>1. own.need \in Nat /\ lot[k].remaining \in Nat
        BY <3>2 DEF Prep, TypeOK, LotRow, NoLot
      <4> QED BY <4>1 DEF Smaller
    <3>4. /\ next.left = own.left /\ next.todo = own.todo \ {k}
          /\ next.need = own.need - drawn /\ next.step = own.step /\ next.dish = own.dish
          /\ next.take = [own.take EXCEPT ![k] = drawn]
      <4>1. next = [own EXCEPT !.todo = @ \ {k}, !.need = @ - drawn,
                               !.read[k] = lot[k].remaining, !.take[k] = drawn]
        BY <2>7, OwnKeeps DEF LockLot
      <4> HIDE DEF drawn, next
      <4> QED BY <3>2, <4>1 DEF Prep
    <3>5. PICK draw \in Nat : draw = drawn BY <3>3
    <3> HIDE DEF drawn
    <3>6. /\ q.left = p.left /\ q.todo = p.todo \ {k} /\ q.need = p.need - draw
          /\ q.step = "draw" /\ q.dish = p.dish
          /\ q.take = [p.take EXCEPT ![k] = draw]
      BY <1>2, <2>2, <3>1, <3>4, <3>5
    <3> QED BY <2>3, <3>1, <3>6, DrawsByRecipe
  <2> QED BY <1>6, <2>4, <2>5, <2>6, <2>7
<1> QED BY <1>5, <1>6

\* An entry is there when a prep has inserted it, and not before.
LEMMA EntriesKept ==
  ASSUME TypeOK, PrepsFollowRecipe, NEW r \in Request,
         Begin(r) \/ Proceed(r) \/ LoseRequest(r), NEW q \in Request
  PROVE  /\ request'[q].step \in {"pick", "draw"} => q \in entries'
         /\ request'[q].step \in {"new", "buy", "look", "adjust", "recipe", "insert"}
              => q \notin entries'
<1> DEFINE Kept ==
      /\ request'[q].step \in {"pick", "draw"} => q \in entries'
      /\ request'[q].step \in {"new", "buy", "look", "adjust", "recipe", "insert"}
           => q \notin entries'
<1>1. /\ request[q].step \in {"pick", "draw"} => q \in entries
      /\ request[q].step \in {"new", "buy", "look", "adjust", "recipe", "insert"}
           => q \notin entries
  BY DEF PrepsFollowRecipe
<1>2. CASE q # r
  <2>1. request'[q] = request[q]
    BY <1>2, OthersKeep
    DEF Begin, BeginPurchase, BeginAdjustment, BeginPrep, Proceed, AddLot, FindLot,
        AdjustLot, FindRecipe, InsertPrepEntry, SelectLots, LockLot, StopShort,
        FinishItem, CommitPrep, AbortDeadlocked, LoseRequest
  <2>2. q \in entries' <=> q \in entries
    BY <1>2
    DEF Begin, BeginPurchase, BeginAdjustment, BeginPrep, Proceed, AddLot, FindLot,
        AdjustLot, FindRecipe, InsertPrepEntry, SelectLots, LockLot, StopShort,
        FinishItem, CommitPrep, AbortDeadlocked, LoseRequest
  <2> QED BY <1>1, <2>1, <2>2
<1>3. ASSUME q = r PROVE Kept
  <2>1. CASE Begin(r)
    <3>1. /\ request[r] = New /\ entries' = entries
          /\ request'[r].step \in {"buy", "look", "recipe"}
      <4>1. ASSUME NEW l \in Lot, NEW i \in Ingredient, NEW e \in Expiries,
                   NEW n \in Quantities, BeginPurchase(r, l, i, e, n)
            PROVE  /\ request[r] = New /\ entries' = entries
                   /\ request'[r].step = "buy"
        BY <4>1, OwnKeeps DEF BeginPurchase
      <4>2. ASSUME NEW l \in Lot, NEW delta \in Deltas, BeginAdjustment(r, l, delta)
            PROVE  /\ request[r] = New /\ entries' = entries
                   /\ request'[r].step = "look"
        BY <4>2, OwnKeeps DEF BeginAdjustment
      <4>3. ASSUME NEW d \in Dish, BeginPrep(r, d)
            PROVE  /\ request[r] = New /\ entries' = entries
                   /\ request'[r].step = "recipe"
        BY <4>3, OwnKeeps DEF BeginPrep
      <4> QED BY <2>1, <4>1, <4>2, <4>3 DEF Begin
    <3> QED BY <1>1, <1>3, <3>1 DEF New
  <2>2. CASE \/ AddLot(r) \/ AdjustLot(r) \/ StopShort(r) \/ CommitPrep(r)
             \/ AbortDeadlocked(r) \/ LoseRequest(r)
    <3>1. request'[r].step \in {"done", "short", "failed"}
      BY <2>2, OwnKeeps
      DEF AddLot, AdjustLot, StopShort, CommitPrep, AbortDeadlocked, LoseRequest,
          Done, Short, Failed
    <3> QED BY <1>3, <3>1
  <2>3. CASE FindLot(r)
    <3>1. request'[r].step = "adjust" /\ request[r].step = "look" /\ entries' = entries
      BY <2>3, OwnKeeps, AdjustmentShape DEF FindLot, Adjustment
    <3> QED BY <1>1, <1>3, <3>1
  <2>4. CASE FindRecipe(r)
    <3>1. request[r] \in Prep BY <2>4, PrepShape DEF FindRecipe, Preparing
    <3>2. /\ request'[r].step \in {"failed", "insert"}
          /\ request[r].step = "recipe" /\ entries' = entries
      BY <2>4, <3>1, OwnKeeps DEF FindRecipe, Failed, Prep
    <3> QED BY <1>1, <1>3, <3>2
  <2>5. CASE InsertPrepEntry(r)
    <3>1. request[r] \in Prep BY <2>5, PrepShape DEF InsertPrepEntry, Preparing
    <3>2. request'[r].step = "pick" /\ r \in entries'
      BY <2>5, <3>1, OwnKeeps DEF InsertPrepEntry, Prep
    <3> QED BY <1>3, <3>2
  <2>6. CASE FinishItem(r)
    <3>1. request[r] \in Prep BY <2>6, PrepShape DEF FinishItem, Preparing
    <3>2. request'[r].step = "pick" /\ request[r].step = "draw" /\ entries' = entries
      BY <2>6, <3>1, OwnKeeps DEF FinishItem, Prep
    <3> QED BY <1>1, <1>3, <3>2
  <2>7. ASSUME NEW i \in Ingredient, SelectLots(r, i) PROVE Kept
    <3>1. request[r].step = "pick" /\ entries' = entries BY <2>7 DEF SelectLots
    <3>2. request[r] \in Prep BY <3>1, PrepShape DEF Preparing
    <3> DEFINE lots == {l \in Lot : lot[l].ingredient = i /\ lot[l].remaining > 0}
               n == recipe[request[r].dish][i]
    <3>3. request'[r] = [request[r] EXCEPT
            !.step = "draw", !.left = @ \ {i}, !.need = n, !.todo = lots]
      BY <2>7, OwnKeeps DEF SelectLots
    <3> HIDE DEF lots, n
    <3>4. request'[r].step = "draw" BY <3>2, <3>3 DEF Prep
    <3> QED BY <1>1, <1>3, <3>1, <3>4
  <2>8. ASSUME NEW k \in Lot, LockLot(r, k) PROVE Kept
    <3>1. request[r].step = "draw" /\ entries' = entries BY <2>8 DEF LockLot
    <3>2. request[r] \in Prep BY <3>1, PrepShape DEF Preparing
    <3> DEFINE next == request'[r]
               drawn == Smaller(lot[k].remaining, request[r].need)
    <3>3. next = [request[r] EXCEPT !.todo = @ \ {k}, !.need = @ - drawn,
                    !.read[k] = lot[k].remaining, !.take[k] = drawn]
      BY <2>8, OwnKeeps DEF LockLot
    <3> HIDE DEF next, drawn
    <3>4. next.step = "draw" BY <3>1, <3>2, <3>3 DEF Prep
    <3> QED BY <1>1, <1>3, <3>1, <3>4 DEF next
  <2> QED BY <2>1, <2>2, <2>3, <2>4, <2>5, <2>6, <2>7, <2>8 DEF Proceed
<1> QED BY <1>2, <1>3

LEMMA RecipeKept ==
  ASSUME TypeOK, LocksInv, DrawnInOrder, PrepsFollowRecipe, NEW r \in Request,
         Begin(r) \/ Proceed(r) \/ LoseRequest(r)
  PROVE  PrepsFollowRecipe'
<1> SUFFICES ASSUME NEW q \in Request, Preparing(q)'
             PROVE  FollowsRecipe(request[q])'
  BY EntriesKept DEF PrepsFollowRecipe
<1>1. CASE q # r
  <2>1. request'[q] = request[q]
    BY <1>1, OthersKeep
    DEF Begin, BeginPurchase, BeginAdjustment, BeginPrep, Proceed, AddLot, FindLot,
        AdjustLot, FindRecipe, InsertPrepEntry, SelectLots, LockLot, StopShort,
        FinishItem, CommitPrep, AbortDeadlocked, LoseRequest
  <2>2. Preparing(q) BY <2>1 DEF Preparing
  <2>3. PICK p : p = request[q] OBVIOUS
  <2>4. FollowsRecipe(p)' BY <2>2, <2>3, OthersFollow DEF PrepsFollowRecipe
  <2> QED BY <2>1, <2>3, <2>4
<1>2. CASE q = r
  <2>1. CASE \/ \E d \in Dish : BeginPrep(r, d)
             \/ FindRecipe(r) \/ InsertPrepEntry(r) \/ FinishItem(r)
             \/ \E i \in Ingredient : SelectLots(r, i)
             \/ \E l \in Lot : LockLot(r, l)
    BY <1>2, <2>1, OwnFollows
  <2>2. CASE \/ \E l \in Lot, i \in Ingredient, e \in Expiries, n \in Quantities :
                  BeginPurchase(r, l, i, e, n)
             \/ \E l \in Lot, delta \in Deltas : BeginAdjustment(r, l, delta)
    <3>1. CASE \E l \in Lot, i \in Ingredient, e \in Expiries, n \in Quantities :
                 BeginPurchase(r, l, i, e, n)
      BY <1>2, <3>1, OwnKeeps DEF BeginPurchase, Preparing
    <3>2. CASE \E l \in Lot, delta \in Deltas : BeginAdjustment(r, l, delta)
      BY <1>2, <3>2, OwnKeeps DEF BeginAdjustment, Preparing
    <3> QED BY <2>2, <3>1, <3>2
  <2>3. CASE AddLot(r) \/ AdjustLot(r) \/ StopShort(r) \/ CommitPrep(r)
               \/ AbortDeadlocked(r) \/ LoseRequest(r)
    <3>1. request'[r].step \in {"done", "short", "failed"}
      BY <2>3, OwnKeeps
      DEF AddLot, AdjustLot, StopShort, CommitPrep, AbortDeadlocked, LoseRequest,
          Done, Short, Failed
    <3> QED BY <1>2, <3>1 DEF Preparing
  <2>4. CASE FindLot(r)
    <3>1. request'[r].step = "adjust"
      BY <2>4, OwnKeeps, AdjustmentShape DEF FindLot, Adjustment
    <3> QED BY <1>2, <3>1 DEF Preparing
  <2> QED BY <2>1, <2>2, <2>3, <2>4 DEF Begin, Proceed
<1> QED BY <1>1, <1>2

PantryInv == TypeOK /\ LocksInv /\ DrawnInOrder /\ PrepsFollowRecipe

LEMMA PantryInvariant == Spec => []PantryInv
<1>1. Init => PantryInv
  BY KitchenInit DEF Init, PantryInv, DrawnInOrder, PrepsFollowRecipe, Preparing, New
<1>2. PantryInv /\ [Next]_vars => PantryInv'
  <2> SUFFICES ASSUME TypeOK, LocksInv, DrawnInOrder, PrepsFollowRecipe, [Next]_vars
               PROVE  PantryInv'
    BY DEF PantryInv
  <2>1. TypeOK' /\ LocksInv' BY StepKeeps
  <2>2. ASSUME UNCHANGED vars PROVE DrawnInOrder' /\ PrepsFollowRecipe'
    <3>1. DrawnInOrder' BY <2>2 DEF vars, DrawnInOrder, Preparing, InOrder, OnShelf
    <3>2. /\ lot' = lot /\ entries' = entries
          /\ \A q \in Request : request'[q] = request[q]
      BY <2>2 DEF vars
    <3>3. ASSUME NEW q \in Request, Preparing(q)' PROVE FollowsRecipe(request[q])'
      <4>1. PICK p : p = request[q] OBVIOUS
      <4>2. FollowsRecipe(p) BY <3>2, <3>3, <4>1 DEF PrepsFollowRecipe, Preparing
      <4>3. FollowsRecipe(p)' BY <3>2, <4>2, SameLotsSameRecipe
      <4> QED BY <3>2, <4>1, <4>3
    <3> QED BY <3>1, <3>2, <3>3 DEF PrepsFollowRecipe
  <2>3. Next => DrawnInOrder' /\ PrepsFollowRecipe' BY OrderKept, RecipeKept DEF Next
  <2> QED BY <2>1, <2>2, <2>3 DEF PantryInv
<1> QED BY <1>1, <1>2, PTL DEF Spec

(***************************************************************************)
(* Every prep draws what its recipe says, item by item, out of however     *)
(* many lots and whatever is bought, corrected or cooked meanwhile.        *)
(***************************************************************************)
THEOREM PrepsAddUp == Spec => []PrepsFollowRecipe
<1>1. PantryInv => PrepsFollowRecipe BY DEF PantryInv
<1> QED BY <1>1, PantryInvariant, PTL

\* What is on hand of each ingredient, as Pantry sees it.
OnHand == [i \in Ingredient |-> SumFunctionOnSet([l \in Lot |-> lot[l].remaining], LotsOf(i))]

Cooked == {r \in entries : request[r].step = "done"}

LEMMA OnHandIsQuantity == TypeOK => OnHand \in [Ingredient -> Nat]
<1> SUFFICES ASSUME TypeOK, NEW i \in Ingredient PROVE OnHand[i] \in Nat
  BY DEF OnHand
<1> DEFINE f == [l \in Lot |-> lot[l].remaining]
<1>1. \A l \in Lot : f[l] \in Nat BY DEF TypeOK, LotRow, NoLot
<1>2. \A l \in LotsOf(i) : f[l] \in Nat BY <1>1, LotsOfFinite
<1> HIDE DEF f
<1>3. SumFunctionOnSet(f, LotsOf(i)) \in Nat BY <1>2, LotsOfFinite, SumNat
<1> QED BY <1>3 DEF OnHand, f

\* A lot is added, or corrected: the other ingredients do not notice.
LEMMA OthersOnHand ==
  ASSUME TypeOK, LocksInv, NEW r \in Request,
         Begin(r) \/ Proceed(r) \/ LoseRequest(r),
         NEW k \in Lot, \A l \in Lot \ {k} : lot'[l] = lot[l],
         NEW i \in Ingredient, k \notin LotsOf(i), k \notin LotsOf(i)'
  PROVE  OnHand'[i] = OnHand[i]
<1> DEFINE f == [l \in Lot |-> lot[l].remaining]
           h == [l \in Lot |-> lot'[l].remaining]
<1>1. LotsOf(i)' = LotsOf(i) BY LotsGrow DEF LotsOf
<1>2. \A l \in LotsOf(i) : f[l] \in Int /\ h[l] = f[l]
  BY LotsOfFinite DEF TypeOK, LotRow, NoLot
<1>3. OnHand'[i] = SumFunctionOnSet(h, LotsOf(i)) BY <1>1 DEF OnHand
<1>4. OnHand[i] = SumFunctionOnSet(f, LotsOf(i)) BY DEF OnHand
<1> HIDE DEF f, h
<1>5. SumFunctionOnSet(h, LotsOf(i)) = SumFunctionOnSet(f, LotsOf(i))
  BY <1>2, LotsOfFinite, SumSame
<1> QED BY <1>3, <1>4, <1>5

\* A purchase or an adjustment is a correction of one ingredient.
LEMMA StockRefines ==
  ASSUME TypeOK, OnHand' \in [Ingredient -> Nat], LocksInv, PrepsFollowRecipe,
         NEW r \in Request, AddLot(r) \/ AdjustLot(r)
  PROVE  \/ OnHand' = OnHand /\ Cooked' = Cooked
         \/ \E i \in Ingredient :
              /\ OnHand'[i] \in Nat
              /\ OnHand' = [OnHand EXCEPT ![i] = OnHand'[i]]
              /\ Cooked' = Cooked
<1>1. Cooked' = Cooked
  <2>1. r \notin entries BY DEF AddLot, AdjustLot, PrepsFollowRecipe
  <2>2. entries' = entries /\ \A q \in Request \ {r} : request'[q] = request[q]
    BY OthersKeep DEF AddLot, AdjustLot
  <2> QED BY <2>1, <2>2 DEF Cooked, TypeOK
<1>2. CASE lot' = lot
  BY <1>1, <1>2 DEF OnHand, LotsOf
<1>3. CASE lot' # lot
  <2>1. PICK k \in Lot : /\ k = request[r].lot
                         /\ \A l \in Lot \ {k} : lot'[l] = lot[l]
                         /\ lot'[k].ingredient \in Ingredient
                         /\ lot[k].ingredient \in {None, lot'[k].ingredient}
    <3>1. CASE AddLot(r)
      <4>1. /\ request[r].lot \in Lot /\ request[r].ingredient \in Ingredient
            /\ ~OnShelf(request[r].lot)
        BY <3>1, PurchaseShape DEF AddLot, Purchase, LocksInv, PurchasesAreFresh
      <4>2. /\ lot'[request[r].lot].ingredient = request[r].ingredient
            /\ \A l \in Lot \ {request[r].lot} : lot'[l] = lot[l]
        BY <3>1, <4>1 DEF AddLot, TypeOK
      <4>3. lot[request[r].lot].ingredient = None BY <4>1 DEF OnShelf, NoLot
      <4> QED BY <4>1, <4>2, <4>3
    <3>2. CASE AdjustLot(r)
      <4>1. request[r].lot \in Lot /\ OnShelf(request[r].lot)
        BY <3>2, AdjustmentShape DEF AdjustLot, Adjustment, LocksInv, AdjustmentsHaveLots
      <4>2. lot[request[r].lot] \in LotRow BY <4>1 DEF OnShelf, TypeOK
      <4>3. lot'[request[r].lot].ingredient = lot[request[r].lot].ingredient
        BY <3>2, <4>1, LotsKeep DEF Proceed
      <4>4. \A l \in Lot \ {request[r].lot} : lot'[l] = lot[l]
        BY <3>2 DEF AdjustLot, TypeOK
      <4> QED BY <4>1, <4>2, <4>3, <4>4 DEF LotRow
    <3> QED BY <3>1, <3>2
  <2>2. PICK i \in Ingredient : i = lot'[k].ingredient BY <2>1
  <2>3. ASSUME NEW j \in Ingredient \ {i} PROVE OnHand'[j] = OnHand[j]
    <3>1. j # None BY RecipeAssumption
    <3>2. k \notin LotsOf(j) /\ k \notin LotsOf(j)' BY <2>1, <2>2, <3>1 DEF LotsOf
    <3> QED BY <2>1, <3>2, OthersOnHand DEF Proceed
  <2>4. OnHand \in [Ingredient -> Nat] BY OnHandIsQuantity
  <2>5. OnHand' \in [Ingredient -> Nat] OBVIOUS
  <2>6. OnHand'[i] \in Nat BY <2>5
  <2>7. OnHand' = [OnHand EXCEPT ![i] = OnHand'[i]]
    <3> DEFINE f == OnHand
               h == OnHand'
    <3>1. f \in [Ingredient -> Nat] /\ h \in [Ingredient -> Nat] BY <2>4, <2>5
    <3>2. \A j \in Ingredient \ {i} : h[j] = f[j] BY <2>3
    <3> HIDE DEF f, h
    <3>3. h = [f EXCEPT ![i] = h[i]] BY <3>1, <3>2
    <3> QED BY <3>3 DEF f, h
  <2> QED BY <1>1, <2>6, <2>7
<1> QED BY <1>2, <1>3

\* A prep that commits takes from every lot just what it drew.
LEMMA CommitTakes ==
  ASSUME WholeUnits, TypeOK, LocksInv, Balanced, NEW r \in Request, CommitPrep(r),
         NEW l \in Lot
  PROVE  /\ lot'[l].remaining = lot[l].remaining - request[r].take[l]
         /\ request[r].take[l] <= lot[l].remaining
<1> DEFINE t == request[r].take[l]
<1>1. request[r] \in Prep /\ Preparing(r)
  BY PrepShape DEF Preparing, CommitPrep, DrawnAll
<1>2. t \in Nat /\ lot[l].remaining \in Nat
  BY <1>1 DEF Prep, TypeOK, LotRow, NoLot
<1>3. t % 2 = 0 /\ lot[l].remaining % 2 = 0
  BY <1>1 DEF Balanced
<1>4. CASE t > 0
  <2>1. request[r].read[l] = lot[l].remaining /\ t <= lot[l].remaining
    BY <1>1, <1>4 DEF LocksInv, DrawsAreLocked
  <2>2. lot[l] \in LotRow BY <1>2, <1>4, <2>1 DEF TypeOK, NoLot
  <2>3. lot'[l].remaining = Stored(lot[l].remaining - t)
    BY <1>4, <2>1, <2>2 DEF CommitPrep, LotRow
  <2> HIDE DEF t
  <2>4. lot[l].remaining - t \in Int BY <1>2
  <2>5. (lot[l].remaining - t) % 2 = 0 BY <1>2, <1>3, WholeArithmetic
  <2>6. Stored(lot[l].remaining - t) = lot[l].remaining - t
    BY <2>4, <2>5, WholeArithmetic
  <2> QED BY <2>1, <2>3, <2>6 DEF t
<1>5. CASE t = 0
  <2>1. lot'[l] = lot[l] BY <1>5 DEF CommitPrep
  <2> QED BY <1>2, <1>5, <2>1
<1> QED BY <1>2, <1>4, <1>5

\* It cooks its dish: the whole recipe goes, and was there.
LEMMA CommitRefines ==
  ASSUME WholeUnits, TypeOK, LocksInv, DrawnInOrder, PrepsFollowRecipe, Balanced,
         NEW r \in Request, CommitPrep(r)
  PROVE  \E d \in Dish :
           /\ r \notin Cooked
           /\ \A i \in Ingredient : recipe[d][i] <= OnHand[i]
           /\ OnHand' = [i \in Ingredient |-> OnHand[i] - recipe[d][i]]
           /\ Cooked' = Cooked \cup {r}
<1>1. /\ request[r] \in Prep /\ Preparing(r) /\ request[r].step = "pick"
      /\ request[r].left = {}
  BY PrepShape DEF Preparing, CommitPrep, DrawnAll
<1>2. PICK d \in Dish : d = request[r].dish BY <1>1 DEF Prep
<1>3. r \notin Cooked BY <1>1 DEF Cooked
<1>4. Cooked' = Cooked \cup {r}
  <2>1. r \in entries BY <1>1 DEF PrepsFollowRecipe
  <2>2. /\ entries' = entries /\ request'[r].step = "done"
        /\ \A q \in Request \ {r} : request'[q] = request[q]
    BY OwnKeeps, OthersKeep DEF CommitPrep, Done
  <2> QED BY <2>1, <2>2 DEF Cooked, TypeOK
<1>5. ASSUME NEW i \in Ingredient
      PROVE  recipe[d][i] <= OnHand[i] /\ OnHand'[i] = OnHand[i] - recipe[d][i]
  <2> DEFINE S == LotsOf(i)
             f == [l \in Lot |-> lot[l].remaining]
             h == [l \in Lot |-> lot'[l].remaining]
             t == request[r].take
  <2>1. SumFunctionOnSet(t, S) = recipe[d][i]
    BY <1>1, <1>2 DEF PrepsFollowRecipe, FollowsRecipe
  <2>2. LotsOf(i)' = S BY LotsGrow DEF Proceed, AddLot, CommitPrep, DrawnAll
  <2>3. OnHand[i] = SumFunctionOnSet(f, S) BY DEF OnHand
  <2>4. OnHand'[i] = SumFunctionOnSet(h, S) BY <2>2 DEF OnHand
  <2>5. IsFiniteSet(S) /\ S \in SUBSET Lot BY LotsOfFinite
  <2>6. \A l \in Lot : /\ f[l] \in Int /\ t[l] \in Int
                       /\ h[l] = f[l] - t[l] /\ t[l] <= f[l]
    BY <1>1, CommitTakes DEF TypeOK, LotRow, NoLot, Prep
  <2> HIDE DEF S, f, h, t
  <2>7. \A l \in S : /\ f[l] \in Int /\ t[l] \in Int
                     /\ h[l] = f[l] - t[l] /\ t[l] <= f[l]
    BY <2>5, <2>6
  <2>8. SumFunctionOnSet(h, S) = SumFunctionOnSet(f, S) - SumFunctionOnSet(t, S)
    BY <2>5, <2>7, SumMinus
  <2>9. SumFunctionOnSet(t, S) <= SumFunctionOnSet(f, S)
    BY <2>5, <2>7, SumAtMost
  <2> QED BY <2>1, <2>3, <2>4, <2>8, <2>9
<1>6. OnHand' = [i \in Ingredient |-> OnHand[i] - recipe[d][i]]
  <2>1. \A i \in Ingredient : OnHand'[i] = OnHand[i] - recipe[d][i] BY <1>5
  <2>2. OnHand' = [i \in Ingredient |-> OnHand'[i]] BY DEF OnHand
  <2> QED BY <2>1, <2>2
<1> QED BY <1>3, <1>4, <1>5, <1>6

\* Nothing else is seen by the pantry.
LEMMA OthersRefine ==
  ASSUME TypeOK, NEW r \in Request, Begin(r) \/ Proceed(r) \/ LoseRequest(r),
         ~AddLot(r), ~AdjustLot(r), ~CommitPrep(r)
  PROVE  OnHand' = OnHand /\ Cooked' = Cooked
<1>1. lot' = lot
  BY DEF Begin, BeginPurchase, BeginAdjustment, BeginPrep, Proceed, LoseRequest, FindLot,
      FindRecipe, InsertPrepEntry, SelectLots, LockLot, StopShort, FinishItem,
      AbortDeadlocked
<1>2. OnHand' = OnHand BY <1>1 DEF OnHand, LotsOf
<1>3. \A q \in Request \ {r} : request'[q] = request[q]
  BY OthersKeep
  DEF Begin, BeginPurchase, BeginAdjustment, BeginPrep, Proceed, LoseRequest, FindLot,
      FindRecipe, InsertPrepEntry, SelectLots, LockLot, StopShort, FinishItem,
      AbortDeadlocked
<1>4. entries' \in {entries, entries \cup {r}}
  BY DEF Begin, BeginPurchase, BeginAdjustment, BeginPrep, Proceed, LoseRequest, FindLot,
      FindRecipe, InsertPrepEntry, SelectLots, LockLot, StopShort, FinishItem,
      AbortDeadlocked
<1>5. request[r].step # "done" /\ request'[r].step # "done"
  <2>1. CASE Begin(r)
    <3>1. request[r] = New
      BY <2>1 DEF Begin, BeginPurchase, BeginAdjustment, BeginPrep
    <3>2. \A l \in Lot, i \in Ingredient, e \in Expiries, n \in Quantities :
            BeginPurchase(r, l, i, e, n) => request'[r].step = "buy"
      BY OwnKeeps DEF BeginPurchase
    <3>3. \A l \in Lot, delta \in Deltas :
            BeginAdjustment(r, l, delta) => request'[r].step = "look"
      BY OwnKeeps DEF BeginAdjustment
    <3>4. \A d \in Dish : BeginPrep(r, d) => request'[r].step = "recipe"
      BY OwnKeeps DEF BeginPrep
    <3> QED BY <2>1, <3>1, <3>2, <3>3, <3>4 DEF Begin, New
  <2>2. CASE StopShort(r) \/ AbortDeadlocked(r) \/ LoseRequest(r)
    <3>1. request'[r].step \in {"short", "failed"}
      BY <2>2, OwnKeeps DEF StopShort, AbortDeadlocked, LoseRequest, Short, Failed
    <3>2. request[r].step # "done"
      <4>1. CASE StopShort(r) BY <4>1 DEF StopShort
      <4>2. CASE LoseRequest(r) BY <4>2 DEF LoseRequest, InFlight
      <4>3. CASE AbortDeadlocked(r)
        <5>1. PICK C \in SUBSET Request : r \in C /\ {WaitsFor(c) : c \in C} = C
          BY <4>3 DEF AbortDeadlocked, Deadlocked
        <5>2. WaitsFor(r) \in C BY <5>1
        <5>3. WaitsFor(r) # None BY <5>1, <5>2, RecipeAssumption
        <5> QED BY <5>3 DEF WaitsFor
      <4> QED BY <2>2, <4>1, <4>2, <4>3
    <3> QED BY <3>1, <3>2
  <2>3. CASE FindLot(r)
    BY <2>3, OwnKeeps, AdjustmentShape DEF FindLot, Adjustment
  <2>4. CASE FindRecipe(r) \/ InsertPrepEntry(r) \/ FinishItem(r)
               \/ \E i \in Ingredient : SelectLots(r, i)
    <3>1. request[r].step # "done"
      BY <2>4 DEF FindRecipe, InsertPrepEntry, FinishItem, SelectLots
    <3>2. request[r] \in Prep
      BY <2>4, PrepShape DEF Preparing, FindRecipe, InsertPrepEntry, FinishItem, SelectLots
    <3>3. CASE FindRecipe(r) \/ InsertPrepEntry(r) \/ FinishItem(r)
      <4>1. \/ request'[r] = Failed
            \/ request'[r] = [request[r] EXCEPT !.step = "insert"]
            \/ request'[r] = [request[r] EXCEPT !.step = "pick"]
        BY <3>3, OwnKeeps DEF FindRecipe, InsertPrepEntry, FinishItem
      <4> QED BY <3>1, <3>2, <4>1 DEF Failed, Prep
    <3>4. ASSUME NEW i \in Ingredient, SelectLots(r, i) PROVE request'[r].step # "done"
      <4> DEFINE lots == {l \in Lot : lot[l].ingredient = i /\ lot[l].remaining > 0}
                 n == recipe[request[r].dish][i]
      <4>1. request'[r] = [request[r] EXCEPT
              !.step = "draw", !.left = @ \ {i}, !.need = n, !.todo = lots]
        BY <3>4, OwnKeeps DEF SelectLots
      <4> HIDE DEF lots, n
      <4> QED BY <3>2, <4>1 DEF Prep
    <3> QED BY <2>4, <3>1, <3>3, <3>4
  <2>5. ASSUME NEW k \in Lot, LockLot(r, k)
        PROVE  request[r].step # "done" /\ request'[r].step # "done"
    <3>1. request[r].step = "draw" BY <2>5 DEF LockLot
    <3>2. request[r] \in Prep BY <3>1, PrepShape DEF Preparing
    <3> DEFINE next == request'[r]
               drawn == Smaller(lot[k].remaining, request[r].need)
    <3>3. next = [request[r] EXCEPT !.todo = @ \ {k}, !.need = @ - drawn,
                    !.read[k] = lot[k].remaining, !.take[k] = drawn]
      BY <2>5, OwnKeeps DEF LockLot
    <3> HIDE DEF next, drawn
    <3>4. next.step = "draw" BY <3>1, <3>2, <3>3 DEF Prep
    <3> QED BY <3>1, <3>4 DEF next
  <2> QED BY <2>1, <2>2, <2>3, <2>4, <2>5 DEF Proceed
<1> QED BY <1>2, <1>3, <1>4, <1>5 DEF Cooked, TypeOK

(***************************************************************************)
(* Cooking is all or nothing: for quantities of whole thousandths, every   *)
(* history of purchases, adjustments and overlapping preps is one in which *)
(* dishes are cooked out of all their ingredients at once, once for each   *)
(* request, and never out of what is not there.                            *)
(***************************************************************************)
THEOREM KitchenImplementsPantry ==
  ASSUME WholeUnits
  PROVE  Spec => ImplementsPantry
<1> DEFINE Inv == PantryInv /\ Balanced /\ OnHand \in [Ingredient -> Nat]
<1>1. Spec => []Inv
  <2>1. Init => Balanced BY BalancedInit
  <2>2. PantryInv /\ Balanced /\ [Next]_vars => Balanced'
    <3> SUFFICES ASSUME PantryInv, Balanced, [Next]_vars PROVE Balanced'
      OBVIOUS
    <3>1. UNCHANGED vars => Balanced' BY DEF vars, Balanced, Preparing
    <3>2. Next => Balanced' BY BalancedStep DEF Next, PantryInv
    <3> QED BY <3>1, <3>2
  <2>3. PantryInv => OnHand \in [Ingredient -> Nat]
    BY OnHandIsQuantity DEF PantryInv
  <2> QED BY <2>1, <2>2, <2>3, PantryInvariant, PTL DEF Spec
<1>2. Init /\ Inv => Abstract!Init
  <2>1. Init => {r \in entries : request[r].step = "done"} = {} BY DEF Init
  <2> QED BY <2>1 DEF Abstract!Init, OnHand
<1>3. Inv /\ Inv' /\ [Next]_vars => [Abstract!Next]_(Abstract!vars)
  <2> SUFFICES ASSUME Inv, OnHand' \in [Ingredient -> Nat], [Next]_vars
               PROVE  [Abstract!Next]_(Abstract!vars)
    OBVIOUS
  <2>1. CASE UNCHANGED vars
    BY <2>1 DEF vars, Abstract!vars, LotsOf
  <2>2. ASSUME NEW r \in Request, Begin(r) \/ Proceed(r) \/ LoseRequest(r)
        PROVE  [Abstract!Next]_(Abstract!vars)
    <3>1. CASE AddLot(r) \/ AdjustLot(r)
      BY <3>1, StockRefines
      DEF PantryInv, OnHand, Cooked, Abstract!Next, Abstract!Correct, Abstract!vars
    <3>2. CASE CommitPrep(r)
      BY <3>2, CommitRefines
      DEF PantryInv, OnHand, Cooked, Abstract!Next, Abstract!Cook, Abstract!vars
    <3>3. CASE ~AddLot(r) /\ ~AdjustLot(r) /\ ~CommitPrep(r)
      BY <2>2, <3>3, OthersRefine DEF PantryInv, OnHand, Cooked, Abstract!vars
    <3> QED BY <3>1, <3>2, <3>3
  <2> QED BY <2>1, <2>2 DEF Next
<1> HIDE DEF Inv
<1> QED BY <1>1, <1>2, <1>3, PTL DEF Spec, ImplementsPantry, Abstract!Spec

-----------------------------------------------------------------------------
(***************************************************************************)
(* Who waits for whom.  A lot is locked by a prep that is drawing, or      *)
(* between two items, and that is done with the lot's ingredient; and the  *)
(* lots on the shelf have ages of their own, so that one is always next.   *)
(***************************************************************************)
LockedBy(r, l) ==
  /\ request[r].step \in {"pick", "draw"}
  /\ OnShelf(l)
  /\ l \notin request[r].todo /\ lot[l].ingredient \notin request[r].left

HoldersGoOn == \A l \in Lot : owner[l] # None => LockedBy(owner[l], l)

Shelf == {l \in Lot : OnShelf(l)}

AgesDiffer ==
  \A l \in Shelf :
    /\ lot[l].bought < Cardinality(Shelf)
    /\ \A m \in Shelf \ {l} : lot[m].bought # lot[l].bought

LEMMA WaitsBegin == Init => HoldersGoOn /\ AgesDiffer
BY AgesAssumption DEF Init, HoldersGoOn, AgesDiffer, Shelf, OnShelf

\* Only a purchase that is added gives an age, to a lot that had none.
LEMMA AgesKept ==
  ASSUME TypeOK, LocksInv, NEW r \in Request,
         Begin(r) \/ Proceed(r) \/ LoseRequest(r), ~AddLot(r),
         NEW l \in Lot
  PROVE  /\ OnShelf(l)' = OnShelf(l)
         /\ lot'[l].bought = lot[l].bought
<1>1. lot[l] \in LotRow \cup {NoLot} BY DEF TypeOK
<1>2. lot[l] # NoLot /\ lot'[l] # lot[l] => lot'[l].bought = lot[l].bought
  <2> SUFFICES ASSUME OnShelf(l), lot'[l] # lot[l] PROVE lot'[l].bought = lot[l].bought
    BY DEF OnShelf
  <2>1. lot[l] \in LotRow BY <1>1 DEF OnShelf
  <2>2. \E n : lot'[l] = [lot[l] EXCEPT !.remaining = n]
    <3>1. CASE AdjustLot(r)
      <4>1. \E n : lot' = [lot EXCEPT ![request[r].lot].remaining = n]
        BY <3>1 DEF AdjustLot
      <4> QED BY <4>1 DEF TypeOK
    <3>2. CASE CommitPrep(r) BY <3>2 DEF CommitPrep
    <3> QED
      BY <3>1, <3>2
      DEF Begin, BeginPurchase, BeginAdjustment, BeginPrep, Proceed, LoseRequest, FindLot,
          FindRecipe, InsertPrepEntry, SelectLots, LockLot, StopShort, FinishItem,
          AbortDeadlocked
  <2> QED BY <2>1, <2>2 DEF LotRow
<1>3. lot[l] = NoLot => lot'[l] = lot[l]
  <2> SUFFICES ASSUME ~OnShelf(l) PROVE lot'[l] = lot[l] BY DEF OnShelf
  <2>1. CASE AdjustLot(r)
    <3>1. OnShelf(request[r].lot)
      BY <2>1 DEF AdjustLot, LocksInv, AdjustmentsHaveLots
    <3>2. \/ lot' = lot
          \/ \E n : lot' = [lot EXCEPT ![request[r].lot].remaining = n]
      BY <2>1 DEF AdjustLot
    <3> QED BY <3>1, <3>2 DEF TypeOK
  <2>2. CASE CommitPrep(r)
    <3>1. Preparing(r) BY <2>2 DEF CommitPrep, DrawnAll, Preparing
    <3>2. request[r].take[l] = 0 BY <3>1, NothingOffShelf
    <3> QED BY <2>2, <3>2 DEF CommitPrep
  <2> QED
    BY <2>1, <2>2
    DEF Begin, BeginPurchase, BeginAdjustment, BeginPrep, Proceed, LoseRequest, FindLot,
        FindRecipe, InsertPrepEntry, SelectLots, LockLot, StopShort, FinishItem,
        AbortDeadlocked
<1>4. OnShelf(l) => OnShelf(l)' BY LotsKeep
<1> QED BY <1>2, <1>3, <1>4 DEF OnShelf

LEMMA AgesStep ==
  ASSUME TypeOK, LocksInv, AgesDiffer, NEW r \in Request,
         Begin(r) \/ Proceed(r) \/ LoseRequest(r)
  PROVE  AgesDiffer'
<1>0. IsFiniteSet(Shelf) /\ Cardinality(Shelf) \in Nat
  <2>1. Shelf \in SUBSET Lot BY DEF Shelf
  <2> QED BY <2>1, RecipeAssumption, FS_Subset, FS_CardinalityType
<1>1. CASE AddLot(r)
  <2> DEFINE k == request[r].lot
             n == Cardinality(Shelf)
  <2>1. request[r] \in Purchase BY <1>1, PurchaseShape DEF AddLot
  <2>2. k \in Lot /\ ~OnShelf(k)
    BY <1>1, <2>1 DEF Purchase, AddLot, LocksInv, PurchasesAreFresh
  <2>3. /\ lot'[k].bought = n /\ lot'[k].ingredient = request[r].ingredient
        /\ \A l \in Lot \ {k} : lot'[l] = lot[l]
    BY <1>1, <2>2 DEF AddLot, TypeOK, Shelf
  <2>4. lot'[k] # NoLot BY <2>1, <2>3, RecipeAssumption DEF Purchase, NoLot
  <2> HIDE DEF k
  <2>5. Shelf' = Shelf \cup {k} /\ k \notin Shelf
    BY <2>2, <2>3, <2>4 DEF Shelf, OnShelf
  <2>6. Cardinality(Shelf') = n + 1 BY <1>0, <2>5, FS_AddElement
  <2>7. \A l \in Shelf : lot'[l].bought = lot[l].bought /\ lot[l].bought < n
    BY <2>3, <2>5 DEF AgesDiffer, Shelf
  <2>8. \A l \in Shelf : lot[l].bought \in Nat
    BY DEF Shelf, OnShelf, TypeOK, LotRow
  <2> HIDE DEF n
  <2>9. n \in Nat BY <1>0 DEF n
  <2>10. ASSUME NEW l \in Shelf'
         PROVE  /\ lot'[l].bought < n + 1
                /\ \A m \in Shelf' \ {l} : lot'[m].bought # lot'[l].bought
    <3>1. CASE l = k BY <2>3, <2>5, <2>7, <2>8, <2>9, <3>1
    <3>2. CASE l \in Shelf
      <4>1. \A m \in Shelf \ {l} : lot'[m].bought # lot'[l].bought
        BY <2>7, <3>2 DEF AgesDiffer
      <4> QED BY <2>3, <2>5, <2>7, <2>8, <2>9, <3>2, <4>1
    <3> QED BY <2>5, <2>10, <3>1, <3>2
  <2> QED BY <2>6, <2>10 DEF AgesDiffer
<1>2. CASE ~AddLot(r)
  <2>1. \A l \in Lot : OnShelf(l)' = OnShelf(l) /\ lot'[l].bought = lot[l].bought
    BY <1>2, AgesKept
  <2>2. Shelf' = Shelf BY <2>1 DEF Shelf
  <2> QED BY <2>1, <2>2 DEF AgesDiffer, Shelf
<1> QED BY <1>1, <1>2

\* A step of r changes nobody else's progress, and gives up its locks or takes one.
LEMMA StepShape ==
  ASSUME TypeOK, NEW r \in Request, Begin(r) \/ Proceed(r) \/ LoseRequest(r)
  PROVE  /\ \E s : SetRequest(r, s)
         /\ \/ owner' = owner
            \/ Release(r)
            \/ \E l \in Lot : LockLot(r, l)
<1>1. CASE Begin(r)
  BY <1>1 DEF Begin, BeginPurchase, BeginAdjustment, BeginPrep
<1>2. CASE AddLot(r) \/ FindLot(r) BY <1>2 DEF AddLot, FindLot
<1>3. CASE AdjustLot(r) BY <1>3 DEF AdjustLot
<1>4. CASE FindRecipe(r) \/ InsertPrepEntry(r) BY <1>4 DEF FindRecipe, InsertPrepEntry
<1>5. CASE \E i \in Ingredient : SelectLots(r, i) BY <1>5 DEF SelectLots
<1>6. CASE \E l \in Lot : LockLot(r, l) BY <1>6 DEF LockLot
<1>7. CASE StopShort(r) \/ FinishItem(r) BY <1>7 DEF StopShort, FinishItem
<1>8. CASE CommitPrep(r) BY <1>8 DEF CommitPrep
<1>9. CASE AbortDeadlocked(r) \/ LoseRequest(r) BY <1>9 DEF AbortDeadlocked, LoseRequest
<1> QED
  BY <1>1, <1>2, <1>3, <1>4, <1>5, <1>6, <1>7, <1>8, <1>9 DEF Proceed

\* A prep that has picked an item either gives up its locks or goes on drawing,
\* and then never turns back to a lot, or to an ingredient, it is done with.
LEMMA DrawingGoesOn ==
  ASSUME TypeOK, NEW r \in Request, Begin(r) \/ Proceed(r) \/ LoseRequest(r),
         ~Release(r), request[r].step \in {"pick", "draw"},
         NEW l \in Lot, LockedBy(r, l)
  PROVE  /\ request'[r].step \in {"pick", "draw"}
         /\ l \notin request'[r].todo
         /\ lot[l].ingredient \notin request'[r].left
<1>1. PICK p \in Prep : p = request[r]
  BY PrepShape DEF Preparing
<1>2. ASSUME NEW i \in Ingredient, SelectLots(r, i)
      PROVE  /\ request'[r].step \in {"pick", "draw"}
             /\ l \notin request'[r].todo /\ lot[l].ingredient \notin request'[r].left
  <2>1. i \in p.left BY <1>1, <1>2 DEF SelectLots
  <2> DEFINE lots == {m \in Lot : lot[m].ingredient = i /\ lot[m].remaining > 0}
             s == [p EXCEPT !.step = "draw", !.left = @ \ {i},
                            !.need = recipe[p.dish][i], !.todo = lots]
  <2>2. request'[r] = s BY <1>1, <1>2, OwnKeeps DEF SelectLots
  <2>3. s.step = "draw" /\ s.left = p.left \ {i} /\ s.todo = lots BY DEF Prep
  <2> QED BY <1>1, <2>1, <2>2, <2>3 DEF LockedBy
<1>3. ASSUME NEW k \in Lot, LockLot(r, k)
      PROVE  /\ request'[r].step \in {"pick", "draw"}
             /\ l \notin request'[r].todo /\ lot[l].ingredient \notin request'[r].left
  <2>1. /\ request'[r].step = "draw" /\ request'[r].left = p.left
        /\ request'[r].todo = p.todo \ {k}
    BY <1>1, <1>3, OwnKeeps DEF LockLot, Prep
  <2> QED BY <1>1, <2>1 DEF LockedBy
<1>4. CASE FinishItem(r)
  <2>1. /\ request'[r].step = "pick" /\ request'[r].left = p.left
        /\ request'[r].todo = p.todo
    BY <1>1, <1>4, OwnKeeps DEF FinishItem, Prep
  <2> QED BY <1>1, <2>1 DEF LockedBy
<1>5. ~Begin(r)
  <2>1. request[r] # New BY DEF New
  <2> QED BY <2>1 DEF Begin, BeginPurchase, BeginAdjustment, BeginPrep
<1>6. /\ ~AddLot(r) /\ ~FindLot(r) /\ ~AdjustLot(r)
      /\ ~FindRecipe(r) /\ ~InsertPrepEntry(r)
  BY DEF AddLot, FindLot, AdjustLot, FindRecipe, InsertPrepEntry
<1>7. ~StopShort(r) /\ ~CommitPrep(r) /\ ~AbortDeadlocked(r) /\ ~LoseRequest(r)
  BY DEF StopShort, CommitPrep, AbortDeadlocked, LoseRequest
<1> QED BY <1>2, <1>3, <1>4, <1>5, <1>6, <1>7 DEF Proceed

\* Locks are taken one at a time, from what is still to lock, and given back all
\* at once by whoever ends.
LEMMA HoldersStep ==
  ASSUME TypeOK, LocksInv, DrawnInOrder, HoldersGoOn, NEW r \in Request,
         Begin(r) \/ Proceed(r) \/ LoseRequest(r)
  PROVE  HoldersGoOn'
<1> SUFFICES ASSUME NEW l \in Lot, NEW q \in Request, owner'[l] = q
             PROVE  LockedBy(q, l)'
  <2>1. owner' \in [Lot -> Request \cup {None}] BY StepKeeps DEF TypeOK, Next
  <2> QED BY <2>1 DEF HoldersGoOn
<1>1. CASE owner'[l] # owner[l]
  <2>1. LockLot(r, l)
    <3>1. ~Release(r) BY <1>1, RecipeAssumption DEF Release
    <3>2. PICK k \in Lot : LockLot(r, k) BY <1>1, <3>1, StepShape
    <3>3. owner' = [owner EXCEPT ![k] = r] BY <3>2 DEF LockLot
    <3>4. l = k BY <1>1, <3>3 DEF TypeOK
    <3> QED BY <3>2, <3>4
  <2>2. PICK p \in Prep : p = request[r] /\ Preparing(r)
    BY <2>1, PrepShape DEF LockLot, Preparing
  <2>3. p.step = "draw" /\ l \in p.todo BY <2>1, <2>2 DEF LockLot, IsNext
  <2>4. OnShelf(l) /\ lot[l].ingredient \notin p.left
    BY <2>2, <2>3 DEF DrawnInOrder, InOrder
  <2>5. q = r /\ lot' = lot BY <2>1 DEF LockLot, TypeOK
  <2>6. /\ request'[r].step = "draw" /\ request'[r].todo = p.todo \ {l}
        /\ request'[r].left = p.left
    BY <2>1, <2>2, OwnKeeps DEF LockLot, Prep
  <2> QED BY <2>3, <2>4, <2>5, <2>6 DEF LockedBy, OnShelf
<1>2. CASE owner'[l] = owner[l]
  <2>1. owner[l] = q BY <1>2
  <2>2. LockedBy(q, l) BY <2>1, RecipeAssumption DEF HoldersGoOn
  <2>3. OnShelf(l)' /\ lot'[l].ingredient = lot[l].ingredient
    BY <2>2, LotsKeep DEF LockedBy
  <2>4. CASE q # r
    <3>1. request'[q] = request[q] BY <2>4, StepShape, OthersKeep
    <3> QED BY <1>2, <2>1, <2>2, <2>3, <3>1 DEF LockedBy
  <2>5. CASE q = r
    <3>1. ~Release(r) BY <1>2, <2>1, <2>5, RecipeAssumption DEF Release
    <3>2. /\ request'[r].step \in {"pick", "draw"}
          /\ l \notin request'[r].todo /\ lot[l].ingredient \notin request'[r].left
      BY <2>2, <2>5, <3>1, DrawingGoesOn DEF LockedBy
    <3> QED BY <1>2, <2>1, <2>3, <2>5, <3>2 DEF LockedBy
  <2> QED BY <2>4, <2>5
<1> QED BY <1>1, <1>2

\* Some lot comes before all others of a set.
LEMMA FirstExists ==
  ASSUME TypeOK, AgesDiffer, NEW T \in SUBSET Shelf, T # {}
  PROVE  \E l \in T : \A m \in T \ {l} : Before(l, m)
<1> DEFINE W == {s \in SUBSET T :
                   s = {} \/ \E l \in s : \A m \in s \ {l} : Before(l, m)}
<1>1. IsFiniteSet(T) BY RecipeAssumption, FS_Subset DEF Shelf
<1>2. \A l \in T : lot[l].expiry \in Nat /\ lot[l].bought \in Nat
  BY StockAssumption DEF Shelf, OnShelf, TypeOK, LotRow
<1>3. \A l \in T : \A m \in T \ {l} : Before(l, m) \/ Before(m, l)
  BY <1>2 DEF Before, AgesDiffer
<1>4. \A l, m, k \in T : Before(l, m) /\ Before(m, k) => Before(l, k)
  BY <1>2 DEF Before
<1>5. ASSUME NEW s \in W, NEW x \in T \ s PROVE s \cup {x} \in W
  <2>1. CASE s = {} BY <2>1
  <2>2. CASE s # {}
    <3>1. PICK l \in s : \A m \in s \ {l} : Before(l, m) BY <2>2
    <3>2. CASE Before(l, x)
      <4>1. \A m \in (s \cup {x}) \ {l} : Before(l, m) BY <3>1, <3>2
      <4> QED BY <4>1
    <3>3. CASE Before(x, l)
      <4>1. \A m \in (s \cup {x}) \ {x} : Before(x, m) BY <1>4, <3>1, <3>3
      <4> QED BY <4>1
    <3> QED BY <1>3, <3>1, <3>2, <3>3
  <2> QED BY <2>1, <2>2
<1> HIDE DEF W
<1>6. T \in W
  <2>1. W \in SUBSET SUBSET T /\ {} \in W BY DEF W
  <2> QED BY <1>1, <1>5, <2>1, SetInduction
<1> QED BY <1>6 DEF W

WaitInv == TypeOK /\ LocksInv /\ DrawnInOrder /\ HoldersGoOn /\ AgesDiffer

\* Of the lots a prep has still to lock, exactly one is next.
LEMMA NextLot ==
  ASSUME WaitInv, NEW r \in Request, request[r].step = "draw", request[r].todo # {}
  PROVE  \E l \in Lot : IsNext(r, l) /\ \A m \in Lot : IsNext(r, m) => m = l
<1>1. request[r] \in Prep /\ Preparing(r) BY PrepShape DEF WaitInv, Preparing
<1>2. request[r].todo \in SUBSET Shelf
  BY <1>1 DEF WaitInv, DrawnInOrder, InOrder, Shelf, Prep
<1>3. PICK l \in request[r].todo : \A m \in request[r].todo \ {l} : Before(l, m)
  BY <1>2, FirstExists DEF WaitInv
<1>4. \A m \in Shelf : lot[m].expiry \in Nat /\ lot[m].bought \in Nat
  BY StockAssumption DEF WaitInv, Shelf, OnShelf, TypeOK, LotRow
<1>5. ASSUME NEW m \in Lot, IsNext(r, m), m # l PROVE FALSE
  BY <1>2, <1>3, <1>4, <1>5 DEF IsNext, Before
<1>6. l \in Lot /\ IsNext(r, l) BY <1>2, <1>3 DEF IsNext, Shelf
<1> QED BY <1>5, <1>6

\* While a connection is free, who cannot go on waits for a prep that holds a
\* lock, and is in flight.
LEMMA StuckOnHolder ==
  ASSUME WaitInv, Free > 0, NEW r \in Request, InFlight(r), ~MayProceed(r)
  PROVE  /\ HeldUpBy(r) \in Request
         /\ request[HeldUpBy(r)].step \in {"pick", "draw"}
         /\ request[r].step \in {"adjust", "draw"}
         /\ request[r].step = "draw" => HeldUpBy(r) = WaitsFor(r) /\ ~Deadlocked(r)
<1>1. \A l \in Lot : owner[l] \in Request \cup {None} BY DEF WaitInv, TypeOK
<1>2. request[r].step \in {"adjust", "draw"}
  BY DEF InFlight, MayProceed, WaitInv, TypeOK, New, Done, Short, Failed, Prep,
         Purchase, Adjustment
<1>3. CASE request[r].step = "adjust"
  <2>1. request[r].lot \in Lot BY <1>3, AdjustmentShape DEF WaitInv, Adjustment
  <2>2. owner[request[r].lot] # None BY <1>3 DEF MayProceed
  <2> QED
    BY <1>1, <1>3, <2>1, <2>2 DEF HeldUpBy, WaitInv, HoldersGoOn, LockedBy
<1>4. CASE request[r].step = "draw"
  <2>1. /\ request[r].todo # {}
        /\ \A l \in Lot : IsNext(r, l) => owner[l] # None
        /\ ~Deadlocked(r)
    BY <1>4 DEF MayProceed
  <2>2. PICK l \in Lot : IsNext(r, l) /\ \A m \in Lot : IsNext(r, m) => m = l
    BY <1>4, <2>1, NextLot
  <2>3. owner[l] \in Request /\ LockedBy(owner[l], l)
    BY <1>1, <2>1, <2>2 DEF WaitInv, HoldersGoOn
  <2>4. owner[l] # r BY <2>2, <2>3 DEF LockedBy, IsNext
  <2>5. (CHOOSE m \in Lot : IsNext(r, m)) = l BY <2>2
  <2>6. WaitsFor(r) = owner[l] BY <1>4, <2>2, <2>4, <2>5 DEF WaitsFor
  <2> QED BY <1>4, <2>1, <2>3, <2>6 DEF HeldUpBy, LockedBy
<1> QED BY <1>2, <1>3, <1>4

\* Were they all held up among themselves, some would wait in a circle, and
\* those Postgres finds.
LEMMA GroupGoesOn ==
  ASSUME WaitInv, Free > 0,
         NEW group \in SUBSET {r \in Request : InFlight(r) /\ ~MayProceed(r)},
         group # {},
         \A r \in group : HeldUpBy(r) \in group
  PROVE  FALSE
<1> DEFINE D == {r \in group : request[r].step = "draw"}
           f == [d \in D |-> WaitsFor(d)]
<1>1. \A r \in group :
        /\ request[r].step \in {"adjust", "draw"}
        /\ request[HeldUpBy(r)].step \in {"pick", "draw"}
        /\ request[r].step = "draw" => HeldUpBy(r) = WaitsFor(r) /\ ~Deadlocked(r)
  BY StuckOnHolder
<1>2. \A r \in group : HeldUpBy(r) \in D BY <1>1
<1>3. D # {} BY <1>2
<1>4. IsFiniteSet(D) BY RecipeAssumption, FS_Subset
<1>5. f \in [D -> D] BY <1>1, <1>2
<1>6. PICK C \in SUBSET D : C # {} /\ \A c \in C : f[c] \in C /\ \E b \in C : f[b] = c
  <2> HIDE DEF D, f
  <2> QED BY <1>3, <1>4, <1>5, CycleExists
<1>7. {WaitsFor(c) : c \in C} = C BY <1>6
<1>8. PICK c \in C : TRUE BY <1>6
<1>9. Deadlocked(c) BY <1>7, <1>8 DEF Deadlocked
<1> QED BY <1>1, <1>8, <1>9

LEMMA WaitInvariant == Spec => []WaitInv
<1>1. Init => WaitInv
  <2>1. Init => DrawnInOrder BY DEF Init, DrawnInOrder, Preparing, New
  <2> QED BY <2>1, KitchenInit, WaitsBegin DEF WaitInv
<1>2. WaitInv /\ [Next]_vars => WaitInv'
  <2> SUFFICES ASSUME WaitInv, [Next]_vars PROVE WaitInv' OBVIOUS
  <2> USE DEF WaitInv
  <2>1. TypeOK' /\ LocksInv' BY StepKeeps
  <2>2. CASE UNCHANGED vars
    BY <2>1, <2>2
    DEF vars, DrawnInOrder, Preparing, InOrder, OnShelf, HoldersGoOn, LockedBy,
        AgesDiffer, Shelf
  <2>3. CASE Next BY <2>1, <2>3, OrderKept, HoldersStep, AgesStep DEF Next
  <2> QED BY <2>2, <2>3
<1> QED BY <1>1, <1>2, PTL DEF Spec

(***************************************************************************)
(* As long as a connection is free, no group of requests holds up one      *)
(* another for good: they wait, in the end, for a prep in flight that can  *)
(* go on, or for one that Postgres aborts.                                 *)
(***************************************************************************)
THEOREM NoDeadlock == Spec => []SomebodyGoesOn
<1>1. WaitInv => SomebodyGoesOn
  <2> SUFFICES ASSUME WaitInv, Free > 0,
                      NEW group \in SUBSET {r \in Request : InFlight(r) /\ ~MayProceed(r)},
                      group # {}
               PROVE  \E r \in group, q \in Request \ group :
                        HeldUpBy(r) = q /\ InFlight(q)
    BY DEF SomebodyGoesOn
  <2>1. PICK r \in group : HeldUpBy(r) \notin group BY GroupGoesOn
  <2>2. HeldUpBy(r) \in Request /\ InFlight(HeldUpBy(r))
    BY StuckOnHolder DEF InFlight
  <2> QED BY <2>1, <2>2
<1> QED BY <1>1, WaitInvariant, PTL
=============================================================================
