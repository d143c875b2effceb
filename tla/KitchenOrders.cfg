\* Three overlapping requests, a pool of four connections.
SPECIFICATION FairSpec
CONSTANTS
  rice = rice
  oil = oil
  pulao = pulao
  khichdi = khichdi
  old = old
  fresh = fresh
  tin = tin
  spare = spare
  None = None
  Lot = {old, fresh, tin, spare}
  Ingredient = {rice, oil}
  Dish = {pulao, khichdi}
  recipe <- MCRecipe
  Request = {r1, r2, r3}
  Expiries = {1, 2}
  Quantities = {2}
  Deltas <- MCDeltas
  onHand <- MCOnHand
  PoolSize = 4
INVARIANTS
  TypeOK
  BalanceMatchesLedger
  KitchenInv
  PrepsFollowRecipe
  SomebodyGoesOn
PROPERTIES
  FirstExpiredFirstOut
  ImplementsPantry
  EveryRequestEnds
\* Every request is sent once.
CHECK_DEADLOCK FALSE
