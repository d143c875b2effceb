\* db/seed/invariants.ts: "Inventory movements do not sum to the lot quantity remaining".
SPECIFICATION Spec
CONSTANTS
  rice = rice
  oil = oil
  pulao = pulao
  khichdi = khichdi
  old = old
  fresh = fresh
  tin = tin
  spare = spare
  None = None
  Lot = {old, fresh, tin, spare}
  Ingredient = {rice, oil}
  Dish = {pulao, khichdi}
  recipe <- OddRecipe
  Request = {r1}
  Expiries = {1, 2}
  Quantities = {2}
  Deltas <- MCDeltas
  onHand <- MCOnHand
  PoolSize = 2
INVARIANTS
  BalanceMatchesLedger
CHECK_DEADLOCK FALSE
