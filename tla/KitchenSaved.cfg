\* kitchen-page.tsx: "Insufficient stock is rejected before saving."
SPECIFICATION Spec
CONSTANTS
  rice = rice
  oil = oil
  pulao = pulao
  khichdi = khichdi
  old = old
  fresh = fresh
  tin = tin
  spare = spare
  None = None
  Lot = {old, fresh, tin, spare}
  Ingredient = {rice, oil}
  Dish = {pulao, khichdi}
  recipe <- MCRecipe
  Request = {r1, r2}
  Expiries = {1, 2}
  Quantities = {2}
  Deltas <- MCDeltas
  onHand <- MCOnHand
  PoolSize = 3
INVARIANTS
  ShortPrepIsNotSaved
CHECK_DEADLOCK FALSE
