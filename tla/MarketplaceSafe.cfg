\* README: past safe_until nobody takes the food any more.
SPECIFICATION Spec
CONSTANTS
  r1 = r1
  r2 = r2
  n1 = n1
  asha = asha
  meera = meera
  ravi = ravi
  None = None
  Listing = {l1}
  Restaurants = {r1, r2}
  Ngos = {n1}
  User = {asha, meera, ravi}
  tenantOf <- MCTenantOf
  Prices = {"free", "asked"}
  Window = 1
  SweepBatch = 1
  MaxTime = 2
  MaxSafe = 2
  MaxLog = 2
  MaxFaults = 1
PROPERTIES
  ClaimedWhileSafe
CHECK_DEADLOCK FALSE
