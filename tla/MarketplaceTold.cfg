\* README: "so an NGO is actually told".  One fault is enough.
SPECIFICATION FairSpec
CONSTANTS
  r1 = r1
  r2 = r2
  n1 = n1
  asha = asha
  meera = meera
  ravi = ravi
  None = None
  Listing = {l1}
  Restaurants = {r1, r2}
  Ngos = {n1}
  User = {asha, meera, ravi}
  tenantOf <- MCTenantOf
  Prices = {"free", "asked"}
  Window = 1
  SweepBatch = 1
  MaxTime = 2
  MaxSafe = 2
  MaxLog = 2
  MaxFaults = 1
PROPERTIES
  NgoIsTold
CHECK_DEADLOCK FALSE
