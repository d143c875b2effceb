\* One listing contended by two restaurants and an NGO, long histories.
SPECIFICATION FairSpec
CONSTANTS
  r1 = r1
  r2 = r2
  n1 = n1
  asha = asha
  meera = meera
  ravi = ravi
  None = None
  Listing = {l1}
  Restaurants = {r1, r2}
  Ngos = {n1}
  User = {asha, meera, ravi}
  tenantOf <- MCTenantOf
  Prices = {"free", "asked"}
  Window = 1
  SweepBatch = 1
  MaxTime = 2
  MaxSafe = 2
  MaxLog = 4
  MaxFaults = 1
INVARIANTS
  TypeOK
  TakerIsEligible
  MarketInv
  LogAccountsForRow
PROPERTIES
  NoDirectHandover
  ClosedRowsFrozen
  ChannelMovesWhileOpen
  ImplementsLifecycle
  DueIsResolved
\* The clock and the users' requests are bounded, so histories end.
CHECK_DEADLOCK FALSE
