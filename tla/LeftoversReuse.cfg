\* tests/production.test.ts: "throws REUSE_EXCEEDS_RETAIN when confirmed > retained".
SPECIFICATION Spec
CONSTANTS
  biryani = biryani
  dal = dal
  NgoBuffer = 1
  ReuseMinHours = 1
  Unavailable = Unavailable
  Dish = {"rice", "plate"}
  menu <- MCMenu
  servedOn <- MCServedOn
  firstsOfMonth = {0, 2}
  Ranges <- MCRanges
  NaN = NaN
  Leftover = {biryani, dal}
  User = {asha, meera}
  Undecided = Undecided
  Splits <- KiloSplits
  Confirmations <- KiloConfirmations
  Quantities = {2000}
  SplitTolerance = 10
  ReuseSlack = 1
  MaxTime = 1
  MaxSafe = 1
  MaxConfirmed = 3000
INVARIANTS
  ReuseWithinRetained
CHECK_DEADLOCK FALSE
