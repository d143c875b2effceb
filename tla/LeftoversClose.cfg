\* Two people close two leftovers and confirm their reuse at the same time.
SPECIFICATION Spec
CONSTANTS
  biryani = biryani
  dal = dal
  NgoBuffer = 1
  ReuseMinHours = 1
  Unavailable = Unavailable
  Dish = {"rice", "plate"}
  menu <- MCMenu
  servedOn <- MCServedOn
  firstsOfMonth = {0, 2}
  Ranges <- MCRanges
  NaN = NaN
  Leftover = {biryani, dal}
  User = {asha, meera}
  Undecided = Undecided
  Splits <- MCSplits
  Confirmations <- MCConfirmations
  Quantities = {4}
  SplitTolerance = 1
  ReuseSlack = 1
  MaxTime = 1
  MaxSafe = 1
  MaxConfirmed = 3
SYMMETRY Alike
INVARIANTS
  TypeOK
  StatusMatchesDecision
  CloseInv
  SuggestionIsAccepted
  DashboardAccountsForAll
  SeriesAddUp
PROPERTIES
  ImplementsSplitOnce
\* The clock stops and the kitchen runs out of leftovers.
CHECK_DEADLOCK FALSE
