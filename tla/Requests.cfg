SPECIFICATION Spec
CONSTANTS
  Parts = {"console", "dialogue", "sessions", "retries"}
  Person = {"owner", "ngo_admin"}
  MaxTroubles = 1
  Persona = {"owner", "ngo_admin"}
  Talk = {"listings.own", "listings.cancel", "prep.create", "leftovers.dispositions"}
  Objects = {x, y}
  Nothing = nothing
  MaxMessages = 1
  Workers = {w1, w2}
  Families = {f1, f2}
  MaxTokens = 2
  Goods = {x, y}
  Copies = {c1, c2}
  MaxSends = 3
INVARIANTS
  PageShowsOwnChange OfferedIsServed NothingUnconfirmed QuietRevocation 
PROPERTIES
  PolledPageCatchesUp
CHECK_DEADLOCK FALSE
