SPECIFICATION Spec
CONSTANTS
  Parts = {"dialogue"}
  Person = {"owner"}
  MaxTroubles = 0
  Persona = {"owner"}
  Talk = {"prep.create"}
  Objects = {x}
  Nothing = nothing
  MaxMessages = 1
  Workers = {w1}
  Families = {f1}
  MaxTokens = 1
  Goods = {x}
  Copies = {c1}
  MaxSends = 1
INVARIANTS
  ToldIsRecorded
CHECK_DEADLOCK FALSE
