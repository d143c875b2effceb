\* A restaurant and an NGO, three requests, one report of three pages.
SPECIFICATION FairSpec
CONSTANTS
  kitchen = kitchen
  trust = trust
  dal = dal
  rice = rice
  waste = waste
  c1 = c1
  c2 = c2
  c3 = c3
  Tenant = {kitchen, trust}
  Entity = {dal, rice, waste}
  Call = {c1, c2, c3}
  Agendas <- MCAgendas
  MaxPerWindow = 2
  Slot = {1, 2}
  MaxFaults = 2
  Report = {waste}
  rowCount <- MCRowCount
  asker = kitchen
  Cases <- MCCases
INVARIANTS
  CapHolds
  OncePerKey
  WindowAlwaysEnds
  OneConnection
  NobodyForgotten
  DocumentIsWhole
  StatusIsTrue
PROPERTIES
  BridgeComesBack
  ReportResolves
CHECK_DEADLOCK FALSE
