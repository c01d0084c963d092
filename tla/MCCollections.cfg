CONSTANTS
  c1 = c1  c2 = c2  m1 = m1  m2 = m2  p1 = p1
  r1 = r1  r2 = r2  r3 = r3  r4 = r4
  Contract = {c1, c2}
  Key = {m1, m2}
  PermanentId = {p1}
  NoRow = NoRow
  BlueprintInput <- MCBlueprints
  Request = {r1, r2, r3, r4}
  Wants <- MCWants
  Direct <- MCDirect
  MaxCrashes = 1
SPECIFICATION FairSpec
CHECK_DEADLOCK FALSE
INVARIANTS
  CollectionsInv
PROPERTIES
  MinterFixed
  Passed
