CONSTANTS
  k1 = k1  k2 = k2  a1 = a1  a2 = a2  r1 = r1  r2 = r2  r3 = r3
  Key = {k1, k2}
  Address = {a1, a2}
  Nobody = Nobody
  NoRow = NoRow
  Request = {r1, r2, r3}
  KeyOf <- MCKeyOf
  AddressOf <- MCAddressOf
  Direct <- MCDirect
  Depositor = {k1}
  Lifter = {k1}
  MaxRows = 1
  MaxFaults = 1
SPECIFICATION FairSpec
CHECK_DEADLOCK FALSE
INVARIANTS
  ClientsInv
  AnsweredOnce
  WarmAgrees
PROPERTIES
  Passed
  Registered
