CONSTANTS
  r1 = r1  r2 = r2  r3 = r3  r4 = r4  r5 = r5  d1 = d1  d2 = d2
  Data = {d1, d2}
  NoRow = NoRow
  Request = {r1, r2, r3, r4, r5}
  NonceOf <- MCNonceOf
  DataOf <- MCDataOf
  MaxLog = 3
  MaxCrashes = 2
SPECIFICATION FairSpec
CHECK_DEADLOCK FALSE
INVARIANTS
  MetadataInv
  LatestMetadata
PROPERTY
  MintPassed
