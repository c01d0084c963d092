CONSTANTS
  h1 = h1
  h2 = h2
  payer = payer
  payee = payee
  r1 = r1
  r2 = r2
  Hash = {h1, h2}
  Account = {payer, payee}
  Request = {r1, r2}
  Interpreter = interpreter
  NoRow = NoRow
  Terms <- MCTerms
  HashOf <- MCHashOf
  Opening <- MCOpening
  PollLimit = 1
  MaxRows = 1
  MaxLag = 1
  MaxCrashes = 1
SPECIFICATION FairSpec
CHECK_DEADLOCK FALSE
INVARIANTS
  TransfersTypeOK
  BookedOnce
  BooksReconcile
PROPERTY
  Settled
