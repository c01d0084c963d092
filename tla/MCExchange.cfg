CONSTANTS
  P = 6
  RangeCheckBound = 3
  MaxInFlight = 1
  User = {alice, bob}
  Nobody = Nobody
  Admin = alice
  L1ContractAddress = l1
  L1Sender = {l1}
  Contract = {Ether, Nft}
  Ether = Ether
  OrderId = {o1, o2}
  Address = {a1}
  Inputs <- MCOnes
  Recipient = {alice, bob}
  Registration <- MCRegistration
  Registrant = {}
  PauseInput = {}
  Signed <- MCSignedSome
  FreshOnly = TRUE
  Nft = Nft
  alice = alice
  bob = bob
  l1 = l1
  notL1 = notL1
SPECIFICATION BoundedSpec
CHECK_DEADLOCK FALSE
SYMMETRY MCSymmetry
INVARIANTS
  EscrowBacked
  OriginLive
  Refundable
PROPERTIES
  OrderHistory
  HolderConsents
  ImplementsWallets
