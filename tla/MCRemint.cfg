CONSTANTS
  P = 4
  RangeCheckBound = 2
  MaxInFlight = 1
  User = {alice, bob}
  Nobody = Nobody
  Admin = alice
  L1ContractAddress = l1
  L1Sender = {l1}
  Contract = {Ether, Nft}
  Ether = Ether
  OrderId = {o1}
  Address = {a1}
  Inputs <- MCOnes
  Recipient = {alice, bob}
  Registration <- MCRegistration
  Registrant = {}
  PauseInput = {}
  Signed <- MCSigned
  FreshOnly = FALSE
  Nft = Nft
  alice = alice
  bob = bob
  l1 = l1
  notL1 = notL1
SPECIFICATION L2Spec
CHECK_DEADLOCK FALSE
INVARIANT
  EscrowBacked
