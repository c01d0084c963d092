CONSTANTS
  P = 6
  RangeCheckBound = 3
  MaxInFlight = 1
  User = {alice, bob}
  Nobody = Nobody
  Admin = alice
  L1ContractAddress = l1
  L1Sender = {l1}
  Contract = {Ether, Nft}
  Ether = Ether
  OrderId = {o1}
  Address = {a1}
  Inputs <- MCOnes
  Recipient = {alice, bob}
  Registration <- MCRegistration
  Registrant = {alice}
  PauseInput = {}
  Signed <- MCSigned
  FreshOnly = TRUE
  Registered <- MCRegistration
  Metadata = {"valid", "partial", "unreachable"}
  Resident = {TRUE, FALSE}
  Side = {0, 1}
  NoRow = NoRow
  MaxLag = 2
  MaxFlows = 2
  MaxSkips = 1
  MaxCrashes = 1
  Nft = Nft
  alice = alice
  bob = bob
  l1 = l1
SPECIFICATION Spec
CHECK_DEADLOCK FALSE
INVARIANTS
  MirrorInv
  BooksBalance
  RaisesAtOrdersOnly
