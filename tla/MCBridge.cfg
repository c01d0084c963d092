CONSTANTS
  P = 6
  RangeCheckBound = 3
  MaxInFlight = 2
  User = {alice, bob}
  Nobody = Nobody
  Admin = alice
  L1ContractAddress = l1
  L1Sender = {l1}
  Contract = {Ether, Nft}
  Ether = Ether
  OrderId = {o1, o2}
  Address = {a1}
  Inputs <- MCInputs
  Recipient = {alice, bob}
  Registration <- MCRegistration
  Registrant = {}
  PauseInput = {}
  Signed <- MCSigned
  FreshOnly = FALSE
  L1Admin = a1
  Vault = Vault
  Exchange = Exchange
  OtherL2 = {otherL2}
  NoContract = NoContract
  Nowhere = Nowhere
  InitialCoin <- MCInitialCoin
  Supply = 2
  Nft = Nft
  Coin = Coin
  alice = alice
  bob = bob
  l1 = l1
  a1 = a1
  otherL2 = otherL2
SPECIFICATION BridgeSpec
CHECK_DEADLOCK FALSE
SYMMETRY MCSymmetry
INVARIANTS
  Solvency
  OneHome
PROPERTY
  ExchangeInItsEnvironment
