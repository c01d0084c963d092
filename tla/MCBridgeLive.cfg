CONSTANTS
  P = 6
  RangeCheckBound = 3
  MaxInFlight = 1
  User = {alice, bob}
  Nobody = Nobody
  Admin = alice
  L1ContractAddress = l1
  L1Sender = {l1}
  Contract = {Ether, Coin, Nft}
  Ether = Ether
  OrderId = {o1}
  Address = {a1}
  Inputs <- MCInputsCoin
  Recipient = {alice, bob}
  Registration <- MCRegistration
  Registrant = {}
  PauseInput = {0, 1}
  Signed <- MCSigned
  FreshOnly = FALSE
  L1Admin = a1
  Vault = Vault
  Exchange = Exchange
  OtherL2 = {otherL2}
  NoContract = NoContract
  Nowhere = Nowhere
  InitialCoin <- MCInitialCoin
  Supply = 1
  Nft = Nft
  Coin = Coin
  alice = alice
  bob = bob
  l1 = l1
  a1 = a1
  otherL2 = otherL2
SPECIFICATION FairBridgeSpec
CHECK_DEADLOCK FALSE
PROPERTY
  DepositCredited
