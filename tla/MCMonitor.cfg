CONSTANTS
  w1 = w1  w2 = w2  w3 = w3
  Withdrawal = {w1, w2, w3}
  Detail <- MCDetail
  MaxBlock = 2
  MaxDeaths = 1
SPECIFICATION FairMonitorSpec
CHECK_DEADLOCK FALSE
INVARIANTS MonitorTypeOK NothingMissed OwnReceipt
PROPERTY Received
