SPECIFICATION FairSpec
CONSTANTS
  Dust = 546
  MaxFee = 10000
  DestScriptLen = 22
  Withdrawal <- MCWithdrawal
  Dest <- MCDest
  Owed <- MCOwed
  MaxSats = 0
  Deposit <- MCDeposit
  Funded <- MCFunded
  LegacyTx <- MCLegacyTx
  Rate = 1
  HighRate <- MCHighRate
  MinConf = 2
  MaxRetries = 2
  FaultSets <- MCFaultSets
  MaxFaults = 2
  None = None
INVARIANTS TypeOK PaidOnce Backed CoinsApart OnRecord
PROPERTY Settles
CHECK_DEADLOCK FALSE
