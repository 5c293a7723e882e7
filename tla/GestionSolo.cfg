SPECIFICATION FairSpec
CONSTANTS
  Address <- MCAddress
  PrefixOf <- MCPrefixOf
  Modulus = 16
  InitChains <- FundedOnly
  PeerTxs <- NoTxs
  RemoteChains <- NoChains
  ApiTxs <- T3T4
  IsAPI = TRUE
  IsMINING = TRUE
  Background <- Sends
  SleepIsLong = TRUE
  MaxIncoming = 1
  MaxApi = 1
  MaxBlocks = 1
  MaxWire = 0
  MaxTime = 0
  MaxChain = 4
  None = None
INVARIANTS AcceptedNeverLost NoEmptyBlock
PROPERTY AcceptedGetsMined
