SPECIFICATION Spec
CONSTANTS
  Address <- MCAddress
  PrefixOf <- MCPrefixOf
  Modulus = 16
  InitChains <- GenesisOnly
  PeerTxs <- T4Only
  RemoteChains <- NoChains
  ApiTxs <- NoTxs
  IsAPI = FALSE
  IsMINING = TRUE
  Background <- Nothing
  SleepIsLong = TRUE
  MaxIncoming = 1
  MaxApi = 1
  MaxBlocks = 1
  MaxWire = 0
  MaxTime = 0
  MaxChain = 3
  None = None
INVARIANT MinedOnce
