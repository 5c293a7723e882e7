SPECIFICATION Spec
CONSTANTS
  Address <- MCAddress
  PrefixOf <- MCPrefixOf
  Modulus = 16
  InitChains <- GenesisOnly
  PeerTxs <- NoTxs
  RemoteChains <- NoChains
  ApiTxs <- T1T2
  IsAPI = TRUE
  IsMINING = TRUE
  Background <- Nothing
  SleepIsLong = TRUE
  MaxIncoming = 1
  MaxApi = 1
  MaxBlocks = 1
  MaxWire = 0
  MaxTime = 0
  MaxChain = 3
  None = None
INVARIANT NoOverdraft
