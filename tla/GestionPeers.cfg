SPECIFICATION FairSpec
CONSTANTS
  Background <- Saves
  Address <- MCAddress
  PrefixOf <- MCPrefixOf
  Modulus = 16
  InitChains <- SavedChains
  PeerTxs <- T1Only
  RemoteChains <- PeerChains
  ApiTxs <- NoTxs
  IsAPI = FALSE
  IsMINING = TRUE
  SleepIsLong = FALSE
  MaxIncoming = 1
  MaxApi = 1
  MaxBlocks = 1
  MaxWire = 1
  MaxTime = 1
  MaxChain = 2
  None = None
INVARIANTS LockOwners TypeOK OnePendingPerSender ChainsAreValid SnapshotsNeverAhead
PROPERTIES KeepsBestChain GestionKeepsServing
