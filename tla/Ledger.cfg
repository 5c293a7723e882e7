SPECIFICATION Growth
CONSTANTS
  Address <- MCAddress
  PrefixOf <- MCPrefixOf
  Modulus = 8
  Owner = "bank"
  Minted = 5
  Birth = 1
  TxLists <- MCTxLists
  Times <- MCTimes
  OtherHashes <- MCOtherHashes
  PendingLists <- MCPendingLists
  MaxLen = 4
  Base = 4
  Word = 3
  AmountDigits = 2
  TimeDigits = 2
  Characters <- MCCharacters
  RawAmount <- MCRawAmount
  RawProof <- MCRawProof
INVARIANTS CheckIsUnbroken AddAgreesWithCheck JudgesByFunds UpdateIsFilter
INVARIANTS DecodeInvertsEncode HashTextCommits ProofIsForTheBlock JsonReadsBack TextsFitButTwo
CHECK_DEADLOCK FALSE
