SPECIFICATION FairSpec
CONSTANTS
  nbthread = 2
  Modulus = 4
  Diff = {1, 2, 3}
  Hash <- MCHash
  SHA256_BLOCK_SIZE = 2
INVARIANT ReturnsAProof
PROPERTY ReturnsIfThereIsAProof
CHECK_DEADLOCK FALSE
