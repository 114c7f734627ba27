SPECIFICATION ReplicationSpec
CONSTANTS
  e1 = e1
  e2 = e2
  Executors = {e1, e2}
  Requests = {r1, r2}
  Works = {w1}
  Transfers = {t1}
  NumBlocks <- MCNumBlocks
  BlockSize <- MCBlockSize
  Prompts <- MCPrompts
  MaxDecode = 0
  KVCompatibilityID <- MCCompatibility
  HasEndpoint = {e2}
  BatchCap = 1
  MaxRestarts = 0
  MaxLate = 0
INVARIANTS
  IndexedBlocksHoldKV
