SPECIFICATION FairSpec
CONSTANTS
  e1 = e1
  e2 = e2
  Executors = {e1, e2}
  Requests = {r1}
  Works = {w1}
  Transfers = {t1}
  NumBlocks <- MCNumBlocks
  BlockSize <- MCBlockSize
  Prompts <- MCPrompts
  MaxDecode = 0
  KVCompatibilityID <- MCCompatibility
  HasEndpoint = {e2}
  BatchCap = 1
  MaxRestarts = 1
  MaxLate = 1
INVARIANTS
  ReplicationTypeOK
  OnlyStraysSpoilIndex
  OnlyStraysSpoilReads
PROPERTIES
  ImplementsTransaction
  TransferBlocksReturned
CONSTRAINT NotStrayed
