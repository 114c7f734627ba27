SPECIFICATION Spec
CONSTANTS
  e1 = e1
  e2 = e2
  Executors = {e1, e2}
  Requests = {r1, r2}
  Works = {w1, w2}
  Transfers = {t1}
  NumBlocks <- MCNumBlocks
  BlockSize <- MCBlockSize
  Prompts <- MCPrompts
  MaxDecode = 0
  ListLength = 3
SYMMETRY Symmetry
INVARIANTS
  TypeOK
  FreeQueueSound
  RefCountIsOwnership
  TableHoldsOwnPrefix
  WrittenBlocksExclusive
  ProbeAgreesWithMatch
  CacheIndexSound
  TransferBlocksHeld
  ListLoopsAgree
  CommitLoopsAgree
PROPERTIES
  EvictsOnlyUnreferenced
  CommittedTransferIsReusable
