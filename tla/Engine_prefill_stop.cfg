SPECIFICATION Spec
CONSTANTS
  c1 = c1
  c2 = c2
  r1 = r1
  r2 = r2
  Calls = {c1, c2}
  RequestId <- TwoRequestIds
  Prompt <- ServingPrompts
  MaxTokens <- TwoTokens
  MayLeave = {}
  StopsInPrefill = TRUE
  NumBlocks = 3
  BlockSize = 2
  QueueLength = 1
  MaxBatchSeq = 2
  MaxBatchTokens = 2
  MaxPartialPrefills = 1
  MaxLongPartialPrefills = 1
  LongPrefillThreshold = 2
  BatchCap = 1
  EventCap = 1
  SubCap = 1
  OutCap = 1
CHECK_DEADLOCK FALSE
INVARIANT TablesAreReferenced
