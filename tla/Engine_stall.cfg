SPECIFICATION FairSpec
CONSTANTS
  c1 = c1
  c2 = c2
  r1 = r1
  r2 = r2
  Calls = {c1, c2}
  RequestId <- TwoRequestIds
  Prompt <- LivePrompts
  MaxTokens <- TwoTokens
  MayLeave = {}
  StopsInPrefill = FALSE
  NumBlocks = 1
  BlockSize = 2
  QueueLength = 1
  MaxBatchSeq = 1
  MaxBatchTokens = 2
  MaxPartialPrefills = 1
  MaxLongPartialPrefills = 1
  LongPrefillThreshold = 1
  BatchCap = 1
  EventCap = 1
  SubCap = 1
  OutCap = 1
CHECK_DEADLOCK FALSE
PROPERTIES
  EveryCallEnds
