CONSTANTS
  Streams = {"a", "b", "c"}
  Connections <- Diamond
  Values = {v1}
  BUFFER_SIZE = 2
  SpuriousWakeups = TRUE
  Nobody = nobody
  Null = null
SPECIFICATION LibSpec
INVARIANTS LibInv SemaphoreCountsFreeSlots OnlyPutTokensAreTaken
CHECK_DEADLOCK FALSE
