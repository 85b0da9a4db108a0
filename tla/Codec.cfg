SPECIFICATION CodecSpec
CONSTANTS
  Words = {"a", "b", "{}"}
  Canon <- MCCanon
  EmptyObject <- MCEmptyObject
  Tools <- MCTools
  Fragments = {"a", "b"}
  MaxEvents = 6
  MaxChunks = 3
  MaxCalls = 2
INVARIANTS
  DecodedAsSaid
  
  ReframedSame
CHECK_DEADLOCK FALSE
