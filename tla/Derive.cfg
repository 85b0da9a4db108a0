SPECIFICATION DeriveSpec
CONSTANTS
  Words <- MCWords
  Canon <- MCCanon
  EmptyObject <- MCEmptyObject
  Unexpected <- MCUnexpected
  Phrases <- MCPhrases
  Goldens <- MCGoldens
  EditLists <- MCEditLists
  Slots <- MCSlots
  Targets <- MCTargets
  Screenplays <- MCScreenplays
  MaxCommands = 2
INVARIANTS
  LineageTrue
  BehaviorKept
  EditedAsAsked
  CanonicalUnique
  ShrinkCovers
  
CHECK_DEADLOCK FALSE
