SPECIFICATION FairSpec
CONSTANTS
  Bots <- MCBots
  MaxEvents = 3
  MaxJumps = 2
  MaxEntries = 3
INVARIANTS
  EngineInv
  SessionSound
  OwnInstructions
PROPERTY
  EventsEnd
  NotReentered
CHECK_DEADLOCK FALSE
