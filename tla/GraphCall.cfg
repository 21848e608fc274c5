SPECIFICATION FairSpec
CONSTANTS
  listener = listener
  daemon = daemon
  Client = {listener, daemon}
  MaxPages = 2
  MaxTokens = 2
INVARIANTS
  TypeOK
  RepeatedOnce
  CurrentToken
  FileIntact
  SaveSucceeds
PROPERTY
  EveryCallEnds
