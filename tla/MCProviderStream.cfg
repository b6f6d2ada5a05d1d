\* One retry, up to three chunks, a limit of four fragments.
CONSTANTS
  Chunks <- MCChunks
  MaxRetries = 1
  MaxCharacters = 4
  MaxChunks = 3
SPECIFICATION FairSpec
INVARIANTS
  TypeOK
  ResponseMatchesEvents
  PartialAdmissible
PROPERTIES
  AbortIsFinal
  Ends
CHECK_DEADLOCK FALSE
