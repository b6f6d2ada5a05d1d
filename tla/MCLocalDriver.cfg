\* A budget of two chunks, and a child that may write three.  A read of at most
\* four bytes with room for two, of a path of which two names may be replaced.
CONSTANTS
  None = None
  MaxBytes = 2
  MaxChunks = 3
  ReadBytes = 2
  MaxFile = 4
  MaxChanges = 2
  Ranges <- MCRanges
SPECIFICATION DriverSpec
INVARIANTS
  TypeOK
  FrameTellsRun
  ReadIsExact
  HandleIsInside
PROPERTY CallsEnd
CHECK_DEADLOCK FALSE
