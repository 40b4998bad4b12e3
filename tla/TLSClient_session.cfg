CONSTANTS
  Flags <- MCFlags
  Staples <- MCStaples
SPECIFICATION Spec
\* main returns, or calls log.Fatal or os.Exit: the process ends there.
CHECK_DEADLOCK FALSE
INVARIANTS
  ResponseNotTruncated
  OCSPStapleRequired
PROPERTY ClientExitsAfterServerEnds
