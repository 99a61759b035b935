\* Flows that branch, pause, loop and carry tools, and all graphs of four nodes and up to
\* four edges; two attempts, three decisions.
SPECIFICATION FairSpec
CONSTANTS
  Flows <- Walked
  MaxAttempts = 2
  MaxDecisions = 3
INVARIANTS
  UntakenIsSkipped
  NeverRepeats
  DecidesOnWhatWasShown
  SentBackWithinLimit
  SourcesComeFirst
PROPERTIES
  WalkIsDurable
  WalksEnd
  EveryNodeIsPlaced
\* an execution that has completed, failed or waits for people stops
CHECK_DEADLOCK FALSE
