\* A condition with a default path.
SPECIFICATION Spec
CONSTANTS
  Flows <- Defaults
  MaxAttempts = 1
  MaxDecisions = 1
INVARIANT DefaultPathIsFollowed
\* an execution that has completed, failed or waits for people stops
CHECK_DEADLOCK FALSE
