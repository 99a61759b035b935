\* A branch that is not taken but holds a reviewer's loop or a tool's agent.
SPECIFICATION Spec
CONSTANTS
  Flows <- OptionalReview
  MaxAttempts = 1
  MaxDecisions = 2
INVARIANT UntakenIsSkipped
\* an execution that has completed, failed or waits for people stops
CHECK_DEADLOCK FALSE
