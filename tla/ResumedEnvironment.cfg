\* A flow with one variable, paused for an approval.
SPECIFICATION EnvSpec
CONSTANTS
  None = None
  EnvNames = {x}
  EnvGroups = {g1}
  EnvVaults = {v1}
  MaxAttempts = 2
  MaxEnvWrites = 1
INVARIANT ResumedSeesSameEnv
\* an execution that waits for a person may stay there
CHECK_DEADLOCK FALSE
