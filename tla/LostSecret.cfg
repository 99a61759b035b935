\* A key is rotated while the secrets are encrypted anew.
SPECIFICATION KeysSpec
CONSTANTS
  None = None
  SecretNames = {s1}
  Vaults = {v1}
  Texts = {t1}
  KeyRequests = {1, 2}
  MaxVersions = 3
  MaxSaves = 2
INVARIANT MigratedSecretsOpen
\* every request ends
CHECK_DEADLOCK FALSE
