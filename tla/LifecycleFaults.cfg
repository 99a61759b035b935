\* One gate under fairness: two workers, one call, two crashes and a failed statement.
SPECIFICATION FairSpec
CONSTANTS
  alice = alice
  bob = bob
  carol = carol
  w1 = w1
  w2 = w2
  r1 = r1
  r2 = r2
  r3 = r3
  Workers <- WorkerPair
  Requests = {r1}
  Users = {alice}
  Kind <- KindGate
  Multi <- NoMulti
  MayDecide <- OnlyAlice
  Required <- OneNeeded
  Leads <- LeadsSelf
  Onward <- FromFirst
  Inputs <- Plain
  MaxCrashes = 2
  MaxFaults = 1
  MaxVersions = 1
INVARIANTS
  CompletedHasNoSandbox
PROPERTIES
  EventuallySettles
\* an execution that is settled stays put once nobody acts on it
CHECK_DEADLOCK FALSE
