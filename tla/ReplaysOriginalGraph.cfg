\* Does an approval replay the graph the execution started with?
SPECIFICATION Spec
CONSTANTS
  alice = alice
  bob = bob
  carol = carol
  w1 = w1
  w2 = w2
  r1 = r1
  r2 = r2
  r3 = r3
  Workers = {w1}
  Requests <- Two
  Users = {alice}
  Kind <- KindGate
  Multi <- NoMulti
  MayDecide <- OnlyAlice
  Required <- OneNeeded
  Leads <- LeadsSelf
  Onward <- FromFirst
  Inputs <- Plain
  MaxCrashes = 0
  MaxFaults = 0
  MaxVersions = 2
INVARIANTS
  ReplaysOriginalGraph
\* an execution that is settled stays put once nobody acts on it
CHECK_DEADLOCK FALSE
