\* A gate for two, a delay, a gate that leads back; one worker, three calls, a crash.
SPECIFICATION Spec
CONSTANTS
  alice = alice
  bob = bob
  carol = carol
  w1 = w1
  w2 = w2
  r1 = r1
  r2 = r2
  r3 = r3
  Workers = {w1}
  Requests <- Three
  Users <- Pair
  Kind <- KindGateDelayGate
  Multi <- FirstIsMulti
  MayDecide <- PairThenAlice
  Required <- TwoThenOne
  Leads <- LeadsBackAndOn
  Onward <- DelayBetween
  Inputs <- Plain
  MaxCrashes = 1
  MaxFaults = 0
  MaxVersions = 1
SYMMETRY Symmetry
INVARIANTS
  CompletedWasApproved
  DecisionsBacked
  NoStuckRunning
\* an execution that is settled stays put once nobody acts on it
CHECK_DEADLOCK FALSE
