\* Two of three people at one gate, two workers, three calls in any interleaving.
SPECIFICATION Spec
CONSTANTS
  alice = alice
  bob = bob
  carol = carol
  w1 = w1
  w2 = w2
  r1 = r1
  r2 = r2
  r3 = r3
  Workers <- WorkerPair
  Requests <- Three
  Users <- People
  Kind <- KindGate
  Multi <- FirstIsMulti
  MayDecide <- AnyOfThree
  Required <- TwoNeeded
  Leads <- OnlyApprovalEnds
  Onward <- FromFirst
  Inputs <- PlainOrDecided
  MaxCrashes = 0
  MaxFaults = 0
  MaxVersions = 2
SYMMETRY Symmetry
INVARIANTS
  OpenBallotIsSound
PROPERTIES
  KeepsPromise
\* an execution that is settled stays put once nobody acts on it
CHECK_DEADLOCK FALSE
