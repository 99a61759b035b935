------------------------------- MODULE RunProofs -------------------------------
(***************************************************************************)
(* About what runs have in hand, for any number of gates, approvers,       *)
(* executions, commands, nodes and walks: the sandbox of a debug run, the  *)
(* commands of the sidecar, the requests of an http node, the rows of      *)
(* steps, flows inside flows, the texts of an agent and the environment.   *)
(***************************************************************************)
EXTENDS DebugRuns, Sandbox, ExecutionSteps, NestedRuns, RunEnvironment, AgentLoop, HttpNode,
        FiniteSetTheorems, SequenceTheorems, WellFoundedInduction, TLAPS

(* Sets of numbers have a least element, and a largest if they are bounded. *)
LEMMA LeastOf ==
  ASSUME NEW S, S \subseteq Nat, S # {}
  PROVE  \E m \in S : \A x \in S : m <= x
<1>0. PICK R : R = OpToRel(<, Nat)
  OBVIOUS
<1>1. \A x, y \in Nat : x < y => <<x, y>> \in R
  BY <1>0 DEF OpToRel
<1>2. IsWellFoundedOn(R, Nat)
  BY <1>0, NatLessThanWellFounded
<1>3. PICK m \in S : \A x \in S : <<x, m>> \notin R
  BY <1>2, WFMin
<1>4. ASSUME NEW x \in S PROVE m <= x
  <2>1. m \in Nat /\ x \in Nat /\ <<x, m>> \notin R
    BY <1>3
  <2>2. ~(x < m)
    BY <1>1, <2>1, Zenon
  <2> QED BY <2>1, <2>2
<1> QED BY <1>4

LEMMA LargestOf ==
  ASSUME NEW S, S \subseteq Nat, S # {}, NEW n \in Nat, \A x \in S : x <= n
  PROVE  \E m \in S : \A x \in S : x <= m
<1> DEFINE T == {k \in Nat : n - k \in S}
<1>1. T \subseteq Nat /\ T # {}
  <2>1. PICK x \in S : TRUE
    OBVIOUS
  <2>2. n - x \in T
    BY <2>1
  <2> QED BY <2>2
<1>2. PICK t \in T : \A u \in T : t <= u
  <2> HIDE DEF T
  <2> QED BY <1>1, LeastOf
<1>3. ASSUME NEW x \in S PROVE x <= n - t
  <2>1. n - x \in T
    OBVIOUS
  <2>2. t <= n - x /\ t \in Nat /\ x \in Nat
    BY <1>2, <2>1
  <2> QED BY <2>2
<1> QED BY <1>2, <1>3

-------------------------------------------------------------------------------

(* Debug runs: at most one of the run, its pause, one approver and one      *)
(* teardown has the sandbox.                                               *)
Executing == debugRun \in {"building", "running"}
Waiting == parked # None
Resuming(a) == resuming[a] # None

DebugTyped ==
  /\ debugRun \in {"requested", "building", "running", "ended"}
  /\ parked \in (1..DebugGates) \cup {None}
  /\ resuming \in [Approvers -> (1..DebugGates) \cup {None}]
  /\ client \in {"connected", "gone"}
  /\ aborted \in BOOLEAN /\ active \in BOOLEAN /\ sandbox \in BOOLEAN /\ forgotten \in BOOLEAN
  /\ teardowns \in {0, 1}

OneHolds ==
  /\ debugRun # "ended" => ~Waiting /\ teardowns = 0 /\ \A a \in Approvers : ~Resuming(a)
  /\ Waiting => teardowns = 0 /\ \A a \in Approvers : ~Resuming(a)
  /\ \A a, b \in Approvers : Resuming(a) /\ Resuming(b) => a = b
  /\ teardowns = 1 => \A a \in Approvers : ~Resuming(a)

SomebodyHolds ==
  /\ sandbox /\ ~forgotten =>
       Executing \/ Waiting \/ teardowns = 1 \/ \E a \in Approvers : Resuming(a)
  /\ debugRun = "requested" => ~sandbox

DebugInv == DebugTyped /\ OneHolds /\ SomebodyHolds

LEMMA GatesAreValues == \A gate \in 1..DebugGates : gate # None
<1> QED BY DebugAssumption DEF DebugAssumption

LEMMA DebugStarts == DebugInit => DebugInv
<1> SUFFICES ASSUME DebugInit PROVE DebugInv
  OBVIOUS
<1>1. aborted \in BOOLEAN /\ active \in BOOLEAN /\ sandbox \in BOOLEAN /\ forgotten \in BOOLEAN
  BY Zenon DEF DebugInit
<1>2. DebugTyped
  BY <1>1 DEF DebugInit, DebugTyped
<1>3. OneHolds /\ SomebodyHolds
  BY DEF DebugInit, OneHolds, SomebodyHolds, Executing, Waiting, Resuming
<1> QED BY <1>2, <1>3 DEF DebugInv

(* The run itself: it has the sandbox until it parks, ends or fails.       *)
LEMMA DebugRunKeeps ==
  ASSUME DebugInv, SetUpDebug \/ BuildContext \/ CloseStream \/ EndRun \/ PauseRun
  PROVE  DebugInv'
<1>1. CASE SetUpDebug
  <2>1. sandbox' \in BOOLEAN
    BY <1>1 DEF SetUpDebug, DebugInv, DebugTyped
  <2>2. DebugTyped'
    BY <1>1, <2>1 DEF SetUpDebug, DebugInv, DebugTyped
  <2>3. OneHolds' /\ SomebodyHolds'
    BY <1>1 DEF SetUpDebug, DebugInv, DebugTyped, OneHolds, SomebodyHolds, Executing, Waiting, Resuming
  <2> QED BY <2>2, <2>3 DEF DebugInv
<1>2. CASE BuildContext
  <2>1. active' \in BOOLEAN /\ forgotten' \in BOOLEAN
    BY <1>2, Zenon DEF BuildContext, DebugInv, DebugTyped
  <2>2. DebugTyped'
    BY <1>2, <2>1 DEF BuildContext, DebugInv, DebugTyped
  <2>3. OneHolds' /\ SomebodyHolds'
    BY <1>2 DEF BuildContext, DebugInv, DebugTyped, OneHolds, SomebodyHolds, Executing, Waiting, Resuming
  <2> QED BY <2>2, <2>3 DEF DebugInv
<1>3. CASE CloseStream
  <2>1. active' \in BOOLEAN /\ aborted' \in BOOLEAN
    BY <1>3, Zenon DEF CloseStream, DebugInv, DebugTyped
  <2>2. DebugTyped'
    BY <1>3, <2>1 DEF CloseStream, DebugInv, DebugTyped
  <2>3. OneHolds' /\ SomebodyHolds'
    BY <1>3 DEF CloseStream, DebugInv, DebugTyped, OneHolds, SomebodyHolds, Executing, Waiting, Resuming
  <2> QED BY <2>2, <2>3 DEF DebugInv
<1>4. CASE EndRun
  <2>1. active' \in BOOLEAN
    BY <1>4, Zenon DEF EndRun
  <2>2. DebugTyped'
    BY <1>4, <2>1 DEF EndRun, DebugInv, DebugTyped, OneHolds
  <2>3. OneHolds' /\ SomebodyHolds'
    BY <1>4 DEF EndRun, DebugInv, DebugTyped, OneHolds, SomebodyHolds, Executing, Waiting, Resuming
  <2> QED BY <2>2, <2>3 DEF DebugInv
<1>5. CASE PauseRun
  <2>1. active' \in BOOLEAN
    BY <1>5, Zenon DEF PauseRun
  <2>2. parked' \in 1..DebugGates /\ parked' # None
    BY <1>5, DebugAssumption DEF PauseRun, DebugAssumption
  <2>3. DebugTyped'
    BY <1>5, <2>1, <2>2 DEF PauseRun, DebugInv, DebugTyped
  <2>4. OneHolds' /\ SomebodyHolds'
    BY <1>5, <2>2 DEF PauseRun, DebugInv, DebugTyped, OneHolds, SomebodyHolds, Executing, Waiting, Resuming
  <2> QED BY <2>3, <2>4 DEF DebugInv
<1> QED BY <1>1, <1>2, <1>3, <1>4, <1>5

(* An approver takes the pause out of the map, and hands it on.            *)
LEMMA ApprovalKeeps ==
  ASSUME DebugInv, NEW a \in Approvers, TakeParked(a) \/ EndResumed(a)
  PROVE  DebugInv'
<1>1. UNCHANGED <<debugRun, client, aborted, active, sandbox, forgotten>>
  BY DEF TakeParked, EndResumed
<1>2. resuming \in [Approvers -> (1..DebugGates) \cup {None}]
  BY DEF DebugInv, DebugTyped
<1>3. CASE TakeParked(a)
  <2>1. debugRun = "ended" /\ teardowns = 0 /\ \A b \in Approvers : ~Resuming(b)
    BY <1>3 DEF TakeParked, DebugInv, OneHolds, Waiting
  <2>2. CASE teardowns' = 1 /\ UNCHANGED resuming /\ parked' = None
    <3>1. DebugTyped'
      BY <1>1, <2>2, Zenon DEF DebugInv, DebugTyped
    <3>2. OneHolds' /\ SomebodyHolds'
      BY <1>1, <2>1, <2>2 DEF OneHolds, SomebodyHolds, Executing, Waiting, Resuming
    <3> QED BY <3>1, <3>2 DEF DebugInv
  <2>3. CASE resuming' = [resuming EXCEPT ![a] = parked] /\ UNCHANGED teardowns /\ parked' = None
    <3>1. resuming' \in [Approvers -> (1..DebugGates) \cup {None}]
      BY <1>2, <2>3 DEF DebugInv, DebugTyped
    <3>2. DebugTyped'
      BY <1>1, <2>3, <3>1, Zenon DEF DebugInv, DebugTyped
    <3>3. OneHolds' /\ SomebodyHolds'
      BY <1>1, <1>2, <1>3, <2>1, <2>3
      DEF TakeParked, OneHolds, SomebodyHolds, Executing, Waiting, Resuming
    <3> QED BY <3>2, <3>3 DEF DebugInv
  <2> QED BY <1>3, <2>1, <2>2, <2>3 DEF TakeParked
<1>4. CASE EndResumed(a)
  <2>1. /\ debugRun = "ended" /\ teardowns = 0 /\ ~Waiting
        /\ \A b \in Approvers : Resuming(b) => b = a
    BY <1>4 DEF EndResumed, DebugInv, DebugTyped, OneHolds, Resuming
  <2>2. resuming' = [resuming EXCEPT ![a] = None]
        /\ resuming' \in [Approvers -> (1..DebugGates) \cup {None}]
    BY <1>2, <1>4 DEF EndResumed
  <2>3. \A b \in Approvers : resuming'[b] = None
    BY <1>2, <2>1, <2>2 DEF Resuming
  <2>4. CASE teardowns' = 1 /\ UNCHANGED parked
    <3>1. DebugTyped'
      BY <1>1, <2>2, <2>4, Zenon DEF DebugInv, DebugTyped
    <3>2. OneHolds' /\ SomebodyHolds'
      BY <1>1, <2>1, <2>3, <2>4 DEF OneHolds, SomebodyHolds, Executing, Waiting, Resuming
    <3> QED BY <3>1, <3>2 DEF DebugInv
  <2>5. CASE resuming[a] < DebugGates /\ parked' = resuming[a] + 1 /\ UNCHANGED teardowns
    <3>1. parked' \in 1..DebugGates
      BY <1>2, <1>4, <2>5, DebugAssumption DEF EndResumed, DebugAssumption
    <3>2. DebugTyped'
      BY <1>1, <2>2, <2>5, <3>1, Zenon DEF DebugInv, DebugTyped
    <3>3. OneHolds' /\ SomebodyHolds'
      BY <1>1, <2>1, <2>3, <2>5, <3>1, GatesAreValues
      DEF OneHolds, SomebodyHolds, Executing, Waiting, Resuming
    <3> QED BY <3>2, <3>3 DEF DebugInv
  <2> QED BY <1>4, <2>1, <2>4, <2>5 DEF EndResumed
<1> QED BY <1>3, <1>4

(* What is torn down is in nobody's hand; a failed teardown is forgotten,   *)
(* and so is everything by a process that restarts.                        *)
LEMMA LossKeeps ==
  ASSUME DebugInv, TearDownDebug \/ RestartBackend
  PROVE  DebugInv'
<1>1. CASE TearDownDebug
  <2>1. sandbox' \in BOOLEAN /\ forgotten' \in BOOLEAN
    BY <1>1, Zenon DEF TearDownDebug, DebugInv, DebugTyped
  <2>2. DebugTyped'
    BY <1>1, <2>1 DEF TearDownDebug, DebugInv, DebugTyped
  <2>3. OneHolds' /\ SomebodyHolds'
    BY <1>1 DEF TearDownDebug, DebugInv, DebugTyped, OneHolds, SomebodyHolds, Executing, Waiting, Resuming
  <2> QED BY <2>2, <2>3 DEF DebugInv
<1>2. CASE RestartBackend
  <2>1. aborted' \in BOOLEAN /\ active' \in BOOLEAN /\ sandbox' \in BOOLEAN /\ forgotten' \in BOOLEAN
    BY <1>2, Zenon DEF RestartBackend, DebugInv, DebugTyped
  <2>2. DebugTyped'
    BY <1>2, <2>1 DEF RestartBackend, DebugInv, DebugTyped
  <2>3. OneHolds' /\ SomebodyHolds'
    BY <1>2 DEF RestartBackend, OneHolds, SomebodyHolds, Executing, Waiting, Resuming
  <2> QED BY <2>2, <2>3 DEF DebugInv
<1> QED BY <1>1, <1>2

LEMMA DebugInvHolds == DebugSpec => []DebugInv
<1>1. DebugInv /\ DebugNext => DebugInv'
  BY DebugRunKeeps, ApprovalKeeps, LossKeeps DEF DebugNext
<1>2. DebugInv /\ UNCHANGED debugVars => DebugInv'
  BY DEF debugVars, DebugInv, DebugTyped, OneHolds, SomebodyHolds, Executing, Waiting, Resuming
<1> QED BY <1>1, <1>2, DebugStarts, PTL DEF DebugSpec

(* The sandbox of a debug run is in exactly one hand until it is torn down, *)
(* or a fault makes the code forget it: an approval takes the pause out of  *)
(* the map before anything else, and each way out of a run tears down once. *)
THEOREM SandboxIsHeldOnce == DebugSpec => []SandboxHeldOnce
<1>1. ASSUME DebugInv PROVE SandboxHeldOnce
  <2> DEFINE holders == {a \in Approvers : resuming[a] # None}
             count == Cardinality(holders)
  <2>1. \A a \in Approvers : a \in holders <=> Resuming(a)
    BY DEF Resuming
  <2>2. /\ holders = {} => count = 0
        /\ holders # {} => count = 1
    <3>1. CASE holders = {}
      BY <3>1, FS_EmptySet
    <3>2. CASE holders # {}
      <4>1. PICK a \in Approvers : a \in holders
        BY <3>2
      <4>2. holders = {a}
        BY <1>1, <2>1, <4>1 DEF DebugInv, OneHolds
      <4> QED BY <4>2, FS_Singleton
    <3> QED BY <3>1, <3>2
  <2>3. holders = {} <=> \A a \in Approvers : ~Resuming(a)
    BY <2>1
  <2> HIDE DEF holders, count
  <2>4. InHand = count + (IF Waiting THEN 1 ELSE 0) + (IF Executing THEN 1 ELSE 0) + teardowns
    BY DEF InHand, Waiting, Executing, count, holders
  <2>5. InHand <= 1
    BY <1>1, <2>2, <2>3, <2>4 DEF DebugInv, DebugTyped, OneHolds, Executing
  <2>6. sandbox /\ ~forgotten => InHand = 1
    BY <1>1, <2>2, <2>3, <2>4 DEF DebugInv, DebugTyped, OneHolds, SomebodyHolds, Executing
  <2> QED BY <2>5, <2>6 DEF SandboxHeldOnce
<1> QED BY <1>1, DebugInvHolds, PTL

-------------------------------------------------------------------------------
(* The sidecar: directories have inodes of their own, and what a helper may *)
(* write is never a directory another execution has now.                   *)
GroupStages == {"spawned", "rules", "ruled", "restricted", "running", "exited"}
Directory == [inode : Nat, old : BOOLEAN, key : BOOLEAN]
Group ==
  [of : Execs, home : Nat, stage : GroupStages, caged : BOOLEAN, writes : SUBSET Nat,
   children : BOOLEAN, timer : BOOLEAN, worked : BOOLEAN]

DirsOK ==
  /\ inodes \in 0..MaxDirs
  /\ dirs \in [Execs -> Directory \cup {None}]
  /\ \A e \in Execs : dirs[e] # None => dirs[e].inode \in 1..inodes
  /\ \A d, e \in Execs :
       dirs[d] # None /\ dirs[e] # None /\ dirs[d].inode = dirs[e].inode => d = e

HelpersOK ==
  /\ DOMAIN helpers = Slots
  /\ \A s \in Slots : helpers[s] # None =>
       /\ helpers[s] \in Group
       /\ helpers[s].writes \subseteq 1..inodes
       /\ helpers[s].stage \in {"restricted", "running"} => helpers[s].caged

WritesOwn ==
  \A s \in Slots : helpers[s] # None =>
    \A e \in Execs \ {helpers[s].of} : dirs[e] # None => dirs[e].inode \notin helpers[s].writes

SandboxInv == DirsOK /\ HelpersOK /\ WritesOwn

LEMMA SandboxStarts == SandboxInit => SandboxInv
<1> QED BY SandboxAssumption
    DEF SandboxAssumption, SandboxInit, SandboxInv, DirsOK, HelpersOK, WritesOwn

(* A directory that is there keeps its inode, or is gone.                  *)
LEMMA DirectoriesKeep ==
  ASSUME SandboxInv, UNCHANGED inodes, dirs' \in [Execs -> Directory \cup {None}],
         \A e \in Execs : dirs'[e] # None => dirs[e] # None /\ dirs'[e].inode = dirs[e].inode
  PROVE  /\ DirsOK'
         /\ UNCHANGED helpers => SandboxInv'
         /\ \A s \in Slots : helpers[s] # None =>
              \A e \in Execs \ {helpers[s].of} :
                dirs'[e] # None => dirs'[e].inode \notin helpers[s].writes
<1>1. DirsOK'
  BY DEF SandboxInv, DirsOK
<1>2. \A s \in Slots : helpers[s] # None =>
        \A e \in Execs \ {helpers[s].of} :
          dirs'[e] # None => dirs'[e].inode \notin helpers[s].writes
  BY DEF SandboxInv, WritesOwn
<1>3. ASSUME UNCHANGED helpers PROVE SandboxInv'
  <2>1. HelpersOK' /\ WritesOwn'
    BY <1>2, <1>3 DEF SandboxInv, HelpersOK, WritesOwn
  <2> QED BY <1>1, <2>1 DEF SandboxInv
<1> QED BY <1>1, <1>2, <1>3

(* A helper goes on with the rights it had, or fewer.                      *)
LEMMA HelperKeeps ==
  ASSUME SandboxInv, NEW s \in Slots, NEW next, helpers' = [helpers EXCEPT ![s] = next],
         UNCHANGED <<dirs, inodes>>,
         \/ next = None
         \/ /\ next \in Group /\ next.writes \subseteq 1..inodes
            /\ next.stage \in {"restricted", "running"} => next.caged
            /\ \A e \in Execs \ {next.of} : dirs[e] # None => dirs[e].inode \notin next.writes
  PROVE  SandboxInv'
<1>1. DOMAIN helpers' = Slots /\ \A q \in Slots : helpers'[q] = IF q = s THEN next ELSE helpers[q]
  BY DEF SandboxInv, HelpersOK
<1>2. HelpersOK' /\ WritesOwn'
  BY <1>1 DEF SandboxInv, HelpersOK, WritesOwn
<1>3. DirsOK'
  BY DEF SandboxInv, DirsOK
<1> QED BY <1>2, <1>3 DEF SandboxInv

LEMMA HelperAdvances ==
  ASSUME SandboxInv, NEW s \in Slots, helpers[s] # None, NEW stage \in GroupStages,
         NEW caged \in BOOLEAN, NEW children \in BOOLEAN, NEW timer \in BOOLEAN,
         stage \in {"restricted", "running"} => caged,
         helpers' = [helpers EXCEPT ![s] = [helpers[s] EXCEPT !.stage = stage, !.caged = caged,
                       !.children = children, !.timer = timer]],
         UNCHANGED <<dirs, inodes>>
  PROVE  SandboxInv'
<1> DEFINE next == [helpers[s] EXCEPT !.stage = stage, !.caged = caged, !.children = children,
                      !.timer = timer]
<1>1. helpers[s] \in Group /\ helpers[s].writes \subseteq 1..inodes
      /\ \A e \in Execs \ {helpers[s].of} : dirs[e] # None => dirs[e].inode \notin helpers[s].writes
  BY DEF SandboxInv, HelpersOK, WritesOwn
<1>2. /\ next \in Group /\ next.writes = helpers[s].writes /\ next.of = helpers[s].of
      /\ next.stage = stage /\ next.caged = caged
  BY <1>1 DEF Group
<1>3. helpers' = [helpers EXCEPT ![s] = next]
  OBVIOUS
<1> HIDE DEF next
<1> QED BY <1>1, <1>2, <1>3, HelperKeeps

(* A new directory has an inode no helper has seen.                        *)
LEMMA SetUpKeeps ==
  ASSUME SandboxInv, NEW e \in Execs, SetUpDirectory(e)
  PROVE  SandboxInv'
<1> DEFINE new == [inode |-> inodes + 1, old |-> FALSE, key |-> FALSE]
<1>1. inodes \in Nat /\ inodes' = inodes + 1 /\ inodes' \in 0..MaxDirs
      /\ 1..inodes \subseteq 1..inodes' /\ inodes + 1 \notin 1..inodes
  BY SandboxAssumption DEF SandboxAssumption, SetUpDirectory, SandboxInv, DirsOK
<1>2. new \in Directory /\ new.inode = inodes + 1
  BY <1>1 DEF Directory
<1>3. dirs' = [dirs EXCEPT ![e] = new] /\ UNCHANGED helpers
  BY DEF SetUpDirectory
<1> HIDE DEF new
<1>4. dirs' \in [Execs -> Directory \cup {None}]
      /\ \A d \in Execs : dirs'[d] = IF d = e THEN new ELSE dirs[d]
  BY <1>2, <1>3 DEF SandboxInv, DirsOK
<1>5. DirsOK'
  <2>1. new.inode \in 1..inodes'
    BY <1>1, <1>2
  <2>2. \A d \in Execs : d # e /\ dirs'[d] # None =>
          dirs'[d].inode \in 1..inodes' /\ dirs'[d].inode # new.inode
    BY <1>1, <1>2, <1>4 DEF SandboxInv, DirsOK
  <2> QED BY <1>1, <1>4, <2>1, <2>2 DEF SandboxInv, DirsOK
<1>6. HelpersOK'
  BY <1>1, <1>3 DEF SandboxInv, HelpersOK
<1>7. WritesOwn'
  BY <1>1, <1>2, <1>3, <1>4 DEF SandboxInv, HelpersOK, WritesOwn
<1> QED BY <1>5, <1>6, <1>7 DEF SandboxInv

(* A helper begins with no right on any directory.                         *)
LEMMA StartKeeps ==
  ASSUME SandboxInv, NEW s \in Slots, NEW e \in Execs, StartCommand(s, e) \/ StartCondition(s, e)
  PROVE  SandboxInv'
<1>1. dirs[e] # None /\ dirs[e] \in Directory /\ UNCHANGED inodes
      /\ helpers' = [helpers EXCEPT ![s] = Spawned(e)]
  BY DEF StartCommand, StartCondition, SandboxInv, DirsOK
<1>2. Spawned(e) \in Group /\ Spawned(e).writes = {} /\ Spawned(e).stage = "spawned"
  BY <1>1 DEF Spawned, Group, Directory, GroupStages
<1>3. dirs' \in [Execs -> Directory \cup {None}]
      /\ \A d \in Execs : dirs'[d] # None => dirs[d] # None /\ dirs'[d].inode = dirs[d].inode
  <2>1. CASE StartCommand(s, e)
    <3>1. PICK withKey \in BOOLEAN :
            dirs' = [dirs EXCEPT ![e].key = @ \/ withKey,
                                 ![e].old = @ /\ ~(withKey /\ ~dirs[e].key)]
      BY <2>1 DEF StartCommand
    <3> DEFINE new == [dirs[e] EXCEPT !.key = @ \/ withKey,
                                      !.old = @ /\ ~(withKey /\ ~dirs[e].key)]
    <3>2. dirs' = [dirs EXCEPT ![e] = new]
      BY <1>1, <3>1 DEF SandboxInv, DirsOK
    <3>3. \A d \in Directory, key \in BOOLEAN, old \in BOOLEAN :
            [d EXCEPT !.key = key, !.old = old] \in Directory
            /\ [d EXCEPT !.key = key, !.old = old].inode = d.inode
      BY DEF Directory
    <3>4. new \in Directory /\ new.inode = dirs[e].inode
      <4>1. new = [dirs[e] EXCEPT !.key = dirs[e].key \/ withKey,
                                  !.old = dirs[e].old /\ ~(withKey /\ ~dirs[e].key)]
        BY <1>1 DEF Directory
      <4>2. (dirs[e].key \/ withKey) \in BOOLEAN
            /\ (dirs[e].old /\ ~(withKey /\ ~dirs[e].key)) \in BOOLEAN
        BY Zenon
      <4> HIDE DEF new
      <4> QED BY <1>1, <3>3, <4>1, <4>2
    <3> HIDE DEF new
    <3> QED BY <1>1, <3>2, <3>4 DEF SandboxInv, DirsOK
  <2>2. CASE StartCondition(s, e)
    BY <2>2 DEF StartCondition, SandboxInv, DirsOK
  <2> QED BY <2>1, <2>2
<1>4. DirsOK' /\ \A q \in Slots : helpers[q] # None =>
        \A d \in Execs \ {helpers[q].of} :
          dirs'[d] # None => dirs'[d].inode \notin helpers[q].writes
  BY <1>1, <1>3, DirectoriesKeep
<1> HIDE DEF Spawned
<1>5. DOMAIN helpers' = Slots
      /\ \A q \in Slots : helpers'[q] = IF q = s THEN Spawned(e) ELSE helpers[q]
  BY <1>1 DEF SandboxInv, HelpersOK
<1>6. HelpersOK' /\ WritesOwn'
  BY <1>1, <1>2, <1>4, <1>5 DEF SandboxInv, HelpersOK, WritesOwn
<1> QED BY <1>4, <1>6 DEF SandboxInv

LEMMA TearDownKeeps ==
  ASSUME SandboxInv, NEW e \in Execs, TearDownDirectory(e) \/ GrowOld(e)
  PROVE  SandboxInv'
<1>1. dirs[e] # None /\ dirs[e] \in Directory /\ UNCHANGED <<inodes, helpers>>
  BY DEF TearDownDirectory, GrowOld, SandboxInv, DirsOK
<1>2. CASE dirs' = [dirs EXCEPT ![e] = None]
  BY <1>1, <1>2, DirectoriesKeep DEF SandboxInv, DirsOK
<1>3. ASSUME NEW d \in Directory, d.inode = dirs[e].inode, dirs' = [dirs EXCEPT ![e] = d]
      PROVE  SandboxInv'
  BY <1>1, <1>3, DirectoriesKeep DEF SandboxInv, DirsOK
<1>4. CASE dirs' = [dirs EXCEPT ![e].old = FALSE, ![e].key = FALSE]
  <2> DEFINE d == [dirs[e] EXCEPT !.old = FALSE, !.key = FALSE]
  <2>1. d \in Directory /\ d.inode = dirs[e].inode
    BY <1>1 DEF Directory
  <2>2. dirs' = [dirs EXCEPT ![e] = d]
    BY <1>1, <1>4 DEF SandboxInv, DirsOK
  <2> HIDE DEF d
  <2> QED BY <1>3, <2>1, <2>2
<1>5. CASE dirs' = [dirs EXCEPT ![e].old = TRUE]
  <2> DEFINE d == [dirs[e] EXCEPT !.old = TRUE]
  <2>1. d \in Directory /\ d.inode = dirs[e].inode
    BY <1>1 DEF Directory
  <2>2. dirs' = [dirs EXCEPT ![e] = d]
    BY <1>5
  <2> HIDE DEF d
  <2> QED BY <1>3, <2>1, <2>2
<1> QED BY <1>2, <1>4, <1>5 DEF TearDownDirectory, GrowOld

(* The helper: its rules name the directory that is there when they are     *)
(* added, and it runs the command only after it has restricted itself.     *)
LEMMA HelperStepsKeep ==
  ASSUME SandboxInv, NEW s \in Slots,
         MakeRuleset(s) \/ AddRules(s) \/ RestrictSelf(s) \/ ExecuteCommand(s) \/ Fork(s)
           \/ EndCommand(s) \/ EndChildren(s) \/ KillGroup(s) \/ CloseCommand(s)
  PROVE  SandboxInv'
<1> DEFINE h == helpers[s]
           Became(stage, caged, children, timer) ==
             helpers' = [helpers EXCEPT ![s] = [h EXCEPT !.stage = stage, !.caged = caged,
                           !.children = children, !.timer = timer]]
<1>1. h # None /\ h \in Group /\ UNCHANGED inodes
      /\ (h.stage \in {"restricted", "running"} => h.caged)
  BY DEF MakeRuleset, AddRules, RestrictSelf, ExecuteCommand, Fork, EndCommand, EndChildren,
     KillGroup, CloseCommand, At, SandboxInv, HelpersOK
<1>2. h.stage \in GroupStages /\ h.caged \in BOOLEAN /\ h.children \in BOOLEAN /\ h.timer \in BOOLEAN
      /\ h.of \in Execs
  BY <1>1 DEF Group
<1>3. h = [h EXCEPT !.stage = h.stage, !.caged = h.caged, !.children = h.children, !.timer = h.timer]
  BY <1>1 DEF Group
<1>4. DOMAIN helpers = Slots
  BY DEF SandboxInv, HelpersOK
<1>5. CASE CloseCommand(s)
  BY <1>5, HelperKeeps DEF CloseCommand
<1>6. CASE AddRules(s) /\ dirs[h.of] # None
  <2> DEFINE next == [h EXCEPT !.stage = "ruled", !.writes = {dirs[h.of].inode}]
  <2>1. helpers' = [helpers EXCEPT ![s] = next] /\ UNCHANGED <<dirs, inodes>>
    BY <1>4, <1>6 DEF AddRules
  <2>2. dirs[h.of].inode \in 1..inodes /\ dirs[h.of].inode \in Nat
    BY <1>2, <1>6 DEF SandboxInv, DirsOK
  <2>3. next \in Group /\ next.of = h.of /\ next.stage = "ruled" /\ next.writes = {dirs[h.of].inode}
    BY <1>1, <2>2 DEF Group, GroupStages
  <2>4. \A e \in Execs \ {h.of} : dirs[e] # None => dirs[e].inode # dirs[h.of].inode
    BY <1>2, <1>6 DEF SandboxInv, DirsOK
  <2> HIDE DEF next
  <2> QED BY <2>1, <2>2, <2>3, <2>4, HelperKeeps
<1>7. ASSUME NEW stage \in GroupStages, NEW caged \in BOOLEAN, NEW children \in BOOLEAN,
             NEW timer \in BOOLEAN, stage \in {"restricted", "running"} => caged,
             Became(stage, caged, children, timer), UNCHANGED dirs
      PROVE  SandboxInv'
  BY <1>1, <1>7, HelperAdvances
<1>8. CASE MakeRuleset(s) \/ RestrictSelf(s) \/ ExecuteCommand(s) \/ Fork(s)
           \/ EndCommand(s) \/ EndChildren(s) \/ KillGroup(s) \/ (AddRules(s) /\ dirs[h.of] = None)
  <2>1. UNCHANGED dirs
    BY <1>8 DEF MakeRuleset, AddRules, RestrictSelf, ExecuteCommand, Fork, EndCommand, EndChildren,
       KillGroup
  <2>2. CASE helpers' = [helpers EXCEPT ![s].stage = "exited"]
    <3>1. Became("exited", h.caged, h.children, h.timer)
      BY <1>1, <1>4, <2>2 DEF Group
    <3> QED BY <1>2, <1>7, <2>1, <3>1 DEF GroupStages
  <2>3. CASE helpers' = [helpers EXCEPT ![s].stage = "rules"]
    <3>1. Became("rules", h.caged, h.children, h.timer)
      BY <1>1, <1>4, <2>3 DEF Group
    <3> QED BY <1>2, <1>7, <2>1, <3>1 DEF GroupStages
  <2>4. CASE helpers' = [helpers EXCEPT ![s].stage = "restricted", ![s].caged = TRUE]
    <3>1. Became("restricted", TRUE, h.children, h.timer)
      BY <1>1, <1>4, <2>4 DEF Group
    <3> QED BY <1>2, <1>7, <2>1, <3>1 DEF GroupStages
  <2>5. CASE h.stage = "restricted" /\ helpers' = [helpers EXCEPT ![s].stage = "running"]
    <3>1. Became("running", h.caged, h.children, h.timer)
      BY <1>1, <1>4, <2>5 DEF Group
    <3> QED BY <1>1, <1>2, <1>7, <2>1, <2>5, <3>1 DEF GroupStages
  <2>6. CASE \E b \in BOOLEAN : helpers' = [helpers EXCEPT ![s].children = b]
    <3>1. PICK b \in BOOLEAN : helpers' = [helpers EXCEPT ![s].children = b]
      BY <2>6
    <3>2. Became(h.stage, h.caged, b, h.timer)
      BY <1>1, <1>4, <3>1 DEF Group
    <3> QED BY <1>1, <1>2, <1>7, <2>1, <3>1, <3>2
  <2>7. CASE helpers' = [helpers EXCEPT ![s].timer = FALSE, ![s].stage = "exited",
                                        ![s].children = FALSE]
    <3>1. Became("exited", h.caged, FALSE, FALSE)
      BY <1>1, <1>4, <2>7 DEF Group
    <3> QED BY <1>2, <1>7, <2>1, <3>1 DEF GroupStages
  <2> QED BY <1>8, <2>2, <2>3, <2>4, <2>5, <2>6, <2>7
      DEF MakeRuleset, AddRules, RestrictSelf, ExecuteCommand, Fork, EndCommand, EndChildren,
          KillGroup, Exited, At
<1> QED BY <1>5, <1>6, <1>8 DEF AddRules

LEMMA TouchKeeps ==
  ASSUME SandboxInv, NEW s \in Slots, TouchDirectory(s)
  PROVE  SandboxInv'
<1>1. helpers[s] # None /\ helpers[s] \in Group /\ UNCHANGED inodes
      /\ DOMAIN helpers = Slots
      /\ helpers' = [helpers EXCEPT ![s] = [helpers[s] EXCEPT !.worked = TRUE]]
  BY DEF TouchDirectory, At, SandboxInv, HelpersOK
<1>2. \A d \in Directory : [d EXCEPT !.old = FALSE] \in Directory
                           /\ [d EXCEPT !.old = FALSE].inode = d.inode
  BY DEF Directory
<1>3. dirs' \in [Execs -> Directory \cup {None}]
      /\ \A d \in Execs : dirs'[d] # None => dirs[d] # None /\ dirs'[d].inode = dirs[d].inode
  BY <1>2 DEF TouchDirectory, SandboxInv, DirsOK
<1>4. DirsOK' /\ \A q \in Slots : helpers[q] # None =>
        \A d \in Execs \ {helpers[q].of} :
          dirs'[d] # None => dirs'[d].inode \notin helpers[q].writes
  BY <1>1, <1>3, DirectoriesKeep
<1> DEFINE next == [helpers[s] EXCEPT !.worked = TRUE]
<1>5. next \in Group /\ next.of = helpers[s].of /\ next.writes = helpers[s].writes
      /\ next.stage = helpers[s].stage /\ next.caged = helpers[s].caged
  BY <1>1 DEF Group
<1>6. \A q \in Slots : helpers'[q] = IF q = s THEN next ELSE helpers[q]
  BY <1>1
<1>7. DOMAIN helpers' = Slots
  BY <1>1
<1> HIDE DEF next
<1>8. HelpersOK' /\ WritesOwn'
  BY <1>1, <1>4, <1>5, <1>6, <1>7 DEF SandboxInv, HelpersOK, WritesOwn
<1> QED BY <1>4, <1>8 DEF SandboxInv

LEMMA SandboxInvHolds == SandboxSpec => []SandboxInv
<1>1. ASSUME SandboxInv, SandboxNext PROVE SandboxInv'
  <2>1. CASE ReapOldDirectories
    <3>1. /\ dirs' \in [Execs -> Directory \cup {None}] /\ UNCHANGED <<helpers, inodes>>
          /\ \A e \in Execs : dirs'[e] # None => dirs[e] # None /\ dirs'[e].inode = dirs[e].inode
      BY <1>1, <2>1 DEF ReapOldDirectories, IsExpired, SandboxInv, DirsOK
    <3> QED BY <1>1, <3>1, DirectoriesKeep
  <2>2. CASE RestartSidecar
    BY <1>1, <2>2 DEF RestartSidecar, SandboxInv, DirsOK, HelpersOK, WritesOwn
  <2> QED BY <1>1, <2>1, <2>2, SetUpKeeps, TearDownKeeps, StartKeeps, HelperStepsKeep, TouchKeeps
      DEF SandboxNext
<1>2. ASSUME SandboxInv, UNCHANGED sandboxVars PROVE SandboxInv'
  BY <1>2 DEF sandboxVars, SandboxInv, DirsOK, HelpersOK, WritesOwn
<1> QED BY <1>1, <1>2, SandboxStarts, PTL DEF SandboxSpec

(* A command runs only restricted, and never with a right on the directory  *)
(* another execution has: the inode its rules name was its own execution's  *)
(* when they were added, and a directory made later is another inode.      *)
THEOREM CommandsStayConfined == SandboxSpec => []CommandsAreConfined
<1>1. SandboxInv => CommandsAreConfined
  BY DEF SandboxInv, HelpersOK, WritesOwn, CommandsAreConfined, At
<1> QED BY <1>1, SandboxInvHolds, PTL

-------------------------------------------------------------------------------
(* The http node: what it is about to connect to has been checked, and what *)
(* it is about to send has a body only under a method that has one.        *)
HttpRequest == [method : Methods \cup {"GET"}, body : BOOLEAN]
BodyFits(r) == r.method \in {"GET", "HEAD"} => ~r.body

HttpInv ==
  /\ HttpTypeOK /\ allowPrivate \in BOOLEAN
  /\ request \in HttpRequest /\ BodyFits(request)
  /\ http = "connecting" => \A a \in pinned : a \in Private => allowPrivate
  /\ RequestsAreChecked

LEMMA HttpStarts == HttpInit => HttpInv
<1> SUFFICES ASSUME HttpInit PROVE HttpInv
  OBVIOUS
<1>1. PICK m \in Methods, given \in BOOLEAN : request = [method |-> m, body |-> given /\ WithBody(m)]
  BY DEF HttpInit
<1>2. (given /\ WithBody(m)) \in BOOLEAN
  BY Zenon DEF WithBody
<1>3. request \in HttpRequest
  BY <1>1, <1>2 DEF HttpRequest
<1>4. BodyFits(request)
  BY <1>1 DEF BodyFits, WithBody
<1>5. allowPrivate \in BOOLEAN /\ request.body \in BOOLEAN
  BY <1>3 DEF HttpInit, HttpRequest
<1>6. HttpTypeOK
  BY <1>5 DEF HttpInit, HttpTypeOK, MaxRedirects
<1> QED BY <1>3, <1>4, <1>5, <1>6 DEF HttpInit, HttpInv, RequestsAreChecked

LEMMA ConnectKeeps ==
  ASSUME HttpInv, Connect
  PROVE  HttpInv'
<1>1. /\ http = "connecting" /\ http' \in {"thrown", "answered"}
      /\ UNCHANGED <<allowPrivate, request, pinned, redirects>>
  BY DEF Connect, config
<1>2. PICK a \in pinned : contacted' = contacted \cup {Sent(a)}
  BY DEF Connect, Reachable
<1>3. Sent(a).address = a /\ Sent(a).method = request.method /\ Sent(a).body = request.body
  BY DEF Sent
<1>4. /\ Sent(a).address \in Private => allowPrivate
      /\ Sent(a).method \in {"GET", "HEAD"} => ~Sent(a).body
  BY <1>1, <1>3 DEF HttpInv, BodyFits
<1>5. RequestsAreChecked'
  BY <1>1, <1>2, <1>4 DEF HttpInv, RequestsAreChecked
<1>6. HttpTypeOK'
  BY <1>1 DEF HttpInv, HttpTypeOK
<1> QED BY <1>1, <1>5, <1>6 DEF HttpInv, BodyFits

LEMMA HttpInvHolds == HttpSpec => []HttpInv
<1>1. ASSUME HttpInv, HttpNext PROVE HttpInv'
  <2>1. CASE CheckUrl
    <3>1. UNCHANGED <<allowPrivate, request, redirects, contacted>>
      BY <2>1 DEF CheckUrl, config
    <3>2. CASE http' = "thrown" /\ UNCHANGED pinned
      BY <1>1, <3>1, <3>2 DEF HttpInv, HttpTypeOK, BodyFits, RequestsAreChecked
    <3>3. CASE \E found \in SUBSET Addresses \ {{}} :
                 ~Refused(found) /\ http' = "connecting" /\ pinned' = found
      <4>1. /\ http' = "connecting" /\ pinned' \subseteq Addresses
            /\ \A a \in pinned' : a \in Private => allowPrivate
        BY <3>3 DEF Refused
      <4> QED BY <1>1, <3>1, <4>1 DEF HttpInv, HttpTypeOK, BodyFits, RequestsAreChecked
    <3> QED BY <2>1, <3>2, <3>3 DEF CheckUrl
  <2>2. CASE Connect
    BY <1>1, <2>2, ConnectKeeps
  <2>3. CASE Redirect
    <3>1. /\ UNCHANGED <<allowPrivate, pinned, contacted>> /\ http' \in {"thrown", "returned", "checking"}
          /\ redirects' \in 0..MaxRedirects
      BY <1>1, <2>3 DEF Redirect, config, HttpInv, HttpTypeOK, MaxRedirects
    <3>2. request' = request \/ request' = [method |-> "GET", body |-> FALSE]
      BY <2>3 DEF Redirect
    <3>3. request' \in HttpRequest /\ BodyFits(request)' /\ request'.body \in BOOLEAN
      <4>1. CASE request' = request
        BY <1>1, <4>1 DEF HttpInv, HttpTypeOK, BodyFits
      <4>2. CASE request' = [method |-> "GET", body |-> FALSE]
        <5>1. request' \in HttpRequest /\ request'.body \in BOOLEAN
          BY <4>2 DEF HttpRequest
        <5>2. BodyFits(request)'
          BY <4>2 DEF BodyFits
        <5> QED BY <5>1, <5>2
      <4> QED BY <3>2, <4>1, <4>2
    <3> QED BY <1>1, <3>1, <3>3 DEF HttpInv, HttpTypeOK, RequestsAreChecked
  <2>4. CASE ReturnAnswer
    BY <1>1, <2>4 DEF ReturnAnswer, config, HttpInv, HttpTypeOK, BodyFits, RequestsAreChecked
  <2> QED BY <1>1, <2>1, <2>2, <2>3, <2>4 DEF HttpNext
<1>2. ASSUME HttpInv, UNCHANGED httpVars PROVE HttpInv'
  BY <1>2 DEF httpVars, HttpInv, HttpTypeOK, BodyFits, RequestsAreChecked
<1> QED BY <1>1, <1>2, HttpStarts, PTL DEF HttpSpec

(* No request of an http node reaches a private address unless the node     *)
(* allows it, and none that became a GET carries a body: every hop connects *)
(* to the addresses its own check resolved, whatever names resolve to then. *)
THEOREM HttpRequestsAreChecked == HttpSpec => []RequestsAreChecked
<1>1. HttpInv => RequestsAreChecked
  BY DEF HttpInv
<1> QED BY <1>1, HttpInvHolds, PTL
-------------------------------------------------------------------------------
(* The step rows of an execution: what a walk knows of them, and who is     *)
(* still going to close the row of a step that shows as running.           *)
StepRow == [node : 1..Line, iter : Nat, status : RowStatuses]
StepJob == [start : 1..Line, iter : Nat, decided : BOOLEAN, killed : BOOLEAN]
StepPcs == {"close", "find", "store", "node", "complete", "fail"}
StepWalk == [pc : StepPcs, at : 1..Line, iter : Nat, decided : BOOLEAN, job : StepJob,
             found : Nat \cup {None}]
StepDecision == [pc : {"decide"}, id : Nat, as : {"approved", "rejected"}]
AssignmentStatuses == {"pending", "approved", "rejected"}

StepsTypes ==
  /\ stepRows \in Seq(StepRow \cup {None})
  /\ walk \in [Walks -> StepWalk \cup {Resting}]
  /\ waitingJobs \subseteq StepJob /\ execRow \in {"there", "deleted"}
  /\ assignments \in Seq(AssignmentStatuses)
  /\ assignments # <<>> => GateNode \in 1..Line
  /\ deciding \in [Deciders -> StepDecision \cup {None, [pc |-> "deleteRow"]}]
  /\ lost \in Nat /\ stranded \in BOOLEAN /\ overlapped \in BOOLEAN

(* A walk of this job comes to node n: it is not held at the gate before.   *)
Reaches(j, n) == j.start <= n /\ (GateNode \in j.start..(n - 1) => j.decided)

WalkOK(r) ==
  /\ r.decided = r.job.decided /\ Reaches(r.job, r.at)
  /\ r.pc = "complete" => Reaches(r.job, r.at + 1)

(* The row a walk has found is of the node and the iteration it is at.      *)
FoundOK(r) ==
  r.found # None =>
    /\ r.found \in DOMAIN stepRows
    /\ stepRows[r.found] # None =>
         stepRows[r.found].node = r.at /\ stepRows[r.found].iter = r.iter

(* A walk that is going to close the rows of node n, or that of iteration k *)
(* of it; only a job that was killed before owes rows of nodes ahead of it. *)
Closes(r, n, k) ==
  /\ r # Resting
  /\ \/ r.at = n /\ r.iter = k /\ r.pc \in {"node", "complete", "fail"}
     \/ /\ r.job.killed /\ Reaches(r.job, n)
        /\ r.at < n \/ (r.at = n /\ r.pc = "close")
Promised(n) == \E j \in waitingJobs : j.killed /\ Reaches(j, n)
Owed(n, k) == Promised(n) \/ \E w \in Walks : Closes(walk[w], n, k)
RowShows(i, n, k) ==
  stepRows[i].node = n /\ stepRows[i].iter = k /\ stepRows[i].status = "running"

WalksOK == \A w \in Walks : walk[w] # Resting => WalkOK(walk[w]) /\ FoundOK(walk[w])
RunningIsOwed ==
  lost = 0 /\ ~stranded =>
    \A i \in Rows, n \in 1..Line, k \in Nat : RowShows(i, n, k) /\ n # GateNode => Owed(n, k)
OneWalk ==
  ~overlapped => \A v, w \in Walks : walk[v] # Resting /\ walk[w] # Resting => v = w
NothingMissed ==
  ~overlapped =>
    \A w \in Walks : On(w, "store") /\ walk[w].found = None =>
      \A i \in Rows : ~(stepRows[i].node = walk[w].at /\ stepRows[i].iter = walk[w].iter)

StepsInv ==
  StepsTypes /\ WalksOK /\ RunningIsOwed /\ OneWalk /\ OneRowPerIteration /\ NothingMissed

LEMMA StepsStart == StepsInit => StepsInv
<1> SUFFICES ASSUME StepsInit PROVE StepsInv
  OBVIOUS
<1>1. StepsTypes
  <2>1. waitingJobs \subseteq StepJob
    BY StepsAssumption DEF StepsInit, StepJob
  <2>2. walk \in [Walks -> StepWalk \cup {Resting}] /\ stepRows \in Seq(StepRow \cup {None})
    BY DEF StepsInit
  <2>3. deciding \in [Deciders -> StepDecision \cup {None, [pc |-> "deleteRow"]}]
    BY DEF StepsInit
  <2>4. assignments \in Seq(AssignmentStatuses) /\ (assignments # <<>> => GateNode \in 1..Line)
    BY DEF StepsInit
  <2> QED BY <2>1, <2>2, <2>3, <2>4 DEF StepsInit, StepsTypes
<1>2. \A w \in Walks : walk[w] = Resting
  BY DEF StepsInit
<1>3. Rows = {}
  BY DEF StepsInit, Rows
<1> QED BY <1>1, <1>2, <1>3
      DEF StepsInv, WalksOK, RunningIsOwed, OneWalk, OneRowPerIteration, NothingMissed, On

(* Setting the status of rows that are there leaves every row what it is of. *)
LEMMA StatusesAreSet ==
  ASSUME stepRows \in Seq(StepRow \cup {None}), NEW rows, NEW status \in RowStatuses,
         \A i \in rows : i \in Rows, SetStatus(rows, status)
  PROVE  /\ stepRows' \in Seq(StepRow \cup {None}) /\ DOMAIN stepRows' = DOMAIN stepRows
         /\ \A i \in Rows' :
              /\ i \in Rows /\ stepRows'[i].node = stepRows[i].node
              /\ stepRows'[i].iter = stepRows[i].iter
              /\ stepRows'[i].status = IF i \in rows THEN status ELSE stepRows[i].status
<1>1. \A r \in StepRow : LET s == [r EXCEPT !.status = status]
                          IN  s \in StepRow /\ s.node = r.node /\ s.iter = r.iter /\ s.status = status
  BY DEF StepRow
<1>2. \A i \in DOMAIN stepRows : stepRows[i] \in StepRow \cup {None}
  OBVIOUS
<1>3. DOMAIN stepRows' = DOMAIN stepRows
      /\ \A i \in DOMAIN stepRows :
           stepRows'[i] = IF i \in rows THEN [stepRows[i] EXCEPT !.status = status] ELSE stepRows[i]
  BY DEF SetStatus
<1>4. \A i \in DOMAIN stepRows : stepRows'[i] \in StepRow \cup {None}
  BY <1>1, <1>2, <1>3 DEF Rows
<1>5. stepRows' \in [1..Len(stepRows) -> StepRow \cup {None}]
  <2>1. stepRows' = [i \in 1..Len(stepRows) |-> stepRows'[i]]
    BY DEF SetStatus
  <2> QED BY <1>3, <1>4, <2>1
<1>6. stepRows' \in Seq(StepRow \cup {None})
  BY <1>5, SeqDef
<1> QED BY <1>1, <1>2, <1>3, <1>6 DEF Rows

(* A step of one walk that adds no row keeps the invariant when the rows    *)
(* the walk was to close are closed, still its own to close, or promised.   *)
LEMMA OneWalkMoves ==
  ASSUME StepsInv, NEW w \in Walks, walk[w] # Resting, NEW r \in StepWalk \cup {Resting},
         walk' = [walk EXCEPT ![w] = r], waitingJobs \subseteq waitingJobs', UNCHANGED overlapped,
         StepsTypes', DOMAIN stepRows' = DOMAIN stepRows,
         \A i \in Rows' : i \in Rows /\ stepRows'[i].node = stepRows[i].node
                         /\ stepRows'[i].iter = stepRows[i].iter,
         r # Resting => WalkOK(r) /\ FoundOK(r)',
         ~overlapped /\ r # Resting /\ r.pc = "store" /\ r.found = None =>
           \A i \in Rows : ~(stepRows[i].node = r.at /\ stepRows[i].iter = r.iter),
         lost' = 0 /\ ~stranded' =>
           /\ lost = 0 /\ ~stranded
           /\ \A i \in Rows', n \in 1..Line, k \in Nat : RowShows(i, n, k)' /\ n # GateNode =>
                \/ Closes(r, n, k) \/ Promised(n)'
                \/ RowShows(i, n, k) /\ ~Closes(walk[w], n, k)
  PROVE  StepsInv'
<1>1. walk \in [Walks -> StepWalk \cup {Resting}]
  BY DEF StepsInv, StepsTypes
<1>2. \A v \in Walks : walk'[v] = IF v = w THEN r ELSE walk[v]
  BY <1>1
<1>3. \A v \in Walks : v # w => (walk[v] # Resting /\ FoundOK(walk[v]) => FoundOK(walk[v])')
  BY <1>2 DEF FoundOK, Rows
<1>4. WalksOK'
  <2> SUFFICES ASSUME NEW v \in Walks, walk'[v] # Resting PROVE WalkOK(walk[v])' /\ FoundOK(walk[v])'
    BY DEF WalksOK
  <2>1. CASE v = w
    BY <1>2, <2>1 DEF WalkOK, FoundOK, Reaches
  <2>2. CASE v # w
    BY <1>2, <1>3, <2>2 DEF StepsInv, WalksOK, WalkOK, Reaches
  <2> QED BY <2>1, <2>2
<1>5. RunningIsOwed'
  <2> SUFFICES ASSUME lost' = 0, ~stranded', NEW i \in Rows', NEW n \in 1..Line, NEW k \in Nat,
                      RowShows(i, n, k)', n # GateNode
               PROVE  Owed(n, k)'
    BY DEF RunningIsOwed
  <2>1. Promised(n) => Promised(n)'
    BY DEF Promised
  <2>2. Closes(r, n, k) => Owed(n, k)'
    BY <1>2 DEF Owed, Closes, Reaches
  <2>3. CASE RowShows(i, n, k) /\ ~Closes(walk[w], n, k)
    <3>1. i \in Rows /\ lost = 0 /\ ~stranded
      OBVIOUS
    <3>2. Owed(n, k)
      BY <2>3, <3>1 DEF StepsInv, RunningIsOwed
    <3>3. ASSUME NEW v \in Walks, Closes(walk[v], n, k) PROVE Owed(n, k)'
      <4>1. walk'[v] = walk[v]
        BY <1>2, <2>3, <3>3
      <4> QED BY <3>3, <4>1 DEF Owed, Closes, Reaches
    <3> QED BY <2>1, <3>2, <3>3 DEF Owed
  <2> QED BY <2>1, <2>2, <2>3 DEF Owed
<1>6. OneWalk'
  BY <1>2 DEF StepsInv, OneWalk
<1>7. OneRowPerIteration'
  BY DEF StepsInv, OneRowPerIteration
<1>8. NothingMissed'
  BY <1>2 DEF StepsInv, NothingMissed, On
<1> QED BY <1>4, <1>5, <1>6, <1>7, <1>8 DEF StepsInv

LEMMA WalkFields ==
  ASSUME NEW r \in StepWalk, NEW pc \in StepPcs
  PROVE  LET s == [r EXCEPT !.pc = pc] IN
         /\ s \in StepWalk /\ s # Resting /\ s.pc = pc /\ s.at = r.at /\ s.iter = r.iter
         /\ s.decided = r.decided /\ s.job = r.job /\ s.found = r.found
<1> DEFINE s == [r EXCEPT !.pc = pc]
<1>1. s \in StepWalk /\ s.pc = pc /\ s.at = r.at /\ s.iter = r.iter
      /\ s.decided = r.decided /\ s.job = r.job /\ s.found = r.found
  BY DEF StepWalk
<1>2. s # Resting
  BY <1>1 DEF StepPcs, Resting
<1> QED BY <1>1, <1>2

LEMMA WalkingIsTyped ==
  ASSUME StepsInv, NEW w \in Walks, walk[w] # Resting
  PROVE  /\ walk[w] \in StepWalk /\ WalkOK(walk[w]) /\ FoundOK(walk[w])
         /\ walk[w].pc \in StepPcs /\ walk[w].at \in 1..Line /\ walk[w].iter \in Nat
         /\ walk[w].job \in StepJob /\ walk[w].job.start \in 1..Line
         /\ walk[w].job.killed \in BOOLEAN /\ walk[w].job.decided \in BOOLEAN
<1>1. walk[w] \in StepWalk
  BY DEF StepsInv, StepsTypes
<1>2. walk[w].pc \in StepPcs /\ walk[w].at \in 1..Line /\ walk[w].iter \in Nat /\ walk[w].job \in StepJob
  BY <1>1 DEF StepWalk
<1>3. walk[w].job.start \in 1..Line /\ walk[w].job.killed \in BOOLEAN /\ walk[w].job.decided \in BOOLEAN
  BY <1>2 DEF StepJob
<1> QED BY <1>1, <1>2, <1>3 DEF StepsInv, WalksOK

LEMMA RowsAreTyped ==
  ASSUME StepsInv, NEW i \in Rows
  PROVE  stepRows[i].node \in 1..Line /\ stepRows[i].iter \in Nat /\ stepRows[i].status \in RowStatuses
<1>1. i \in DOMAIN stepRows /\ stepRows[i] # None
  BY DEF Rows
<1>2. stepRows[i] \in StepRow
  BY <1>1 DEF StepsInv, StepsTypes
<1> QED BY <1>2 DEF StepRow

LEMMA CloseKeeps ==
  ASSUME StepsInv, NEW w \in Walks, CloseRows(w)
  PROVE  StepsInv'
<1> PICK r : r = [walk[w] EXCEPT !.pc = "find"]
  OBVIOUS
<1> DEFINE rows == {i \in DOMAIN stepRows : OfNode(stepRows[i], w) /\ stepRows[i].status = "running"}
<1>1. walk[w] # Resting /\ walk[w].pc = "close" /\ SetStatus(rows, "completed") /\ "completed" \in RowStatuses
      /\ UNCHANGED <<waitingJobs, execRow, assignments, deciding, started, lost, breaks, overlapped, stranded>>
  BY DEF CloseRows, On, RowStatuses
<1>2. /\ r \in StepWalk /\ r # Resting /\ r.pc = "find" /\ r.at = walk[w].at /\ r.iter = walk[w].iter
      /\ r.decided = walk[w].decided /\ r.job = walk[w].job /\ r.found = walk[w].found
  BY <1>1, WalkingIsTyped, WalkFields DEF StepPcs
<1>3. walk' = [walk EXCEPT ![w] = r]
  BY DEF CloseRows, Go
<1>4. \A i \in rows : i \in Rows
  BY DEF Rows, OfNode
<1>5. stepRows \in Seq(StepRow \cup {None})
  BY DEF StepsInv, StepsTypes
<1>r. \A i \in Rows : stepRows[i].node = walk[w].at /\ stepRows[i].status = "running" => i \in rows
  BY DEF Rows, OfNode
<1> HIDE DEF rows
<1>6. /\ stepRows' \in Seq(StepRow \cup {None}) /\ DOMAIN stepRows' = DOMAIN stepRows
      /\ \A i \in Rows' :
           /\ i \in Rows /\ stepRows'[i].node = stepRows[i].node
           /\ stepRows'[i].iter = stepRows[i].iter
           /\ stepRows'[i].status = IF i \in rows THEN "completed" ELSE stepRows[i].status
  BY <1>1, <1>4, <1>5, StatusesAreSet
<1>7. StepsTypes'
  BY <1>1, <1>2, <1>3, <1>6 DEF StepsInv, StepsTypes
<1>8. WalkOK(r) /\ FoundOK(r)'
  BY <1>1, <1>2, <1>6, WalkingIsTyped DEF WalkOK, FoundOK, Rows
<1>9. ASSUME NEW i \in Rows', NEW n \in 1..Line, NEW k \in Nat, RowShows(i, n, k)'
      PROVE  RowShows(i, n, k) /\ (Closes(walk[w], n, k) => Closes(r, n, k))
  <2>1. i \in Rows /\ i \notin rows /\ RowShows(i, n, k)
    BY <1>6, <1>9 DEF RowShows
  <2>2. n # walk[w].at
    BY <2>1, <1>r DEF RowShows
  <2> QED BY <1>2, <2>1, <2>2 DEF Closes
<1> QED BY <1>1, <1>2, <1>3, <1>6, <1>7, <1>8, <1>9, OneWalkMoves

LEMMA FindKeeps ==
  ASSUME StepsInv, NEW w \in Walks, FindRow(w)
  PROVE  StepsInv'
<1> DEFINE rows == {i \in DOMAIN stepRows : OfEvent(stepRows[i], w)}
<1>1. walk[w] # Resting /\ walk[w].pc = "find"
      /\ UNCHANGED <<stepRows, waitingJobs, execRow, assignments, deciding, started, lost, breaks,
                     overlapped, stranded>>
  BY DEF FindRow, On
<1>2. PICK f \in rows \cup {None} :
        /\ walk' = [walk EXCEPT ![w].pc = "store", ![w].found = f]
        /\ f \in rows \/ (f = None /\ rows = {})
  BY DEF FindRow
<1> PICK r : r = [walk[w] EXCEPT !.pc = "store", !.found = f]
  OBVIOUS
<1>3. f \in Nat \cup {None} /\ (f # None => f \in Rows /\ OfEvent(stepRows[f], w))
  BY <1>2 DEF Rows, OfEvent, OfNode, StepsInv, StepsTypes
<1>4. walk[w] \in StepWalk
  BY <1>1, WalkingIsTyped
<1>5. /\ r \in StepWalk /\ r.pc = "store" /\ r.at = walk[w].at /\ r.iter = walk[w].iter
      /\ r.decided = walk[w].decided /\ r.job = walk[w].job /\ r.found = f
  BY <1>3, <1>4 DEF StepWalk, StepPcs
<1>6. walk' = [walk EXCEPT ![w] = r]
  BY <1>2
<1>7. r # Resting
  BY <1>5 DEF Resting
<1>8. f = None => \A i \in Rows : ~(stepRows[i].node = walk[w].at /\ stepRows[i].iter = walk[w].iter)
  <2>1. f = None => rows = {}
    BY <1>2, StepsAssumption DEF StepsAssumption, StepsInv, StepsTypes
  <2> QED BY <2>1 DEF Rows, OfEvent, OfNode
<1> HIDE DEF rows
<1>9. StepsTypes'
  BY <1>1, <1>5, <1>6 DEF StepsInv, StepsTypes
<1>10. WalkOK(r) /\ FoundOK(r)'
  BY <1>1, <1>3, <1>5, WalkingIsTyped DEF WalkOK, FoundOK, Rows, OfEvent, OfNode
<1>11. Rows' = Rows /\ \A i, n, k : RowShows(i, n, k)' => RowShows(i, n, k)
  BY <1>1 DEF Rows, RowShows
<1>12. \A n \in 1..Line, k \in Nat : ~Closes(walk[w], n, k) \/ Closes(r, n, k)
  BY <1>1, <1>5, <1>7 DEF Closes
<1> QED BY <1>1, <1>5, <1>6, <1>8, <1>9, <1>10, <1>11, <1>12, OneWalkMoves

LEMMA StoreKeeps ==
  ASSUME StepsInv, NEW w \in Walks, StoreRow(w)
  PROVE  StepsInv'
<1> PICK r : r = [walk[w] EXCEPT !.pc = "node"]
  OBVIOUS
<1>1. walk[w] # Resting /\ walk[w].pc = "store" /\ walk' = [walk EXCEPT ![w] = r]
      /\ UNCHANGED <<waitingJobs, execRow, assignments, deciding, started, lost, breaks, overlapped, stranded>>
  BY DEF StoreRow, On, Go
<1>2. /\ r \in StepWalk /\ r # Resting /\ r.pc = "node" /\ r.at = walk[w].at /\ r.iter = walk[w].iter
      /\ r.decided = walk[w].decided /\ r.job = walk[w].job /\ r.found = walk[w].found
  BY <1>1, WalkingIsTyped, WalkFields DEF StepPcs
<1>3. stepRows \in Seq(StepRow \cup {None}) /\ walk \in [Walks -> StepWalk \cup {Resting}]
  BY DEF StepsInv, StepsTypes
<1>4. walk[w] \in StepWalk /\ WalkOK(r) /\ FoundOK(walk[w]) /\ r.at \in 1..Line /\ r.iter \in Nat
  BY <1>1, <1>2, WalkingIsTyped DEF WalkOK
<1>5. ASSUME NEW n \in 1..Line, NEW k \in Nat PROVE Closes(walk[w], n, k) => Closes(r, n, k)
  BY <1>1, <1>2 DEF Closes
<1>6. CASE walk[w].found # None /\ stepRows[walk[w].found] # None
           /\ SetStatus({walk[w].found}, "running")
  <2> PICK i : i = walk[w].found
    OBVIOUS
  <2>1. i \in Rows /\ stepRows[i].node = r.at /\ stepRows[i].iter = r.iter /\ "running" \in RowStatuses
    BY <1>2, <1>4, <1>6 DEF FoundOK, Rows, RowStatuses
  <2>2. /\ stepRows' \in Seq(StepRow \cup {None}) /\ DOMAIN stepRows' = DOMAIN stepRows
        /\ \A j \in Rows' :
             /\ j \in Rows /\ stepRows'[j].node = stepRows[j].node
             /\ stepRows'[j].iter = stepRows[j].iter
             /\ stepRows'[j].status = IF j \in {i} THEN "running" ELSE stepRows[j].status
    BY <1>3, <1>6, <2>1, StatusesAreSet
  <2>3. StepsTypes'
    BY <1>1, <1>2, <2>2 DEF StepsInv, StepsTypes
  <2>4. FoundOK(r)'
    BY <1>2, <1>4, <2>2 DEF FoundOK, Rows
  <2>5. ASSUME NEW j \in Rows', NEW n \in 1..Line, NEW k \in Nat, RowShows(j, n, k)'
        PROVE  Closes(r, n, k) \/ (RowShows(j, n, k) /\ ~Closes(walk[w], n, k))
    <3>1. CASE j = i
      BY <1>2, <2>1, <2>2, <2>5, <3>1 DEF Closes, RowShows
    <3>2. CASE j # i
      BY <1>5, <2>2, <2>5, <3>2 DEF RowShows
    <3> QED BY <3>1, <3>2
  <2> QED BY <1>1, <1>2, <1>4, <2>2, <2>3, <2>4, <2>5, OneWalkMoves
<1>7. CASE UNCHANGED stepRows
  <2>1. StepsTypes'
    BY <1>1, <1>2, <1>7 DEF StepsInv, StepsTypes
  <2>2. FoundOK(r)'
    BY <1>2, <1>4, <1>7 DEF FoundOK
  <2>3. Rows' = Rows /\ \A i, n, k : RowShows(i, n, k)' => RowShows(i, n, k)
    BY <1>7 DEF Rows, RowShows
  <2> QED BY <1>1, <1>2, <1>4, <1>5, <1>7, <2>1, <2>2, <2>3, OneWalkMoves
<1>8. CASE walk[w].found = None /\ execRow = "there"
           /\ stepRows' = Append(stepRows, [node |-> walk[w].at, iter |-> walk[w].iter, status |-> "running"])
  <2> PICK row : row = [node |-> walk[w].at, iter |-> walk[w].iter, status |-> "running"]
    OBVIOUS
  <2> DEFINE last == Len(stepRows) + 1
  <2>1. row \in StepRow /\ row.node = r.at /\ row.iter = r.iter
    BY <1>2, <1>4 DEF StepRow, RowStatuses
  <2>2. /\ stepRows' \in Seq(StepRow \cup {None}) /\ DOMAIN stepRows' = DOMAIN stepRows \cup {last}
        /\ stepRows'[last] = row /\ last \notin DOMAIN stepRows
        /\ \A i \in DOMAIN stepRows : stepRows'[i] = stepRows[i]
    BY <1>3, <1>8, <2>1
  <2> HIDE DEF last
  <2>3. StepsTypes'
    BY <1>1, <1>2, <2>2 DEF StepsInv, StepsTypes
  <2>4. \A v \in Walks : walk'[v] = IF v = w THEN r ELSE walk[v]
    BY <1>1, <1>3
  <2>5. \A i \in Rows' : (i \in Rows /\ stepRows'[i] = stepRows[i]) \/ (i = last /\ stepRows'[i] = row)
    BY <2>2 DEF Rows
  <2>6. ASSUME NEW v \in Walks, v # w, walk[v] # Resting PROVE FoundOK(walk[v])'
    <3>1. FoundOK(walk[v]) /\ walk'[v] = walk[v]
      BY <2>4, <2>6 DEF StepsInv, WalksOK
    <3> QED BY <2>2, <3>1 DEF FoundOK
  <2>7. WalksOK'
    <3> SUFFICES ASSUME NEW v \in Walks, walk'[v] # Resting PROVE WalkOK(walk[v])' /\ FoundOK(walk[v])'
      BY DEF WalksOK
    <3>1. CASE v = w
      BY <1>2, <1>4, <1>8, <2>4, <3>1 DEF WalkOK, FoundOK, Reaches
    <3>2. CASE v # w
      <4>1. walk'[v] = walk[v] /\ WalkOK(walk[v])
        BY <2>4, <3>2 DEF StepsInv, WalksOK
      <4> QED BY <2>6, <3>2, <4>1 DEF WalkOK, Reaches
    <3> QED BY <3>1, <3>2
  <2>8. RunningIsOwed'
    <3> SUFFICES ASSUME lost' = 0, ~stranded', NEW i \in Rows', NEW n \in 1..Line, NEW k \in Nat,
                        RowShows(i, n, k)', n # GateNode
                 PROVE  Owed(n, k)'
      BY DEF RunningIsOwed
    <3>1. Closes(r, n, k) => Owed(n, k)'
      BY <2>4 DEF Owed, Closes, Reaches
    <3>2. CASE i = last
      BY <1>2, <2>1, <2>2, <3>1, <3>2 DEF RowShows, Closes
    <3>3. CASE i # last
      <4>1. i \in Rows /\ RowShows(i, n, k) /\ lost = 0 /\ ~stranded
        BY <1>1, <2>5, <3>3 DEF RowShows
      <4>2. Owed(n, k)
        BY <4>1 DEF StepsInv, RunningIsOwed
      <4>3. Promised(n) => Promised(n)'
        BY <1>1 DEF Promised
      <4>4. ASSUME NEW v \in Walks, Closes(walk[v], n, k) PROVE Owed(n, k)'
        <5>1. CASE v = w
          BY <1>5, <3>1, <4>4, <5>1
        <5>2. CASE v # w
          BY <2>4, <4>4, <5>2 DEF Owed, Closes, Reaches
        <5> QED BY <5>1, <5>2
      <4> QED BY <4>2, <4>3, <4>4 DEF Owed
    <3> QED BY <3>2, <3>3
  <2>9. OneWalk'
    BY <1>1, <1>2, <2>4 DEF StepsInv, OneWalk
  <2>10. ~overlapped => \A i \in Rows : ~(stepRows[i].node = row.node /\ stepRows[i].iter = row.iter)
    BY <1>1, <1>2, <1>8, <2>1 DEF StepsInv, NothingMissed, On
  <2>11. OneRowPerIteration'
    BY <1>1, <2>5, <2>10 DEF StepsInv, OneRowPerIteration
  <2>12. NothingMissed'
    BY <1>1, <1>2, <2>4 DEF StepsInv, OneWalk, NothingMissed, On
  <2> QED BY <2>3, <2>7, <2>8, <2>9, <2>11, <2>12 DEF StepsInv
<1> QED BY <1>6, <1>7, <1>8 DEF StoreRow

LEMMA NodeStepsKeep ==
  ASSUME StepsInv, NEW w \in Walks, RunsThrough(w) \/ NodeFailed(w)
  PROVE  StepsInv'
<1> PICK next \in {"complete", "fail"} :
      /\ walk' = [walk EXCEPT ![w] = [walk[w] EXCEPT !.pc = next]]
      /\ next = "complete" => (walk[w].at = GateNode => walk[w].decided)
  BY DEF RunsThrough, NodeFailed, Go
<1> PICK r : r = [walk[w] EXCEPT !.pc = next]
  OBVIOUS
<1>1. walk[w] # Resting /\ walk[w].pc = "node" /\ walk' = [walk EXCEPT ![w] = r]
      /\ UNCHANGED <<stepRows, waitingJobs, execRow, assignments, deciding, started, lost, overlapped,
                     stranded>>
  BY DEF RunsThrough, NodeFailed, On
<1>2. /\ r \in StepWalk /\ r # Resting /\ r.pc = next /\ r.at = walk[w].at /\ r.iter = walk[w].iter
      /\ r.decided = walk[w].decided /\ r.job = walk[w].job /\ r.found = walk[w].found
  <2>1. walk[w] \in StepWalk /\ next \in StepPcs
    BY <1>1, WalkingIsTyped DEF StepPcs
  <2> QED BY <2>1, WalkFields
<1>3. StepsTypes'
  BY <1>1, <1>2 DEF StepsInv, StepsTypes
<1>4. WalkOK(r)
  BY <1>1, <1>2, WalkingIsTyped DEF WalkOK, Reaches
<1>5. FoundOK(r)'
  BY <1>1, <1>2, WalkingIsTyped DEF FoundOK
<1>6. \A n \in 1..Line, k \in Nat : Closes(walk[w], n, k) => Closes(r, n, k)
  BY <1>1, <1>2 DEF Closes
<1>7. Rows' = Rows /\ \A i, n, k : RowShows(i, n, k)' => RowShows(i, n, k)
  BY <1>1 DEF Rows, RowShows
<1> QED BY <1>1, <1>2, <1>3, <1>4, <1>5, <1>6, <1>7, OneWalkMoves

LEMMA PauseKeeps ==
  ASSUME StepsInv, NEW w \in Walks, NodePauses(w)
  PROVE  StepsInv'
<1>1. /\ walk[w] # Resting /\ walk[w].pc = "node" /\ walk' = [walk EXCEPT ![w] = Resting]
      /\ walk[w].at = GateNode /\ ~walk[w].decided
      /\ UNCHANGED <<stepRows, waitingJobs, execRow, deciding, started, lost, overlapped, stranded>>
  BY DEF NodePauses, On
<1>2. assignments' \in Seq(AssignmentStatuses) /\ GateNode \in 1..Line
  BY <1>1, WalkingIsTyped DEF NodePauses, StepsInv, StepsTypes, AssignmentStatuses
<1>3. StepsTypes'
  BY <1>1, <1>2 DEF StepsInv, StepsTypes
<1>4. \A n \in 1..Line, k \in Nat : n # GateNode => ~Closes(walk[w], n, k)
  BY <1>1, WalkingIsTyped DEF Closes, WalkOK, Reaches
<1>5. Rows' = Rows /\ \A i, n, k : RowShows(i, n, k)' => RowShows(i, n, k)
  BY <1>1 DEF Rows, RowShows
<1> QED BY <1>1, <1>3, <1>4, <1>5, OneWalkMoves

LEMMA KillKeeps ==
  ASSUME StepsInv, NEW w \in Walks, KillWalk(w)
  PROVE  StepsInv'
<1>1. /\ walk[w] # Resting /\ walk' = [walk EXCEPT ![w] = Resting]
      /\ waitingJobs' = waitingJobs \cup {[walk[w].job EXCEPT !.killed = TRUE]}
      /\ UNCHANGED <<stepRows, execRow, assignments, deciding, started, lost, overlapped, stranded>>
  BY DEF KillWalk
<1> PICK j : j = [walk[w].job EXCEPT !.killed = TRUE]
  OBVIOUS
<1>2. walk[w].job \in StepJob /\ WalkOK(walk[w])
  BY <1>1, WalkingIsTyped
<1>3. j \in StepJob /\ j.start = walk[w].job.start /\ j.decided = walk[w].job.decided /\ j.killed
  BY <1>2 DEF StepJob
<1>4. StepsTypes'
  BY <1>1, <1>3 DEF StepsInv, StepsTypes
<1>5. j \in waitingJobs'
  BY <1>1
<1>6. ASSUME NEW n \in 1..Line, NEW k \in Nat, Closes(walk[w], n, k) PROVE Promised(n)'
  BY <1>2, <1>3, <1>5, <1>6 DEF Closes, Promised, WalkOK, Reaches
<1>7. Rows' = Rows /\ \A i, n, k : RowShows(i, n, k)' => RowShows(i, n, k)
  BY <1>1 DEF Rows, RowShows
<1> QED BY <1>1, <1>4, <1>6, <1>7, OneWalkMoves

(* Where a walk goes when its step is completed.                            *)
LEMMA StepIsPassed ==
  ASSUME StepsInv, NEW w \in Walks, walk[w] # Resting, walk[w].pc = "complete",
         NEW r, r = Onward(w)
  PROVE  /\ r \in StepWalk \cup {Resting}
         /\ r # Resting =>
              /\ WalkOK(r) /\ r.pc = "close" /\ r.at = walk[w].at + 1 /\ r.found = None
              /\ r.job = walk[w].job
         /\ walk[w].at # Line => r # Resting
<1>1. walk[w] \in StepWalk /\ WalkOK(walk[w]) /\ walk[w].at \in 1..Line
  BY WalkingIsTyped
<1>2. CASE walk[w].at # Line
  <2>1. r = [walk[w] EXCEPT !.at = walk[w].at + 1, !.pc = "close", !.found = None]
    BY <1>2 DEF Onward
  <2>2. walk[w].at + 1 \in 1..Line
    BY <1>1, <1>2, StepsAssumption DEF StepsAssumption
  <2>3. /\ r \in StepWalk /\ r.pc = "close" /\ r.at = walk[w].at + 1 /\ r.found = None
        /\ r.decided = walk[w].decided /\ r.job = walk[w].job
    BY <1>1, <2>1, <2>2 DEF StepWalk, StepPcs
  <2> QED BY <1>1, <2>3 DEF WalkOK, Resting
<1> QED BY <1>2 DEF Onward

LEMMA CompleteKeeps ==
  ASSUME StepsInv, NEW w \in Walks, CompleteStep(w)
  PROVE  StepsInv'
<1>0. PICK r : r = Onward(w)
  OBVIOUS
<1>w. walk' = [walk EXCEPT ![w] = r]
  BY <1>0 DEF CompleteStep
<1> DEFINE rows == {i \in DOMAIN stepRows : OfEvent(stepRows[i], w)}
<1>1. walk[w] # Resting /\ walk[w].pc = "complete" /\ walk' = [walk EXCEPT ![w] = r]
      /\ SetStatus(rows, "completed") /\ "completed" \in RowStatuses
      /\ UNCHANGED <<waitingJobs, execRow, assignments, deciding, started, lost, overlapped, stranded>>
  BY <1>w DEF CompleteStep, On, RowStatuses
<1>2. /\ r \in StepWalk \cup {Resting} /\ (walk[w].at # Line => r # Resting)
      /\ r # Resting =>
           /\ WalkOK(r) /\ r.pc = "close" /\ r.at = walk[w].at + 1 /\ r.found = None
           /\ r.job = walk[w].job
  BY <1>0, <1>1, StepIsPassed
<1>3. \A i \in rows : i \in Rows
  BY DEF Rows, OfEvent, OfNode
<1>4. stepRows \in Seq(StepRow \cup {None})
  BY DEF StepsInv, StepsTypes
<1>5. \A i \in Rows : stepRows[i].node = walk[w].at /\ stepRows[i].iter = walk[w].iter => i \in rows
  BY DEF Rows, OfEvent, OfNode
<1> HIDE DEF rows
<1>6. /\ stepRows' \in Seq(StepRow \cup {None}) /\ DOMAIN stepRows' = DOMAIN stepRows
      /\ \A i \in Rows' :
           /\ i \in Rows /\ stepRows'[i].node = stepRows[i].node
           /\ stepRows'[i].iter = stepRows[i].iter
           /\ stepRows'[i].status = IF i \in rows THEN "completed" ELSE stepRows[i].status
  BY <1>1, <1>3, <1>4, StatusesAreSet
<1>7. StepsTypes'
  BY <1>1, <1>2, <1>6 DEF StepsInv, StepsTypes
<1>8. r # Resting => FoundOK(r)'
  BY <1>2 DEF FoundOK
<1>9. ASSUME NEW i \in Rows', NEW n \in 1..Line, NEW k \in Nat, RowShows(i, n, k)'
      PROVE  RowShows(i, n, k) /\ (Closes(walk[w], n, k) => Closes(r, n, k))
  <2>1. i \in Rows /\ i \notin rows /\ RowShows(i, n, k)
    BY <1>6, <1>9 DEF RowShows
  <2>2. ~(n = walk[w].at /\ k = walk[w].iter)
    BY <1>5, <2>1 DEF RowShows
  <2>3. walk[w].at \in 1..Line
    BY <1>1, WalkingIsTyped
  <2> QED BY <1>1, <1>2, <2>1, <2>2, <2>3 DEF Closes
<1> QED BY <1>1, <1>2, <1>6, <1>7, <1>8, <1>9, OneWalkMoves

LEMMA FailKeeps ==
  ASSUME StepsInv, NEW w \in Walks, FailStep(w)
  PROVE  StepsInv'
<1> DEFINE rows == {i \in DOMAIN stepRows : OfEvent(stepRows[i], w)}
<1>1. walk[w] # Resting /\ walk[w].pc = "fail" /\ walk' = [walk EXCEPT ![w] = Resting]
      /\ SetStatus(rows, "failed") /\ "failed" \in RowStatuses
      /\ stranded' = (stranded \/ walk[w].job.killed)
      /\ UNCHANGED <<waitingJobs, execRow, assignments, deciding, started, lost, overlapped>>
  BY DEF FailStep, On, RowStatuses
<1>2. \A i \in rows : i \in Rows
  BY DEF Rows, OfEvent, OfNode
<1>3. stepRows \in Seq(StepRow \cup {None})
  BY DEF StepsInv, StepsTypes
<1>4. \A i \in Rows : stepRows[i].node = walk[w].at /\ stepRows[i].iter = walk[w].iter => i \in rows
  BY DEF Rows, OfEvent, OfNode
<1> HIDE DEF rows
<1>5. /\ stepRows' \in Seq(StepRow \cup {None}) /\ DOMAIN stepRows' = DOMAIN stepRows
      /\ \A i \in Rows' :
           /\ i \in Rows /\ stepRows'[i].node = stepRows[i].node
           /\ stepRows'[i].iter = stepRows[i].iter
           /\ stepRows'[i].status = IF i \in rows THEN "failed" ELSE stepRows[i].status
  BY <1>1, <1>2, <1>3, StatusesAreSet
<1>6. stranded' \in BOOLEAN /\ (~stranded' => ~stranded /\ ~walk[w].job.killed)
  BY <1>1, WalkingIsTyped, Zenon
<1>7. StepsTypes'
  BY <1>1, <1>5, <1>6 DEF StepsInv, StepsTypes
<1>8. ASSUME NEW i \in Rows', NEW n \in 1..Line, NEW k \in Nat, RowShows(i, n, k)', ~stranded'
      PROVE  RowShows(i, n, k) /\ ~Closes(walk[w], n, k)
  <2>1. i \in Rows /\ i \notin rows /\ RowShows(i, n, k)
    BY <1>5, <1>8 DEF RowShows
  <2>2. ~(n = walk[w].at /\ k = walk[w].iter)
    BY <1>4, <2>1 DEF RowShows
  <2> QED BY <1>6, <1>8, <2>1, <2>2 DEF Closes
<1> QED BY <1>1, <1>5, <1>6, <1>7, <1>8, OneWalkMoves

LEMMA LoseKeeps ==
  ASSUME StepsInv, NEW w \in Walks, LoseStatement(w)
  PROVE  StepsInv'
<1>0. PICK r : r = IF walk[w].pc = "complete" THEN Onward(w) ELSE [walk[w] EXCEPT !.pc = "node"]
  OBVIOUS
<1>w. walk' = [walk EXCEPT ![w] = r]
  BY <1>0 DEF LoseStatement
<1>1. walk[w] # Resting /\ walk' = [walk EXCEPT ![w] = r] /\ lost' = lost + 1
      /\ UNCHANGED <<stepRows, waitingJobs, execRow, assignments, deciding, started, overlapped, stranded>>
  BY <1>w DEF LoseStatement
<1>2. /\ r \in StepWalk \cup {Resting}
      /\ r # Resting => WalkOK(r) /\ FoundOK(r) /\ r.pc \in {"node", "close"}
  <2>1. CASE walk[w].pc = "complete"
    <3>1. r = Onward(w)
      BY <1>0, <2>1
    <3> QED BY <1>1, <2>1, <3>1, StepIsPassed DEF FoundOK
  <2>2. CASE walk[w].pc # "complete"
    <3>1. r = [walk[w] EXCEPT !.pc = "node"] /\ walk[w] \in StepWalk /\ "node" \in StepPcs
      BY <1>0, <1>1, <2>2, WalkingIsTyped DEF StepPcs
    <3>2. /\ r \in StepWalk /\ r # Resting /\ r.pc = "node" /\ r.at = walk[w].at /\ r.iter = walk[w].iter
          /\ r.decided = walk[w].decided /\ r.job = walk[w].job /\ r.found = walk[w].found
      BY <3>1, WalkFields
    <3> QED BY <1>1, <3>2, WalkingIsTyped DEF WalkOK, FoundOK
  <2> QED BY <2>1, <2>2
<1>3. StepsTypes' /\ lost' # 0
  BY <1>1, <1>2 DEF StepsInv, StepsTypes
<1>4. r # Resting => FoundOK(r)'
  BY <1>1, <1>2 DEF FoundOK
<1>5. Rows' = Rows
  BY <1>1 DEF Rows
<1> QED BY <1>1, <1>2, <1>3, <1>4, <1>5, OneWalkMoves

LEMMA TakeKeeps ==
  ASSUME StepsInv, NEW w \in Walks, TakeWalk(w)
  PROVE  StepsInv'
<1>1. PICK j \in waitingJobs :
        /\ waitingJobs' = waitingJobs \ {j}
        /\ walk' = [walk EXCEPT ![w] = [pc |-> "close", at |-> j.start, iter |-> j.iter,
                                        decided |-> j.decided, job |-> j, found |-> None]]
  BY DEF TakeWalk
<1>0. PICK r : r = [pc |-> "close", at |-> j.start, iter |-> j.iter, decided |-> j.decided, job |-> j,
                    found |-> None]
  OBVIOUS
<1>2. /\ walk[w] = Resting /\ overlapped' = (overlapped \/ \E v \in Walks : walk[v] # Resting)
      /\ UNCHANGED <<stepRows, execRow, assignments, deciding, lost, stranded>>
  BY DEF TakeWalk
<1>3. j \in StepJob /\ walk \in [Walks -> StepWalk \cup {Resting}]
  BY DEF StepsInv, StepsTypes
<1>4. j.start \in 1..Line /\ j.iter \in Nat /\ j.decided \in BOOLEAN /\ j.killed \in BOOLEAN
  BY <1>3 DEF StepJob
<1>5. /\ r \in StepWalk /\ r.pc = "close" /\ r.at = j.start /\ r.decided = j.decided /\ r.job = j
      /\ r.found = None
  BY <1>0, <1>3, <1>4 DEF StepWalk, StepPcs
<1>6. r # Resting
  BY <1>5 DEF Resting
<1>7. \A v \in Walks : walk'[v] = IF v = w THEN r ELSE walk[v]
  BY <1>0, <1>1, <1>3
<1>8. /\ overlapped' \in BOOLEAN
      /\ ~overlapped' => ~overlapped /\ \A v \in Walks : walk[v] = Resting
  BY <1>2, Zenon DEF StepsInv, StepsTypes
<1>9. walk' \in [Walks -> StepWalk \cup {Resting}]
  BY <1>0, <1>1, <1>3, <1>5
<1>10. StepsTypes'
  BY <1>1, <1>2, <1>8, <1>9 DEF StepsInv, StepsTypes
<1>11. WalkOK(r)
  BY <1>4, <1>5 DEF WalkOK, Reaches
<1>12. WalksOK'
  BY <1>2, <1>5, <1>7, <1>11 DEF StepsInv, WalksOK, WalkOK, FoundOK, Reaches
<1>13. RunningIsOwed'
  <2> SUFFICES ASSUME lost' = 0, ~stranded', NEW i \in Rows', NEW n \in 1..Line, NEW k \in Nat,
                      RowShows(i, n, k)', n # GateNode
               PROVE  Owed(n, k)'
    BY DEF RunningIsOwed
  <2>1. i \in Rows /\ RowShows(i, n, k) /\ lost = 0 /\ ~stranded
    BY <1>2 DEF Rows, RowShows
  <2>2. Owed(n, k)
    BY <2>1 DEF StepsInv, RunningIsOwed
  <2>3. CASE j.killed /\ Reaches(j, n)
    <3>1. Closes(r, n, k)
      BY <1>4, <1>5, <1>6, <2>3 DEF Closes, Reaches
    <3> QED BY <1>7, <3>1 DEF Owed, Closes, Reaches
  <2>4. CASE Promised(n) /\ ~(j.killed /\ Reaches(j, n))
    BY <1>1, <2>4 DEF Owed, Promised, Reaches
  <2>5. ASSUME NEW v \in Walks, Closes(walk[v], n, k) PROVE Owed(n, k)'
    <3>1. walk'[v] = walk[v]
      BY <1>2, <1>7, <2>5 DEF Closes
    <3> QED BY <2>5, <3>1 DEF Owed, Closes, Reaches
  <2> QED BY <2>2, <2>3, <2>4, <2>5 DEF Owed
<1>14. OneWalk'
  BY <1>7, <1>8 DEF OneWalk
<1>15. OneRowPerIteration'
  BY <1>2, <1>8 DEF StepsInv, OneRowPerIteration, Rows
<1>16. NothingMissed'
  BY <1>5, <1>7, <1>8 DEF NothingMissed, On
<1> QED BY <1>10, <1>12, <1>13, <1>14, <1>15, <1>16 DEF StepsInv

(* The routes leave the walks alone: they add jobs and remove rows.         *)
LEMMA RoutesKeepSteps ==
  ASSUME StepsInv, StepsTypes', UNCHANGED <<walk, lost, overlapped, stranded>>,
         waitingJobs \subseteq waitingJobs', DOMAIN stepRows' = DOMAIN stepRows,
         \A i \in DOMAIN stepRows : stepRows'[i] \in {stepRows[i], None}
  PROVE  StepsInv'
<1>1. \A i \in Rows' : i \in Rows /\ stepRows'[i] = stepRows[i]
  BY DEF Rows
<1>2. WalksOK'
  BY DEF StepsInv, WalksOK, WalkOK, FoundOK, Reaches
<1>3. RunningIsOwed'
  <2> SUFFICES ASSUME lost' = 0, ~stranded', NEW i \in Rows', NEW n \in 1..Line, NEW k \in Nat,
                      RowShows(i, n, k)', n # GateNode
               PROVE  Owed(n, k)'
    BY DEF RunningIsOwed
  <2>1. i \in Rows /\ RowShows(i, n, k) /\ lost = 0 /\ ~stranded
    BY <1>1 DEF RowShows
  <2>2. Owed(n, k)
    BY <2>1 DEF StepsInv, RunningIsOwed
  <2> QED BY <2>2 DEF Owed, Promised, Closes, Reaches
<1>4. OneWalk'
  BY DEF StepsInv, OneWalk
<1>5. OneRowPerIteration'
  BY <1>1 DEF StepsInv, OneRowPerIteration
<1>6. NothingMissed'
  BY <1>1 DEF StepsInv, NothingMissed, On
<1> QED BY <1>2, <1>3, <1>4, <1>5, <1>6 DEF StepsInv

LEMMA ApproveKeeps ==
  ASSUME StepsInv, ApproveExecution
  PROVE  StepsInv'
<1>1. assignments \in Seq(AssignmentStatuses) /\ GateNode \in 1..Line /\ Len(assignments) + 1 \in Nat
  BY DEF ApproveExecution, StepsInv, StepsTypes
<1>2. UNCHANGED <<stepRows, walk, execRow, deciding, lost, overlapped, stranded>>
  BY DEF ApproveExecution
<1> PICK j : j = [start |-> GateNode, iter |-> Len(assignments) + 1, decided |-> TRUE, killed |-> FALSE]
  OBVIOUS
<1>3. j \in StepJob /\ waitingJobs' = waitingJobs \cup {j}
  BY <1>1 DEF ApproveExecution, StepJob
<1>4. assignments' \in [1..Len(assignments) -> AssignmentStatuses]
  <2>1. assignments' = [i \in 1..Len(assignments) |->
                          IF assignments[i] = "pending" THEN "approved" ELSE assignments[i]]
    BY <1>1 DEF ApproveExecution
  <2>2. \A i \in 1..Len(assignments) : assignments[i] \in AssignmentStatuses
    BY <1>1
  <2>3. "approved" \in AssignmentStatuses
    BY DEF AssignmentStatuses
  <2> QED BY <2>1, <2>2, <2>3
<1>5. assignments' \in Seq(AssignmentStatuses)
  BY <1>1, <1>4, SeqDef
<1>6. StepsTypes'
  BY <1>1, <1>2, <1>3, <1>5 DEF StepsInv, StepsTypes
<1> QED BY <1>2, <1>3, <1>6, RoutesKeepSteps

LEMMA DecidersKeep ==
  ASSUME StepsInv, NEW d \in Deciders, ReadAssignment(d) \/ DecideAssignment(d) \/ DeleteSteps(d) \/ DeleteRow(d)
  PROVE  StepsInv'
<1>1. CASE ReadAssignment(d)
  <2>1. PICK i \in DOMAIN assignments, decision \in {"approved", "rejected"} :
          deciding' = [deciding EXCEPT ![d] = [pc |-> "decide", id |-> i, as |-> decision]]
    BY <1>1 DEF ReadAssignment
  <2>2. i \in Nat
    BY DEF StepsInv, StepsTypes
  <2>3. [pc |-> "decide", id |-> i, as |-> decision] \in StepDecision
    BY <2>2 DEF StepDecision
  <2>4. UNCHANGED <<stepRows, walk, waitingJobs, execRow, assignments, lost, overlapped, stranded>>
    BY <1>1 DEF ReadAssignment
  <2>5. StepsTypes'
    BY <2>1, <2>3, <2>4 DEF StepsInv, StepsTypes
  <2> QED BY <2>4, <2>5, RoutesKeepSteps
<1>2. CASE DecideAssignment(d)
  <2>1. UNCHANGED <<stepRows, walk, waitingJobs, execRow, lost, overlapped, stranded>>
        /\ deciding' = [deciding EXCEPT ![d] = None]
    BY <1>2 DEF DecideAssignment
  <2>2. deciding[d] \in StepDecision
    BY <1>2 DEF DecideAssignment, StepsInv, StepsTypes
  <2>3. deciding[d].as \in AssignmentStatuses
    BY <2>2 DEF StepDecision, AssignmentStatuses
  <2>4. assignments \in Seq(AssignmentStatuses)
    BY DEF StepsInv, StepsTypes
  <2>5. assignments' \in Seq(AssignmentStatuses)
    <3>1. assignments \in [1..Len(assignments) -> AssignmentStatuses] /\ Len(assignments) \in Nat
      BY <2>4
    <3>2. assignments' = [assignments EXCEPT ![deciding[d].id] = deciding[d].as]
      BY <1>2 DEF DecideAssignment
    <3>3. assignments' \in [1..Len(assignments) -> AssignmentStatuses]
      BY <2>3, <3>1, <3>2
    <3> QED BY <3>1, <3>3, SeqDef
  <2>6. assignments' # <<>> => assignments # <<>>
    BY <1>2, <2>4 DEF DecideAssignment
  <2>7. StepsTypes'
    BY <2>1, <2>5, <2>6 DEF StepsInv, StepsTypes
  <2> QED BY <2>1, <2>7, RoutesKeepSteps
<1>3. CASE DeleteSteps(d)
  <2>1. UNCHANGED <<walk, waitingJobs, execRow, assignments, lost, overlapped, stranded>>
        /\ deciding' = [deciding EXCEPT ![d] = [pc |-> "deleteRow"]]
    BY <1>3 DEF DeleteSteps
  <2>2. stepRows' = [i \in 1..Len(stepRows) |-> None] /\ DOMAIN stepRows = 1..Len(stepRows)
        /\ Len(stepRows) \in Nat
    BY <1>3 DEF DeleteSteps, StepsInv, StepsTypes
  <2>3. stepRows' \in [1..Len(stepRows) -> StepRow \cup {None}]
    BY <2>2
  <2>4. stepRows' \in Seq(StepRow \cup {None})
    BY <2>2, <2>3, SeqDef
  <2>5. StepsTypes'
    BY <2>1, <2>4 DEF StepsInv, StepsTypes
  <2> QED BY <2>1, <2>2, <2>5, RoutesKeepSteps
<1>4. CASE DeleteRow(d)
  <2>1. UNCHANGED <<stepRows, walk, waitingJobs, assignments, lost, overlapped, stranded>>
        /\ deciding' = [deciding EXCEPT ![d] = None]
    BY <1>4 DEF DeleteRow
  <2>2. execRow' \in {"there", "deleted"}
    BY <1>4 DEF DeleteRow, StepsInv, StepsTypes
  <2>3. StepsTypes'
    BY <2>1, <2>2 DEF StepsInv, StepsTypes
  <2> QED BY <2>1, <2>3, RoutesKeepSteps
<1> QED BY <1>1, <1>2, <1>3, <1>4

LEMMA StepsInvHolds == StepsSpec => []StepsInv
<1>1. ASSUME StepsInv, StepsNext PROVE StepsInv'
  <2>1. ASSUME NEW w \in Walks,
               \/ TakeWalk(w) \/ CloseRows(w) \/ FindRow(w) \/ StoreRow(w)
               \/ RunsThrough(w) \/ NodeFailed(w) \/ NodePauses(w)
               \/ CompleteStep(w) \/ FailStep(w) \/ LoseStatement(w) \/ KillWalk(w)
        PROVE  StepsInv'
    BY <1>1, <2>1, TakeKeeps, CloseKeeps, FindKeeps, StoreKeeps, NodeStepsKeep, PauseKeeps,
       CompleteKeeps, FailKeeps, LoseKeeps, KillKeeps
  <2> QED BY <1>1, <2>1, ApproveKeeps, DecidersKeep DEF StepsNext
<1>2. ASSUME StepsInv, UNCHANGED stepsVars PROVE StepsInv'
  <2>1. UNCHANGED <<stepRows, walk, waitingJobs, execRow, assignments, deciding, lost, overlapped, stranded>>
    BY <1>2 DEF stepsVars
  <2>2. StepsTypes'
    BY <1>2, <2>1 DEF StepsInv, StepsTypes
  <2> QED BY <1>2, <2>1, <2>2, RoutesKeepSteps
<1> QED BY <1>1, <1>2, StepsStart, PTL DEF StepsSpec

(* The rows of steps, the walks and the assignments keep their types.       *)
THEOREM StepsAreTyped == StepsSpec => []StepsTypeOK
<1>1. ASSUME StepsInv PROVE StepsTypeOK
  <2>1. \A i \in DOMAIN stepRows : stepRows[i] # None =>
          stepRows[i].node \in 1..Line /\ stepRows[i].status \in RowStatuses
    BY <1>1, RowsAreTyped DEF Rows
  <2>2. \A w \in Walks : walk[w].pc \in {"resting", "close", "find", "store", "node", "complete", "fail"}
    <3> SUFFICES ASSUME NEW w \in Walks
                 PROVE  walk[w].pc \in {"resting", "close", "find", "store", "node", "complete", "fail"}
      OBVIOUS
    <3>1. CASE walk[w] = Resting
      BY <3>1 DEF Resting
    <3>2. CASE walk[w] # Resting
      BY <1>1, <3>2, WalkingIsTyped DEF StepPcs
    <3> QED BY <3>1, <3>2
  <2>3. \A i \in DOMAIN assignments : assignments[i] \in {"pending", "approved", "rejected"}
    BY <1>1 DEF StepsInv, StepsTypes, AssignmentStatuses
  <2> QED BY <1>1, <2>1, <2>2, <2>3 DEF StepsInv, StepsTypes, StepsTypeOK
<1> QED BY <1>1, StepsInvHolds, PTL

(* Once no walk is under way or waiting, no step but the one at an          *)
(* undecided gate still shows as running, whatever overlapped or was killed *)
(* before: each such row is one that some walk or job was still to close.   *)
THEOREM NoStepIsLeftRunning == StepsSpec => []RestLeavesNoStepRunning
<1>1. ASSUME StepsInv PROVE RestLeavesNoStepRunning
  <2> SUFFICES ASSUME AtRest, lost = 0, ~stranded, NEW i \in Rows, stepRows[i].status = "running",
                      stepRows[i].node # GateNode
               PROVE  FALSE
    BY DEF RestLeavesNoStepRunning
  <2>1. stepRows[i].node \in 1..Line /\ stepRows[i].iter \in Nat
    BY <1>1, RowsAreTyped
  <2>2. Owed(stepRows[i].node, stepRows[i].iter)
    BY <1>1, <2>1 DEF StepsInv, RunningIsOwed, RowShows
  <2> QED BY <2>2 DEF AtRest, Owed, Promised, Closes
<1> QED BY <1>1, StepsInvHolds, PTL

(* While the walks of an execution do not overlap, a step that runs again   *)
(* in its iteration finds its own row: there is one per node and iteration. *)
THEOREM StepsHaveOneRow == StepsSpec => []OneRowPerIteration
<1>1. StepsInv => OneRowPerIteration
  BY DEF StepsInv
<1> QED BY <1>1, StepsInvHolds, PTL

-------------------------------------------------------------------------------
(* Flows in flows: every executor but the outermost stands where the one    *)
(* around it is, so none is on the stack twice, and the rows of this worker *)
(* that are open are those of the subflows on it.                          *)
Flows == TreeNodes \cup {Top}
RunOptions == [from : Seq(TreeNodes), outputs : SUBSET Seq(TreeNodes), approval : Seq(TreeNodes),
               approved : BOOLEAN]
Executors == [flow : Flows, at : Nat \ {0}, before : BOOLEAN, from : Seq(TreeNodes),
              outputs : SUBSET Seq(TreeNodes), approval : Seq(TreeNodes), approved : BOOLEAN,
              done : SUBSET TreeNodes, item : Nat, waiting : SUBSET TreeNodes]

Depths == {d \in [Flows -> 0..MaxDepth] :
             \A c \in Flows : \A i \in DOMAIN tree.body[c] : d[c] < d[tree.body[c][i]]}

Nests(outer, inner) ==
  /\ inner.flow \in TreeNodes /\ tree.kind[inner.flow] \in {"subflow", "loop"}
  /\ outer.at \in DOMAIN tree.body[outer.flow] /\ tree.body[outer.flow][outer.at] = inner.flow

NestedTypes ==
  /\ tree \in Trees /\ kills \in Nat /\ treeJob \in RunOptions
  /\ mode \in {"queued", "walking", "awaiting", "delayed", "completed", "failed"}
  /\ (mode = "walking") = (stack # <<>>)
  /\ stray \subseteq TreeNodes /\ effects \in [TreeNodes -> Nat]
StackOK ==
  /\ stack \in Seq(Executors)
  /\ \A i \in 2..Len(stack) : Nests(stack[i - 1], stack[i])
  /\ \A d \in Depths : \A i, j \in 1..Len(stack) : i < j => d[stack[i].flow] < d[stack[j].flow]
OpenSubflows ==
  {<<stack[i].flow, kills>> : i \in {j \in 2..Len(stack) : tree.kind[stack[j].flow] = "subflow"}}
RowsOpen ==
  /\ openRows \subseteq TreeNodes \X (0..kills)
  /\ {r \in openRows : r[2] = kills} = OpenSubflows

NestedInv == NestedTypes /\ StackOK /\ RowsOpen

LEMMA TreesAreShaped ==
  ASSUME NestedTypes
  PROVE  /\ tree.kind \in [TreeNodes -> NodeKinds] /\ tree.items \in Nat
         /\ \A c \in Flows : tree.body[c] \in Seq(TreeNodes)
         /\ \A c, d \in Flows : \A i \in DOMAIN tree.body[c], j \in DOMAIN tree.body[d] :
              tree.body[c][i] = tree.body[d][j] => c = d /\ i = j
<1>1. tree \in Trees /\ tree.body \in [Flows -> Seq(TreeNodes)]
  BY TreesAssumption DEF NestedTypes, Flows
<1> QED BY <1>1, TreesAssumption DEF Flows

LEMMA InnerIsTyped ==
  ASSUME NestedInv, mode = "walking"
  PROVE  /\ Len(stack) \in Nat \ {0} /\ Inner \in Executors /\ Inner = stack[Len(stack)]
         /\ Inner.flow \in Flows /\ Inner.at \in Nat \ {0} /\ Inner.waiting \subseteq TreeNodes
         /\ Inner.before \in BOOLEAN /\ Inner.from \in Seq(TreeNodes)
         /\ Inner.outputs \subseteq Seq(TreeNodes) /\ Inner.approval \in Seq(TreeNodes)
         /\ Inner.approved \in BOOLEAN /\ Inner.done \subseteq TreeNodes /\ Inner.item \in Nat
<1>1. stack \in Seq(Executors) /\ stack # <<>>
  BY DEF NestedInv, NestedTypes, StackOK
<1>2. Len(stack) \in Nat \ {0} /\ Inner \in Executors
  BY <1>1 DEF Inner
<1> QED BY <1>2 DEF Inner, Executors

LEMMA HereIsTyped ==
  ASSUME NestedInv, Walking
  PROVE  /\ mode = "walking" /\ Here \in TreeNodes /\ Inner.at \in DOMAIN tree.body[Inner.flow]
         /\ Here = tree.body[Inner.flow][Inner.at] /\ tree.kind[Here] \in NodeKinds
<1>1. mode = "walking" /\ Inner.at <= Len(tree.body[Inner.flow])
  BY DEF Walking
<1>2. Inner.flow \in Flows /\ Inner.at \in Nat \ {0}
  BY <1>1, InnerIsTyped
<1>3. tree.body[Inner.flow] \in Seq(TreeNodes)
  BY <1>2, TreesAreShaped DEF NestedInv
<1>4. Inner.at \in DOMAIN tree.body[Inner.flow] /\ Here \in TreeNodes
  BY <1>1, <1>2, <1>3 DEF Here
<1> QED BY <1>1, <1>4, TreesAreShaped DEF NestedInv, Here

(* What is left of the stack when it is cut at an executor that goes on.    *)
IsCutAt(s, l) ==
  /\ s \in Seq(Executors) /\ l \in 1..Len(stack) /\ Len(s) = l
  /\ \A j \in 1..(l - 1) : s[j] = stack[j]
  /\ s[l].flow = stack[l].flow

AreRowsAbove(R, l) ==
  /\ \A r \in R : \E j \in (l + 1)..Len(stack) : r = <<stack[j].flow, kills>>
  /\ \A j \in (l + 1)..Len(stack) :
       tree.kind[stack[j].flow] = "subflow" => <<stack[j].flow, kills>> \in R

LEMMA CutKeeps ==
  ASSUME NestedInv, NEW s, NEW l, IsCutAt(s, l), stack' = s, NEW R, openRows' = openRows \ R,
         UNCHANGED <<tree, kills>>, AreRowsAbove(R, l)
  PROVE  StackOK' /\ RowsOpen'
<1>1. stack \in Seq(Executors) /\ Len(stack) \in Nat /\ l \in 1..Len(stack) /\ Len(s) = l
  BY DEF NestedInv, StackOK, IsCutAt
<1>2. \A j \in 1..l : s[j].flow = stack[j].flow
  BY <1>1 DEF IsCutAt
<1>3. \A i \in 2..l : Nests(s[i - 1], s[i])
  <2> SUFFICES ASSUME NEW i \in 2..l PROVE Nests(s[i - 1], s[i])
    OBVIOUS
  <2>1. i \in 2..Len(stack) /\ i - 1 \in 1..(l - 1) /\ i \in 1..l
    BY <1>1
  <2>2. Nests(stack[i - 1], stack[i]) /\ s[i - 1] = stack[i - 1] /\ s[i].flow = stack[i].flow
    BY <1>2, <2>1 DEF IsCutAt, NestedInv, StackOK
  <2> QED BY <2>2 DEF Nests
<1>4. StackOK'
  <2>1. stack' \in Seq(Executors)
    BY DEF IsCutAt
  <2>2. \A i \in 2..Len(stack') : Nests(stack[i - 1], stack[i])'
    BY <1>1, <1>3 DEF Nests
  <2>3. Depths' = Depths
    BY DEF Depths
  <2>4. \A d \in Depths' : \A i, j \in 1..Len(stack') : i < j => d[stack'[i].flow] < d[stack'[j].flow]
    BY <1>1, <1>2, <2>3 DEF NestedInv, StackOK
  <2> QED BY <2>1, <2>2, <2>4 DEF StackOK
<1>5. \A i, j \in 1..Len(stack) : i < j => stack[i].flow # stack[j].flow
  <2>1. PICK d \in Depths : TRUE
    BY NestingAssumption DEF Depths, NestedInv, NestedTypes, Flows
  <2>2. \A i \in 1..Len(stack) : d[stack[i].flow] \in Nat
    <3>1. d \in [Flows -> 0..MaxDepth] /\ MaxDepth \in Nat
      BY <2>1, NestingAssumption DEF Depths
    <3>2. \A i \in 1..Len(stack) : stack[i] \in Executors
      BY <1>1
    <3>3. \A e \in Executors : e.flow \in Flows
      BY DEF Executors
    <3> QED BY <3>1, <3>2, <3>3
  <2> QED BY <1>1, <2>1, <2>2 DEF NestedInv, StackOK
<1>6. OpenSubflows' = OpenSubflows \ R
  <2>1. OpenSubflows' = {<<stack[i].flow, kills>> : i \in {j \in 2..l : tree.kind[stack[j].flow] = "subflow"}}
    BY <1>1, <1>2 DEF OpenSubflows
  <2>2. ASSUME NEW i \in 2..l, <<stack[i].flow, kills>> \in R PROVE FALSE
    <3>1. PICK j \in (l + 1)..Len(stack) : <<stack[i].flow, kills>> = <<stack[j].flow, kills>>
      BY <2>2 DEF AreRowsAbove
    <3>2. stack[i].flow = stack[j].flow /\ i < j /\ i \in 1..Len(stack) /\ j \in 1..Len(stack)
      BY <1>1, <3>1
    <3> QED BY <1>5, <3>2
  <2>3. ASSUME NEW i \in 2..Len(stack), tree.kind[stack[i].flow] = "subflow", <<stack[i].flow, kills>> \notin R
        PROVE  i \in 2..l
    BY <1>1, <2>3 DEF AreRowsAbove
  <2> QED BY <1>1, <2>1, <2>2, <2>3 DEF OpenSubflows
<1>7. RowsOpen'
  BY <1>6 DEF NestedInv, RowsOpen
<1> QED BY <1>4, <1>7

(* No row goes with a step of the innermost executor.                       *)
LEMMA UpdateKeeps ==
  ASSUME NestedInv, mode = "walking", NEW e \in Executors, e.flow = Inner.flow,
         stack' = [stack EXCEPT ![Len(stack)] = e], UNCHANGED <<tree, mode, treeJob, openRows, kills>>,
         stray' \subseteq TreeNodes, effects' \in [TreeNodes -> Nat]
  PROVE  NestedInv'
<1>1. stack \in Seq(Executors) /\ Len(stack) \in Nat \ {0} /\ Inner = stack[Len(stack)]
  BY InnerIsTyped DEF NestedInv, StackOK
<1>2. IsCutAt(stack', Len(stack))
  BY <1>1 DEF IsCutAt
<1>3. StackOK' /\ RowsOpen'
  <2>1. openRows' = openRows \ {} /\ AreRowsAbove({}, Len(stack))
    BY <1>1 DEF AreRowsAbove
  <2>2. PICK s : s = stack'
    OBVIOUS
  <2>3. PICK l : l = Len(stack)
    OBVIOUS
  <2> QED BY <1>1, <1>2, <2>1, <2>2, <2>3, CutKeeps
<1>4. stack' # <<>>
  BY <1>1, <1>2 DEF IsCutAt
<1> QED BY <1>3, <1>4 DEF NestedInv, NestedTypes

LEMMA FreshIsTyped ==
  ASSUME NEW c \in Flows, NEW o \in RunOptions
  PROVE  LET e == Executor(c, o) IN
         /\ e \in Executors /\ e.flow = c /\ e.at = 1 /\ e.before = (o.from # <<>>) /\ e.from = o.from
         /\ e.outputs = o.outputs /\ e.done = {} /\ e.waiting = {}
<1>1. /\ o.from \in Seq(TreeNodes) /\ o.outputs \in SUBSET Seq(TreeNodes)
      /\ o.approval \in Seq(TreeNodes) /\ o.approved \in BOOLEAN
  BY DEF RunOptions
<1> QED BY <1>1 DEF Executor, Executors

LEMMA NoJobIsTyped == NoJob \in RunOptions
<1> QED BY DEF NoJob, RunOptions

LEMMA PassedIsTyped ==
  ASSUME NestedInv, Walking, NEW e \in Executors
  PROVE  /\ Passed(e) \in Executors /\ Passed(e).flow = e.flow /\ Passed(e).at = e.at + 1
         /\ Passed(e).done = e.done \cup {Here} /\ Passed(e).before = e.before
         /\ Passed(e).from = e.from /\ Passed(e).outputs = e.outputs /\ Passed(e).waiting = e.waiting
<1>1. Here \in TreeNodes
  BY HereIsTyped
<1>2. e.at + 1 \in Nat \ {0} /\ e.done \cup {Here} \in SUBSET TreeNodes
  BY <1>1 DEF Executors
<1> PICK h : h = e.done \cup {Here}
  OBVIOUS
<1>3. Passed(e) = [e EXCEPT !.at = e.at + 1, !.done = h]
  BY DEF Passed
<1> QED BY <1>2, <1>3 DEF Executors

LEMMA ArrivedIsTyped ==
  ASSUME NestedInv, Walking
  PROVE  /\ Arrived \in Executors /\ Arrived.flow = Inner.flow /\ Arrived.at = Inner.at
         /\ Arrived.done = Inner.done /\ Arrived.before = (Inner.before /\ Inner.from # <<Here>>)
         /\ Arrived.from = Inner.from /\ Arrived.outputs = Inner.outputs
         /\ Arrived.waiting = Inner.waiting /\ Arrived.approved = Inner.approved
<1>1. Inner \in Executors /\ Inner.before \in BOOLEAN
  BY InnerIsTyped DEF Walking
<1>2. (Inner.before /\ Inner.from # <<Here>>) \in BOOLEAN
  OBVIOUS
<1> QED BY <1>1, <1>2 DEF Arrived, Executors

LEMMA ConsumedIsTyped ==
  ASSUME NEW e \in Executors, NEW n
  PROVE  /\ Consumed(n, e) \in Executors /\ Consumed(n, e).flow = e.flow /\ Consumed(n, e).at = e.at
         /\ Consumed(n, e).done = e.done /\ Consumed(n, e).before = e.before
         /\ Consumed(n, e).from = e.from /\ Consumed(n, e).outputs = e.outputs
         /\ Consumed(n, e).waiting = e.waiting
<1>1. CASE Resumes(n)
  <2>1. Consumed(n, e) = [e EXCEPT !.approval = <<>>] /\ <<>> \in Seq(TreeNodes)
    BY <1>1 DEF Consumed
  <2> QED BY <2>1 DEF Executors
<1>2. CASE ~Resumes(n)
  BY <1>2 DEF Consumed
<1> QED BY <1>1, <1>2

LEMMA LoadKeeps ==
  ASSUME NestedInv, Load
  PROVE  NestedInv'
<1>1. Walking /\ mode = "walking" /\ Inner \in Executors
  BY InnerIsTyped DEF Load, Walking
<1> PICK e : e = Passed(Inner)
  OBVIOUS
<1>2. e \in Executors /\ e.flow = Inner.flow
  BY <1>1, PassedIsTyped
<1> QED BY <1>1, <1>2, UpdateKeeps DEF Load, Update, NestedInv, NestedTypes

LEMMA EffectsAreCounted ==
  ASSUME effects \in [TreeNodes -> Nat], NEW n \in TreeNodes, effects' = [effects EXCEPT ![n] = @ + 1]
  PROVE  effects' \in [TreeNodes -> Nat]
<1> QED OBVIOUS

LEMMA RunNodeKeeps ==
  ASSUME NestedInv, RunNode
  PROVE  NestedInv'
<1>1. Walking /\ mode = "walking" /\ Here \in TreeNodes
  BY HereIsTyped DEF RunNode, Runs
<1> PICK e : e = Passed(Arrived)
  OBVIOUS
<1>2. e \in Executors /\ e.flow = Inner.flow
  BY <1>1, ArrivedIsTyped, PassedIsTyped
<1>3. effects' \in [TreeNodes -> Nat] /\ stray' \subseteq TreeNodes
  BY <1>1, EffectsAreCounted DEF RunNode, NestedInv, NestedTypes
<1> QED BY <1>1, <1>2, <1>3, UpdateKeeps DEF RunNode, Update

LEMMA PassPointKeeps ==
  ASSUME NestedInv, PassPoint
  PROVE  NestedInv'
<1>1. Walking /\ mode = "walking"
  BY HereIsTyped DEF PassPoint, Runs
<1> PICK e : e = Consumed(Here, Passed(Arrived))
  OBVIOUS
<1>2. e \in Executors /\ e.flow = Inner.flow
  BY <1>1, ArrivedIsTyped, PassedIsTyped, ConsumedIsTyped
<1> QED BY <1>1, <1>2, UpdateKeeps DEF PassPoint, Update, NestedInv, NestedTypes

LEMMA EnterParallelKeeps ==
  ASSUME NestedInv, EnterParallel
  PROVE  NestedInv'
<1>1. Walking /\ mode = "walking" /\ Here \in TreeNodes
  BY HereIsTyped DEF EnterParallel, Runs
<1>2. PICK e : e = IF tree.body[Here] = <<>> THEN Passed(Arrived)
                   ELSE [Arrived EXCEPT !.waiting = {tree.body[Here][i] : i \in DOMAIN tree.body[Here]}]
  OBVIOUS
<1>3. {tree.body[Here][i] : i \in DOMAIN tree.body[Here]} \subseteq TreeNodes
  <2>1. tree.body[Here] \in Seq(TreeNodes)
    BY <1>1, TreesAreShaped DEF NestedInv, Flows
  <2> QED BY <2>1
<1>4. e \in Executors /\ e.flow = Inner.flow
  <2>1. CASE tree.body[Here] = <<>>
    BY <1>1, <1>2, <2>1, ArrivedIsTyped, PassedIsTyped
  <2>2. CASE tree.body[Here] # <<>>
    <3>1. Arrived \in Executors /\ Arrived.flow = Inner.flow
      BY <1>1, ArrivedIsTyped
    <3> QED BY <1>2, <1>3, <2>2, <3>1 DEF Executors
  <2> QED BY <2>1, <2>2
<1>5. stack' = [stack EXCEPT ![Len(stack)] = e]
  BY <1>2 DEF EnterParallel, Update
<1> QED BY <1>1, <1>4, <1>5, UpdateKeeps DEF EnterParallel, NestedInv, NestedTypes

LEMMA RunSubNodeKeeps ==
  ASSUME NestedInv, NEW n \in TreeNodes, RunSubNode(n)
  PROVE  NestedInv'
<1>1. Walking /\ mode = "walking" /\ Inner \in Executors /\ Inner.waiting \subseteq TreeNodes
  BY InnerIsTyped DEF RunSubNode, Walking
<1> PICK less : less = [Inner EXCEPT !.waiting = Inner.waiting \ {n}]
  OBVIOUS
<1>2. less \in Executors /\ less.flow = Inner.flow
  BY <1>1 DEF Executors
<1>3. PICK e : e = IF Inner.waiting \ {n} = {} THEN Passed(Consumed(n, less)) ELSE Consumed(n, less)
  OBVIOUS
<1>4. e \in Executors /\ e.flow = Inner.flow
  <2>1. Consumed(n, less) \in Executors /\ Consumed(n, less).flow = Inner.flow
    BY <1>2, ConsumedIsTyped
  <2>2. Passed(Consumed(n, less)) \in Executors /\ Passed(Consumed(n, less)).flow = Inner.flow
    BY <1>1, <2>1, PassedIsTyped
  <2> QED BY <1>3, <2>1, <2>2
<1>5. stack' = [stack EXCEPT ![Len(stack)] = e]
  BY <1>3 DEF RunSubNode, EndSubNode, Update
<1>6. effects' \in [TreeNodes -> Nat] /\ stray' \subseteq TreeNodes
  BY EffectsAreCounted DEF RunSubNode, NestedInv, NestedTypes
<1> QED BY <1>1, <1>4, <1>5, <1>6, UpdateKeeps DEF RunSubNode

LEMMA ReturnCuts ==
  ASSUME NestedInv, NEW i \in 2..Len(stack)
  PROVE  /\ IsCutAt(Return(i), i - 1) /\ Return(i)[i - 1].at = stack[i - 1].at + 1
         /\ Return(i)[i - 1].done = stack[i - 1].done \cup {stack[i].flow}
         /\ Return(i)[i - 1].before = stack[i - 1].before /\ Return(i)[i - 1].from = stack[i - 1].from
         /\ Return(i)[i - 1].outputs = stack[i - 1].outputs
         /\ Return(i)[i - 1].waiting = stack[i - 1].waiting
<1>1. stack \in Seq(Executors) /\ Len(stack) \in Nat
  BY DEF NestedInv, StackOK
<1>2. stack[i - 1] \in Executors /\ stack[i].flow \in TreeNodes /\ i - 1 \in 1..Len(stack)
  BY <1>1 DEF NestedInv, StackOK, Nests
<1> PICK h : h = stack[i - 1].done \cup {stack[i].flow}
  OBVIOUS
<1> PICK e : e = [stack[i - 1] EXCEPT !.at = stack[i - 1].at + 1, !.done = h]
  OBVIOUS
<1>3. stack[i - 1].at + 1 \in Nat \ {0} /\ h \in SUBSET TreeNodes
  BY <1>2 DEF Executors
<1>4. /\ e \in Executors /\ e.flow = stack[i - 1].flow /\ e.at = stack[i - 1].at + 1 /\ e.done = h
      /\ e.before = stack[i - 1].before /\ e.from = stack[i - 1].from
      /\ e.outputs = stack[i - 1].outputs /\ e.waiting = stack[i - 1].waiting
  BY <1>2, <1>3 DEF Executors
<1> PICK below : below = SubSeq(stack, 1, i - 2)
  OBVIOUS
<1>5. below \in Seq(Executors) /\ Len(below) = i - 2 /\ \A j \in 1..(i - 2) : below[j] = stack[j]
  BY <1>1, <1>2
<1>6. Return(i) = Append(below, e)
  BY DEF Return
<1>7. /\ Return(i) \in Seq(Executors) /\ Len(Return(i)) = i - 1 /\ Return(i)[i - 1] = e
      /\ \A j \in 1..(i - 2) : Return(i)[j] = stack[j]
  BY <1>4, <1>5, <1>6
<1> QED BY <1>2, <1>4, <1>7 DEF IsCutAt

LEMMA NextItemCuts ==
  ASSUME NestedInv, NEW i \in 2..Len(stack)
  PROVE  IsCutAt(NextItem(i), i) \/ IsCutAt(NextItem(i), i - 1)
<1>1. stack \in Seq(Executors) /\ Len(stack) \in Nat /\ stack[i] \in Executors /\ i \in 1..Len(stack)
  BY DEF NestedInv, StackOK
<1>2. stack[i].flow \in Flows /\ stack[i].approved \in BOOLEAN /\ stack[i].item + 1 \in Nat
  <2>1. \A e \in Executors : e.flow \in Flows /\ e.approved \in BOOLEAN /\ e.item \in Nat
    BY DEF Executors
  <2> QED BY <1>1, <2>1
<1> PICK new : new = Executor(stack[i].flow, NoJob)
  OBVIOUS
<1>3. new \in Executors /\ new.flow = stack[i].flow
  BY <1>2, FreshIsTyped, NoJobIsTyped
<1> PICK fresh : fresh = [new EXCEPT !.approved = stack[i].approved, !.item = stack[i].item + 1]
  OBVIOUS
<1>4. fresh \in Executors /\ fresh.flow = stack[i].flow
  BY <1>2, <1>3 DEF Executors
<1> PICK below : below = SubSeq(stack, 1, i - 1)
  OBVIOUS
<1>5. below \in Seq(Executors) /\ Len(below) = i - 1 /\ \A j \in 1..(i - 1) : below[j] = stack[j]
  BY <1>1
<1>6. NextItem(i) = Append(below, fresh) \/ NextItem(i) = Return(i)
  BY DEF NextItem
<1>7. CASE NextItem(i) = Append(below, fresh)
  <2>1. /\ NextItem(i) \in Seq(Executors) /\ Len(NextItem(i)) = i /\ NextItem(i)[i] = fresh
        /\ \A j \in 1..(i - 1) : NextItem(i)[j] = stack[j]
    BY <1>4, <1>5, <1>7
  <2> QED BY <1>1, <1>4, <2>1 DEF IsCutAt
<1> QED BY <1>6, <1>7, ReturnCuts

LEMMA CutIsNotEmpty ==
  ASSUME NestedInv, NEW s, NEW l, IsCutAt(s, l)
  PROVE  s # <<>> /\ stack # <<>> /\ mode = "walking"
<1>1. stack \in Seq(Executors)
  BY DEF NestedInv, StackOK
<1> QED BY <1>1 DEF IsCutAt, NestedInv, NestedTypes

LEMMA LeaveKeeps ==
  ASSUME NestedInv, LeaveSubflow
  PROVE  NestedInv'
<1>1. /\ Len(stack) \in Nat /\ Len(stack) > 1 /\ mode = "walking" /\ Inner = stack[Len(stack)]
      /\ UNCHANGED <<tree, mode, treeJob, stray, effects, kills>>
  BY InnerIsTyped DEF LeaveSubflow, Ended
<1> PICK l : l = Len(stack) - 1
  OBVIOUS
<1> PICK s : s = Return(Len(stack))
  OBVIOUS
<1> PICK R : R = {<<Inner.flow, kills>>}
  OBVIOUS
<1>2. IsCutAt(s, l) /\ stack' = s /\ openRows' = openRows \ R
  BY <1>1, ReturnCuts DEF LeaveSubflow
<1>3. AreRowsAbove(R, l)
  <2>1. (l + 1)..Len(stack) = {Len(stack)}
    BY <1>1
  <2> QED BY <1>1, <2>1 DEF AreRowsAbove
<1>4. StackOK' /\ RowsOpen'
  BY <1>1, <1>2, <1>3, CutKeeps
<1>5. stack' # <<>>
  BY <1>2, CutIsNotEmpty
<1> QED BY <1>1, <1>4, <1>5 DEF NestedInv, NestedTypes

LEMMA EndItemKeeps ==
  ASSUME NestedInv, EndItem
  PROVE  NestedInv'
<1>1. /\ Len(stack) \in Nat /\ Len(stack) > 1 /\ mode = "walking" /\ Inner = stack[Len(stack)]
      /\ tree.kind[Inner.flow] = "loop"
      /\ UNCHANGED <<tree, mode, treeJob, stray, openRows, effects, kills>>
  BY InnerIsTyped DEF EndItem, Ended
<1> PICK s : s = NextItem(Len(stack))
  OBVIOUS
<1>2. PICK l \in {Len(stack), Len(stack) - 1} : IsCutAt(s, l)
  BY <1>1, NextItemCuts
<1>3. stack' = s /\ openRows' = openRows \ {}
  BY <1>1 DEF EndItem
<1>4. AreRowsAbove({}, l)
  BY <1>1, <1>2 DEF AreRowsAbove
<1>5. StackOK' /\ RowsOpen'
  BY <1>1, <1>2, <1>3, <1>4, CutKeeps
<1>6. stack' # <<>>
  BY <1>2, <1>3, CutIsNotEmpty
<1> QED BY <1>1, <1>5, <1>6 DEF NestedInv, NestedTypes

LEMMA CaughtKeeps ==
  ASSUME NestedInv, mode = "walking", Caught, stray' \subseteq TreeNodes, UNCHANGED <<tree, effects, kills>>
  PROVE  NestedInv'
<1>0. Len(stack) \in Nat
  BY DEF NestedInv, StackOK
<1> PICK i : i = Catching
  OBVIOUS
<1>1. i \in 2..Len(stack) /\ tree.kind[stack[i].flow] = "loop"
  <2>1. Loops # {} /\ Loops \subseteq 2..Len(stack)
    BY <1>0 DEF Caught, Catching, Loops
  <2>2. \E m \in Loops : \A j \in Loops : j <= m
    <3>1. Loops \subseteq Nat /\ \A j \in Loops : j <= Len(stack)
      BY <1>0, <2>1
    <3> QED BY <1>0, <2>1, <3>1, LargestOf
  <2>3. i \in Loops
    BY <2>1, <2>2 DEF Catching
  <2> QED BY <2>1, <2>3 DEF Loops
<1> PICK s : s = NextItem(i)
  OBVIOUS
<1> PICK R : R = ThrownThrough(i)
  OBVIOUS
<1>2. PICK l \in {i, i - 1} : IsCutAt(s, l)
  BY <1>1, NextItemCuts
<1>3. stack' = s /\ openRows' = openRows \ R /\ UNCHANGED <<mode, treeJob>>
  BY DEF Caught
<1>4. \A r \in R : \E j \in (i + 1)..Len(stack) : r = <<stack[j].flow, kills>>
  BY DEF ThrownThrough
<1>5. \A j \in (i + 1)..Len(stack) : <<stack[j].flow, kills>> \in R
  BY DEF ThrownThrough
<1>6. AreRowsAbove(R, l)
  <2>1. \A j \in (i + 1)..Len(stack) : j \in (l + 1)..Len(stack)
    BY <1>0, <1>1, <1>2
  <2>2. \A j \in (l + 1)..Len(stack) : j = i \/ j \in (i + 1)..Len(stack)
    BY <1>0, <1>1, <1>2
  <2> QED BY <1>1, <1>4, <1>5, <2>1, <2>2 DEF AreRowsAbove
<1>7. StackOK' /\ RowsOpen'
  BY <1>2, <1>3, <1>6, CutKeeps
<1>8. stack' # <<>>
  BY <1>2, <1>3, CutIsNotEmpty
<1> QED BY <1>3, <1>7, <1>8 DEF NestedInv, NestedTypes

(* A stack with one executor more, in a step of the flow on top of it.      *)
LEMMA GrownStackIsOK ==
  ASSUME NestedInv, Walking, tree.kind[Here] \in {"subflow", "loop"}, NEW e \in Executors, e.flow = Here,
         NEW n \in Nat \ {0}, n = Len(stack), NEW a \in Executors, a.flow = Inner.flow, a.at = Inner.at,
         stack' \in Seq(Executors), Len(stack') = n + 1, stack'[n + 1] = e, stack'[n] = a,
         \A i \in 1..(n - 1) : stack'[i] = stack[i],
         UNCHANGED <<tree, kills>>
  PROVE  /\ StackOK'
         /\ OpenSubflows' = OpenSubflows \cup (IF tree.kind[Here] = "subflow" THEN {<<Here, kills>>} ELSE {})
<1>1. /\ stack \in Seq(Executors) /\ Inner = stack[n]
      /\ Here \in TreeNodes /\ Inner.at \in DOMAIN tree.body[Inner.flow]
      /\ Here = tree.body[Inner.flow][Inner.at] /\ Inner.flow \in Flows /\ kills \in Nat
  BY HereIsTyped, InnerIsTyped DEF NestedInv, StackOK, NestedTypes
<1>2. a.flow = Inner.flow /\ a.at = Inner.at
  OBVIOUS
<1>3. /\ Len(stack') = n + 1 /\ stack'[n + 1] = e /\ stack'[n] = a
      /\ \A i \in 1..(n - 1) : stack'[i] = stack[i]
  OBVIOUS
<1>4. \A i \in 1..n : stack'[i].flow = stack[i].flow
  BY <1>1, <1>2, <1>3
<1>5. \A i \in 2..Len(stack') : Nests(stack[i - 1], stack[i])'
  <2> SUFFICES ASSUME NEW i \in 2..(n + 1) PROVE Nests(stack[i - 1], stack[i])'
    BY <1>3
  <2>1. CASE i = n + 1
    BY <1>1, <1>2, <1>3, <2>1 DEF Nests
  <2>2. CASE i # n + 1
    <3>1. i \in 2..n /\ i - 1 \in 1..(n - 1)
      BY <1>1, <2>2
    <3>2. Nests(stack[i - 1], stack[i]) /\ stack'[i - 1] = stack[i - 1] /\ stack'[i].flow = stack[i].flow
      BY <1>3, <1>4, <3>1 DEF NestedInv, StackOK
    <3> QED BY <3>2 DEF Nests
  <2> QED BY <2>1, <2>2
<1>6. \A d \in Depths' : \A i, j \in 1..Len(stack') : i < j => d[stack'[i].flow] < d[stack'[j].flow]
  <2> SUFFICES ASSUME NEW d \in Depths', NEW i \in 1..(n + 1), NEW j \in 1..(n + 1), i < j
               PROVE  d[stack'[i].flow] < d[stack'[j].flow]
    BY <1>3
  <2>1. d \in Depths /\ d \in [Flows -> 0..MaxDepth] /\ MaxDepth \in Nat
    BY NestingAssumption DEF Depths
  <2>2. d[Inner.flow] < d[Here]
    BY <1>1, <2>1 DEF Depths
  <2>3. i \in 1..n /\ stack'[i].flow = stack[i].flow /\ stack[i].flow \in Flows
    <3>1. i \in 1..n /\ stack[i] \in Executors
      BY <1>1
    <3>2. \A x \in Executors : x.flow \in Flows
      BY DEF Executors
    <3> QED BY <1>4, <3>1, <3>2
  <2>4. CASE j # n + 1
    BY <1>1, <1>4, <2>1, <2>3, <2>4 DEF NestedInv, StackOK
  <2>5. CASE j = n + 1
    <3>1. i = n \/ d[stack[i].flow] < d[stack[n].flow]
      BY <1>1, <2>1, <2>3 DEF NestedInv, StackOK
    <3>2. d[stack[i].flow] \in Nat /\ d[Inner.flow] \in Nat /\ d[Here] \in Nat
      BY <1>1, <2>1, <2>3 DEF Flows
    <3>3. stack'[j].flow = Here /\ stack[n].flow = Inner.flow
      BY <1>1, <1>3, <2>5
    <3>4. i = n => d[stack[i].flow] = d[Inner.flow]
      BY <3>3
    <3>5. d[stack[i].flow] < d[Here]
      BY <2>2, <3>1, <3>2, <3>3, <3>4
    <3> QED BY <2>3, <3>3, <3>5
  <2> QED BY <2>4, <2>5
<1>7. StackOK'
  BY <1>3, <1>5, <1>6 DEF StackOK
<1> PICK R : R = IF tree.kind[Here] = "subflow" THEN {<<Here, kills>>} ELSE {}
  OBVIOUS
<1>8. OpenSubflows' = OpenSubflows \cup R
  <2>1. OpenSubflows' = {<<stack'[i].flow, kills>> : i \in {j \in 2..(n + 1) : tree.kind[stack'[j].flow] = "subflow"}}
    BY <1>3 DEF OpenSubflows
  <2>2. OpenSubflows = {<<stack'[i].flow, kills>> : i \in {j \in 2..n : tree.kind[stack'[j].flow] = "subflow"}}
    BY <1>1, <1>4 DEF OpenSubflows
  <2>3. 2..(n + 1) = (2..n) \cup {n + 1}
    BY <1>1
  <2> QED BY <1>3, <2>1, <2>2, <2>3
<1> QED BY <1>7, <1>8

LEMMA PushKeeps ==
  ASSUME NestedInv, Walking, tree.kind[Here] \in {"subflow", "loop"}, NEW e \in Executors, e.flow = Here,
         stack' = Append([stack EXCEPT ![Len(stack)] = Arrived], e),
         openRows' = openRows \cup (IF tree.kind[Here] = "subflow" THEN {<<Here, kills>>} ELSE {}),
         UNCHANGED <<tree, mode, treeJob, stray, effects, kills>>
  PROVE  NestedInv'
<1>1. stack \in Seq(Executors) /\ Len(stack) \in Nat \ {0}
  BY HereIsTyped, InnerIsTyped DEF NestedInv, StackOK, NestedTypes
<1> PICK n : n = Len(stack)
  OBVIOUS
<1> PICK a : a = Arrived
  OBVIOUS
<1>2. a \in Executors /\ a.flow = Inner.flow /\ a.at = Inner.at
  BY ArrivedIsTyped
<1>3. /\ stack' \in Seq(Executors) /\ Len(stack') = n + 1 /\ stack'[n + 1] = e /\ stack'[n] = a
      /\ \A i \in 1..(n - 1) : stack'[i] = stack[i]
  BY <1>1, <1>2
<1> PICK R : R = IF tree.kind[Here] = "subflow" THEN {<<Here, kills>>} ELSE {}
  OBVIOUS
<1>4. StackOK' /\ OpenSubflows' = OpenSubflows \cup R
  BY <1>1, <1>2, <1>3, GrownStackIsOK
<1>5. RowsOpen'
  <2>1. R \subseteq TreeNodes \X (0..kills) /\ \A r \in R : r[2] = kills
    <3>1. <<Here, kills>> \in TreeNodes \X (0..kills) /\ <<Here, kills>>[2] = kills
      BY HereIsTyped DEF NestedInv, NestedTypes
    <3>2. R \subseteq {<<Here, kills>>}
      OBVIOUS
    <3> QED BY <3>1, <3>2
  <2> QED BY <1>4, <2>1 DEF NestedInv, RowsOpen
<1>6. stack' # <<>>
  BY <1>1, <1>3
<1> QED BY <1>4, <1>5, <1>6 DEF NestedInv, NestedTypes, Walking

LEMMA SubOptionsAreTyped ==
  ASSUME NestedInv, mode = "walking", NEW n
  PROVE  SubOptions(n) \in RunOptions
<1>1. Inner.from \in Seq(TreeNodes) /\ Inner.outputs \subseteq Seq(TreeNodes) /\ Inner.approval \in Seq(TreeNodes)
  BY InnerIsTyped
<1>2. CASE Len(Inner.from) > 1 /\ Head(Inner.from) = n
  <2>1. <<Inner.from[2]>> \in Seq(TreeNodes)
    BY <1>1, <1>2
  <2>2. {Tail(p) : p \in {q \in Inner.outputs : Len(q) > 1 /\ Head(q) = n}} \subseteq Seq(TreeNodes)
    <3>1. \A q \in Seq(TreeNodes) : Len(q) > 1 => Tail(q) \in Seq(TreeNodes)
      OBVIOUS
    <3> QED BY <1>1, <3>1
  <2>3. (IF Inner.approval # <<>> /\ Head(Inner.approval) = n THEN Tail(Inner.approval) ELSE <<>>) \in Seq(TreeNodes)
    BY <1>1
  <2> QED BY <1>2, <2>1, <2>2, <2>3 DEF SubOptions, RunOptions
<1>3. CASE ~(Len(Inner.from) > 1 /\ Head(Inner.from) = n)
  BY <1>3, NoJobIsTyped, Zenon DEF SubOptions
<1> QED BY <1>2, <1>3

LEMMA EnterSubflowKeeps ==
  ASSUME NestedInv, EnterSubflow
  PROVE  NestedInv'
<1>1. Walking /\ mode = "walking" /\ Here \in TreeNodes /\ tree.kind[Here] = "subflow"
  BY HereIsTyped DEF EnterSubflow, Runs
<1> PICK e : e = Executor(Here, SubOptions(Here))
  OBVIOUS
<1>2. e \in Executors /\ e.flow = Here
  BY <1>1, SubOptionsAreTyped, FreshIsTyped DEF Flows
<1> QED BY <1>1, <1>2, PushKeeps DEF EnterSubflow

LEMMA EnterLoopKeeps ==
  ASSUME NestedInv, EnterLoop
  PROVE  NestedInv'
<1>1. Walking /\ mode = "walking" /\ Here \in TreeNodes /\ tree.kind[Here] = "loop"
      /\ Inner.approved \in BOOLEAN
  BY HereIsTyped, InnerIsTyped DEF EnterLoop, Runs
<1>2. CASE tree.items = 0
  <2> PICK e : e = Passed(Arrived)
    OBVIOUS
  <2>1. e \in Executors /\ e.flow = Inner.flow
    BY <1>1, ArrivedIsTyped, PassedIsTyped
  <2> QED BY <1>1, <1>2, <2>1, UpdateKeeps DEF EnterLoop, NestedInv, NestedTypes
<1>3. CASE tree.items # 0
  <2> PICK new : new = Executor(Here, NoJob)
    OBVIOUS
  <2>1. new \in Executors /\ new.flow = Here
    BY <1>1, FreshIsTyped, NoJobIsTyped DEF Flows
  <2> PICK e : e = [new EXCEPT !.approved = Inner.approved]
    OBVIOUS
  <2>2. e \in Executors /\ e.flow = Here
    BY <1>1, <2>1 DEF Executors
  <2>3. stack' = Append([stack EXCEPT ![Len(stack)] = Arrived], e)
    BY <1>3 DEF EnterLoop
  <2>4. openRows' = openRows \cup {}
    BY DEF EnterLoop
  <2> QED BY <1>1, <2>2, <2>3, <2>4, PushKeeps DEF EnterLoop
<1> QED BY <1>2, <1>3

LEMMA LabelsAreTyped ==
  ASSUME NestedInv, NEW i \in 1..Len(stack)
  PROVE  Labels(i) \in Seq(TreeNodes) /\ Len(Labels(i)) = i - 1
         /\ \A j \in 1..(i - 1) : Labels(i)[j] = stack[j + 1].flow
<1>1. Len(stack) \in Nat /\ i \in Nat
  BY DEF NestedInv, StackOK
<1>2. \A j \in 1..(i - 1) : stack[j + 1].flow \in TreeNodes
  <2> SUFFICES ASSUME NEW j \in 1..(i - 1) PROVE stack[j + 1].flow \in TreeNodes
    OBVIOUS
  <2>1. j + 1 \in 2..Len(stack)
    BY <1>1
  <2> QED BY <2>1 DEF NestedInv, StackOK, Nests
<1>3. Labels(i) = [j \in 1..(i - 1) |-> stack[j + 1].flow]
  BY DEF Labels
<1>4. Labels(i) \in [1..(i - 1) -> TreeNodes] /\ i - 1 \in Nat
  BY <1>1, <1>2, <1>3
<1>5. Labels(i) \in Seq(TreeNodes)
  BY <1>4, SeqDef
<1> QED BY <1>1, <1>3, <1>4, <1>5

LEMMA SavedAreTyped ==
  ASSUME NestedInv
  PROVE  SavedOutputs \subseteq Seq(TreeNodes)
<1> SUFFICES ASSUME NEW i \in DOMAIN stack, NEW n \in stack[i].done PROVE Append(Labels(i), n) \in Seq(TreeNodes)
  BY DEF SavedOutputs
<1>1. i \in 1..Len(stack) /\ stack[i] \in Executors
  BY DEF NestedInv, StackOK
<1>2. \A e \in Executors : e.done \subseteq TreeNodes
  BY DEF Executors
<1> QED BY <1>1, <1>2, LabelsAreTyped

LEMMA AbandonedAreNodes ==
  ASSUME NestedInv, Walking, NEW n
  PROVE  (stray \cup Abandoned(n)) \subseteq TreeNodes
<1>1. Inner.waiting \subseteq TreeNodes
  BY InnerIsTyped DEF Walking
<1> QED BY <1>1 DEF Abandoned, NestedInv, NestedTypes

(* What is thrown out of the last executor closes the rows of all.          *)
LEMMA ThrownKeeps ==
  ASSUME NestedInv, stack' = <<>>, openRows' = openRows \ ThrownThrough(1), mode' # "walking",
         mode' \in {"awaiting", "delayed", "failed"}, treeJob' \in RunOptions, stray' \subseteq TreeNodes,
         UNCHANGED <<tree, effects, kills>>
  PROVE  NestedInv'
<1>1. Len(stack') = 0 /\ stack' \in Seq(Executors) /\ Len(stack) \in Nat
  BY DEF NestedInv, StackOK
<1>2. StackOK'
  BY <1>1 DEF StackOK
<1>3. OpenSubflows' = {}
  <2>1. 2..Len(stack') = {}
    BY <1>1
  <2> QED BY <2>1 DEF OpenSubflows
<1>4. OpenSubflows \subseteq ThrownThrough(1)
  BY <1>1 DEF OpenSubflows, ThrownThrough
<1>5. RowsOpen'
  BY <1>3, <1>4 DEF NestedInv, RowsOpen
<1> QED BY <1>2, <1>5 DEF NestedInv, NestedTypes

LEMMA PauseKeepsNested ==
  ASSUME NestedInv, Walking, NEW n \in TreeNodes, Pause(n, PausedAs(n)), UNCHANGED <<tree, effects, kills, throws>>
  PROVE  NestedInv'
<1>1. mode = "walking" /\ stray' \subseteq TreeNodes
  BY AbandonedAreNodes DEF Pause, Walking
<1>2. CASE Caught
  BY <1>1, <1>2, CaughtKeeps
<1>3. CASE /\ mode' = PausedAs(n)
           /\ treeJob' = [from |-> Append(Labels(Len(stack)), n), outputs |-> SavedOutputs,
                          approval |-> <<>>, approved |-> FALSE]
           /\ stack' = <<>> /\ openRows' = openRows \ ThrownThrough(1)
  <2>1. Len(stack) \in Nat \ {0}
    BY <1>1, InnerIsTyped
  <2>2. Append(Labels(Len(stack)), n) \in Seq(TreeNodes)
    BY <2>1, LabelsAreTyped
  <2>3. treeJob' \in RunOptions
    BY <1>3, <2>2, SavedAreTyped DEF RunOptions
  <2>4. mode' \in {"awaiting", "delayed"}
    BY <1>3 DEF PausedAs
  <2> QED BY <1>1, <1>3, <2>3, <2>4, ThrownKeeps
<1> QED BY <1>2, <1>3 DEF Pause

LEMMA ThrowKeeps ==
  ASSUME NestedInv, NEW n \in TreeNodes, Throw(n)
  PROVE  NestedInv'
<1>1. Walking /\ mode = "walking" /\ UNCHANGED <<tree, effects, kills>>
  BY DEF Throw, Runs, Walking
<1>2. stray' \subseteq TreeNodes
  BY <1>1, AbandonedAreNodes DEF Throw
<1>3. CASE Caught
  BY <1>1, <1>2, <1>3, CaughtKeeps
<1>4. CASE mode' = "failed" /\ treeJob' = NoJob /\ stack' = <<>> /\ openRows' = openRows \ ThrownThrough(1)
  BY <1>1, <1>2, <1>4, NoJobIsTyped, ThrownKeeps
<1> QED BY <1>3, <1>4 DEF Throw

LEMMA JobKeeps ==
  ASSUME NestedInv, StartJob \/ Kill \/ EndJob \/ ApprovePause \/ Elapse
  PROVE  NestedInv'
<1>0. kills \in Nat /\ treeJob \in RunOptions
  BY DEF NestedInv, NestedTypes
<1>1. CASE StartJob
  <2> PICK e : e = Executor(Top, treeJob)
    OBVIOUS
  <2>1. e \in Executors
    BY <1>0, FreshIsTyped DEF Flows
  <2>2. stack' = <<e>> /\ mode' = "walking" /\ stack = <<>>
        /\ UNCHANGED <<tree, treeJob, stray, openRows, effects, kills, throws>>
    BY <1>1 DEF StartJob, NestedInv, NestedTypes
  <2>3. stack' \in Seq(Executors) /\ Len(stack') = 1 /\ 2..Len(stack') = {} /\ 2..Len(stack) = {} /\ stack' # <<>>
    BY <2>1, <2>2
  <2>4. StackOK'
    BY <2>3 DEF StackOK
  <2>5. OpenSubflows' = {} /\ OpenSubflows = {}
    BY <2>3 DEF OpenSubflows
  <2>6. RowsOpen'
    BY <2>2, <2>5 DEF NestedInv, RowsOpen
  <2> QED BY <2>2, <2>3, <2>4, <2>6 DEF NestedInv, NestedTypes
<1>2. CASE Kill
  <2>1. stack' = <<>> /\ mode' = "queued" /\ stray' = {} /\ kills' = kills + 1
        /\ UNCHANGED <<tree, treeJob, openRows, effects>>
    BY <1>2 DEF Kill
  <2>2. Len(stack') = 0 /\ stack' \in Seq(Executors) /\ 2..Len(stack') = {}
    BY <2>1
  <2>3. StackOK'
    BY <2>2 DEF StackOK
  <2>4. OpenSubflows' = {}
    BY <2>2 DEF OpenSubflows
  <2>5. RowsOpen'
    <3>1. \A r \in TreeNodes \X (0..kills) : r \in TreeNodes \X (0..(kills + 1)) /\ r[2] # kills + 1
      BY <1>0
    <3> QED BY <2>1, <2>4, <3>1 DEF NestedInv, RowsOpen
  <2> QED BY <1>0, <2>1, <2>3, <2>5 DEF NestedInv, NestedTypes
<1>3. CASE EndJob
  <2>1. stack' = <<>> /\ mode' = "completed" /\ treeJob' = NoJob
        /\ UNCHANGED <<tree, stray, openRows, effects, kills>> /\ Len(stack) = 1
    BY <1>3 DEF EndJob
  <2>2. Len(stack') = 0 /\ stack' \in Seq(Executors) /\ 2..Len(stack') = {} /\ 2..Len(stack) = {}
    BY <2>1
  <2>3. StackOK'
    BY <2>2 DEF StackOK
  <2>4. OpenSubflows' = {} /\ OpenSubflows = {}
    BY <2>2 DEF OpenSubflows
  <2>5. RowsOpen'
    BY <2>1, <2>4 DEF NestedInv, RowsOpen
  <2> QED BY <2>1, <2>3, <2>5, NoJobIsTyped DEF NestedInv, NestedTypes
<1>4. CASE ApprovePause \/ Elapse
  <2>1. mode' = "queued" /\ mode # "walking" /\ UNCHANGED <<tree, stack, stray, openRows, effects, kills>>
    BY <1>4 DEF ApprovePause, Elapse
  <2>2. treeJob' \in RunOptions
    <3>1. treeJob.from \in Seq(TreeNodes) /\ \A s \in Seq(TreeNodes) :
            [treeJob EXCEPT !.approval = s, !.approved = TRUE] \in RunOptions
      BY <1>0 DEF RunOptions
    <3> QED BY <1>0, <1>4, <3>1 DEF ApprovePause, Elapse
  <2>3. StackOK'
    BY <2>1 DEF NestedInv, StackOK, Nests, Depths
  <2>4. RowsOpen'
    BY <2>1 DEF NestedInv, RowsOpen, OpenSubflows
  <2> QED BY <2>1, <2>2, <2>3, <2>4 DEF NestedInv, NestedTypes
<1> QED BY <1>1, <1>2, <1>3, <1>4

LEMMA NestedStarts == NestedInit => NestedInv
<1> SUFFICES ASSUME NestedInit PROVE NestedInv
  OBVIOUS
<1>1. NestedTypes
  BY NoJobIsTyped DEF NestedInit, NestedTypes
<1>2. Len(stack) = 0 /\ stack \in Seq(Executors) /\ 2..Len(stack) = {}
  BY DEF NestedInit
<1>3. StackOK
  BY <1>2 DEF StackOK
<1>4. RowsOpen
  BY <1>2 DEF NestedInit, RowsOpen, OpenSubflows
<1> QED BY <1>1, <1>3, <1>4 DEF NestedInv

LEMMA NestedStepKeeps ==
  ASSUME NestedInv, NestedNext
  PROVE  NestedInv'
<1>1. CASE PauseAt
  <2>1. Walking /\ Here \in TreeNodes
    BY <1>1, HereIsTyped DEF PauseAt, Runs
  <2> QED BY <1>1, <2>1, PauseKeepsNested DEF PauseAt
<1>2. ASSUME NEW n \in TreeNodes, PauseSubNode(n) PROVE NestedInv'
  BY <1>2, PauseKeepsNested DEF PauseSubNode
<1>3. CASE RunStray
  <2>1. PICK n \in stray : effects' = [effects EXCEPT ![n] = @ + 1] /\ stray' = stray \ {n}
    BY <1>3 DEF RunStray
  <2>2. n \in TreeNodes /\ stray' \subseteq TreeNodes /\ effects' \in [TreeNodes -> Nat]
    BY <2>1, EffectsAreCounted DEF NestedInv, NestedTypes
  <2>3. UNCHANGED <<tree, stack, mode, treeJob, openRows, kills>>
    BY <1>3 DEF RunStray
  <2>4. StackOK'
    BY <2>3 DEF NestedInv, StackOK, Nests, Depths
  <2>5. RowsOpen'
    BY <2>3 DEF NestedInv, RowsOpen, OpenSubflows
  <2> QED BY <2>2, <2>3, <2>4, <2>5 DEF NestedInv, NestedTypes
<1> QED BY <1>1, <1>2, <1>3, LoadKeeps, RunNodeKeeps, PassPointKeeps, EnterParallelKeeps,
           RunSubNodeKeeps, LeaveKeeps, EndItemKeeps, ThrowKeeps, JobKeeps, EnterSubflowKeeps,
           EnterLoopKeeps DEF NestedNext

LEMMA NestedInvHolds == NestedSpec => []NestedInv
<1>1. ASSUME NestedInv, UNCHANGED nestedVars PROVE NestedInv'
  <2>1. UNCHANGED <<tree, stack, mode, treeJob, stray, openRows, effects, kills>>
    BY <1>1 DEF nestedVars
  <2>2. StackOK'
    BY <1>1, <2>1 DEF NestedInv, StackOK, Nests, Depths
  <2>3. RowsOpen'
    BY <1>1, <2>1 DEF NestedInv, RowsOpen, OpenSubflows
  <2> QED BY <1>1, <2>1, <2>2, <2>3 DEF NestedInv, NestedTypes
<1> QED BY <1>1, NestedStarts, NestedStepKeeps, PTL DEF NestedSpec

(* The stack, the job and the rows of nested runs keep their types.         *)
THEOREM NestedRunsAreTyped == NestedSpec => []NestedTypeOK
<1>1. ASSUME NestedInv PROVE NestedTypeOK
  <2>1. stack \in Seq(Executors)
    BY <1>1 DEF NestedInv, StackOK
  <2>2. \A e \in Executors : e.flow \in TreeNodes \cup {Top} /\ e.done \subseteq TreeNodes /\ e.waiting \subseteq TreeNodes
    BY DEF Executors, Flows
  <2>3. treeJob.from \in Seq(TreeNodes)
    BY <1>1 DEF NestedInv, NestedTypes, RunOptions
  <2> QED BY <1>1, <2>1, <2>2, <2>3 DEF NestedInv, NestedTypes, RowsOpen, NestedTypeOK
<1> QED BY <1>1, NestedInvHolds, PTL

(* The rows of subflows that are 'running' under the present worker are     *)
(* those of the subflows on the stack, whatever pauses, errors and loops    *)
(* cut it: a flow is on it once, so no row closed is still needed.          *)
THEOREM SubExecutionsAreClosed == NestedSpec => []SubExecutionsEnd
<1>1. NestedInv => SubExecutionsEnd
  BY DEF NestedInv, RowsOpen, OpenSubflows, SubExecutionsEnd
<1> QED BY <1>1, NestedInvHolds, PTL

-------------------------------------------------------------------------------
(* Steps run once. A node ahead of an executor that ran before is loaded,   *)
(* and so is every node up to it: the replay goes on loading until it is   *)
(* there. One inside a subflow ahead is loaded by the subflow, if the      *)
(* replay leads into it.                                                   *)
Skips(e, i) ==
  LET n == tree.body[e.flow][i] IN e.before /\ e.from # <<n>> /\ <<n>> \in e.outputs
SkipsTo(e, k) == \A i \in e.at..k : Skips(e, i)
ResumesInside(e, k, m) ==
  LET n == tree.body[e.flow][k] IN
  /\ e.before /\ Len(e.from) > 1 /\ Head(e.from) = n
  /\ \A i \in 1..m : <<n, tree.body[n][i]>> \in e.outputs /\ e.from[2] # tree.body[n][i]

Untouched(n) == \A m \in DOMAIN tree.body[n] : effects[tree.body[n][m]] = 0
RepeatsNothing(e) ==
  \A k \in DOMAIN tree.body[e.flow] : k >= e.at =>
    LET n == tree.body[e.flow][k] IN
    /\ effects[n] > 0 => SkipsTo(e, k)
    /\ tree.kind[n] = "subflow" =>
         \A m \in DOMAIN tree.body[n] : effects[tree.body[n][m]] > 0 =>
           SkipsTo(e, k) \/ (SkipsTo(e, k - 1) /\ ResumesInside(e, k, m))
NothingAhead(e) ==
  \A k \in DOMAIN tree.body[e.flow] :
    LET n == tree.body[e.flow][k] IN
    /\ k >= e.at => effects[n] = 0
    /\ k > e.at /\ tree.kind[n] = "subflow" => Untouched(n)
HasDone(e) == \A k \in DOMAIN tree.body[e.flow] : k < e.at => tree.body[e.flow][k] \in e.done

PlainStack ==
  /\ Len(stack) <= 2
  /\ \A j \in DOMAIN stack : stack[j].waiting = {} /\ HasDone(stack[j])
  /\ Len(stack) > 0 => stack[1].flow = Top
  /\ Len(stack) = 1 => RepeatsNothing(stack[1])
  /\ Len(stack) = 2 => NothingAhead(stack[1]) /\ RepeatsNothing(stack[2])
OnceInv == Plain =>
  /\ stray = {} /\ \A n \in TreeNodes : effects[n] <= 1
  /\ PlainStack
  /\ mode \in {"queued", "awaiting", "delayed"} => RepeatsNothing(Executor(Top, treeJob))

(* No flow is a node of itself, and no two executors run the same one.      *)
LEMMA FlowsDiffer ==
  ASSUME NestedInv
  PROVE  /\ \A c \in Flows : \A i \in DOMAIN tree.body[c] : tree.body[c][i] # c
         /\ \A i, j \in 1..Len(stack) : i < j => stack[i].flow # stack[j].flow
<1>1. PICK d \in Depths : TRUE
  BY NestingAssumption DEF Depths, NestedInv, NestedTypes, Flows
<1>2. d \in [Flows -> 0..MaxDepth] /\ MaxDepth \in Nat
  BY <1>1, NestingAssumption DEF Depths
<1>3. \A c \in Flows : d[c] \in Nat
  BY <1>2
<1>4. \A c \in Flows : \A i \in DOMAIN tree.body[c] : tree.body[c][i] # c
  <2> SUFFICES ASSUME NEW c \in Flows, NEW i \in DOMAIN tree.body[c], tree.body[c][i] = c PROVE FALSE
    OBVIOUS
  <2>1. d[c] < d[c]
    BY <1>1 DEF Depths
  <2> QED BY <1>3, <2>1
<1>5. \A i \in 1..Len(stack) : d[stack[i].flow] \in Nat
  <2>1. \A i \in 1..Len(stack) : stack[i] \in Executors
    BY DEF NestedInv, StackOK
  <2> QED BY <1>3, <2>1 DEF Executors
<1>6. \A i, j \in 1..Len(stack) : i < j => d[stack[i].flow] < d[stack[j].flow]
  BY <1>1 DEF NestedInv, StackOK
<1> QED BY <1>4, <1>5, <1>6

(* A node that is not loaded has not run, nor has anything behind it.       *)
LEMMA NothingIsAhead ==
  ASSUME NestedInv, NEW e \in Executors, RepeatsNothing(e), ~Skips(e, e.at)
  PROVE  NothingAhead(e)
<1> SUFFICES ASSUME NEW k \in DOMAIN tree.body[e.flow], NEW n, n = tree.body[e.flow][k]
             PROVE  /\ k >= e.at => effects[n] = 0
                    /\ k > e.at /\ tree.kind[n] = "subflow" => Untouched(n)
  BY DEF NothingAhead
<1>1. /\ e.at \in Nat \ {0} /\ e.flow \in Flows /\ tree.body[e.flow] \in Seq(TreeNodes)
      /\ effects \in [TreeNodes -> Nat] /\ n \in TreeNodes /\ tree.body[n] \in Seq(TreeNodes)
  BY TreesAreShaped DEF Executors, NestedInv, NestedTypes, Flows
<1>2. k >= e.at => ~SkipsTo(e, k)
  <2>1. k >= e.at => e.at \in e.at..k
    BY <1>1
  <2> QED BY <2>1 DEF SkipsTo
<1>3. k > e.at => ~SkipsTo(e, k - 1)
  <2>1. k > e.at => e.at \in e.at..(k - 1)
    BY <1>1
  <2> QED BY <2>1 DEF SkipsTo
<1>4. k >= e.at => effects[n] = 0
  BY <1>1, <1>2 DEF RepeatsNothing
<1>5. ASSUME k > e.at, tree.kind[n] = "subflow", NEW m \in DOMAIN tree.body[n]
      PROVE  effects[tree.body[n][m]] = 0
  <2>1. k >= e.at /\ ~SkipsTo(e, k) /\ ~SkipsTo(e, k - 1)
    BY <1>1, <1>2, <1>3, <1>5
  <2>2. ~(effects[tree.body[n][m]] > 0)
    BY <1>5, <2>1 DEF RepeatsNothing
  <2>3. tree.body[n][m] \in TreeNodes
    BY <1>1, <1>5
  <2> QED BY <1>1, <2>2, <2>3
<1> QED BY <1>4, <1>5 DEF Untouched

(* When the node an executor is at runs, what is behind it has still not.   *)
RanOnly(n) == \A x \in TreeNodes : x # n => effects'[x] = effects[x]
LEMMA RunTouchesNothingElse ==
  ASSUME NestedInv, NEW e \in Executors, NothingAhead(e), e.at \in DOMAIN tree.body[e.flow],
         NEW c \in Flows, NEW j \in DOMAIN tree.body[c], RanOnly(tree.body[c][j]),
         (c = e.flow /\ j = e.at) \/ c = tree.body[e.flow][e.at], tree' = tree
  PROVE  /\ \A k \in DOMAIN tree.body[e.flow] :
              LET n == tree.body[e.flow][k] IN
              k > e.at => effects'[n] = 0 /\ (tree.kind[n] = "subflow" => Untouched(n)')
         /\ c # e.flow => effects'[tree.body[e.flow][e.at]] = 0
<1>1. /\ e.at \in Nat \ {0} /\ e.flow \in Flows /\ tree.body[e.flow] \in Seq(TreeNodes)
      /\ \A a, b \in Flows : \A x \in DOMAIN tree.body[a], y \in DOMAIN tree.body[b] :
           tree.body[a][x] = tree.body[b][y] => a = b /\ x = y
      /\ \A a \in Flows : tree.body[a] \in Seq(TreeNodes)
  BY TreesAreShaped DEF Executors, NestedInv
<1>2. \A a \in Flows : \A i \in DOMAIN tree.body[a] : tree.body[a][i] # a
  BY FlowsDiffer
<1>3. ASSUME NEW k \in DOMAIN tree.body[e.flow], k > e.at, NEW n, n = tree.body[e.flow][k]
      PROVE  effects'[n] = 0 /\ (tree.kind[n] = "subflow" => Untouched(n)')
  <2>1. n \in TreeNodes /\ n \in Flows /\ k # e.at /\ k >= e.at
    BY <1>1, <1>3 DEF Flows
  <2>2. effects[n] = 0 /\ (tree.kind[n] = "subflow" => Untouched(n))
    BY <1>3, <2>1 DEF NothingAhead
  <2>3. n # tree.body[c][j]
    BY <1>1, <1>2, <1>3, <2>1
  <2>4. ASSUME tree.kind[n] = "subflow", NEW m \in DOMAIN tree.body[n] PROVE effects'[tree.body[n][m]] = 0
    <3>1. c # n
      BY <1>1, <1>2, <1>3, <2>1
    <3>2. tree.body[n][m] # tree.body[c][j] /\ tree.body[n][m] \in TreeNodes
      BY <1>1, <2>1, <2>4, <3>1
    <3> QED BY <2>2, <2>4, <3>2 DEF Untouched, RanOnly
  <2> QED BY <2>1, <2>2, <2>3, <2>4 DEF RanOnly, Untouched
<1>4. c # e.flow => effects'[tree.body[e.flow][e.at]] = 0
  <2>1. effects[tree.body[e.flow][e.at]] = 0 /\ tree.body[e.flow][e.at] \in TreeNodes
    BY <1>1 DEF NothingAhead
  <2>2. c # e.flow => tree.body[c][j] # tree.body[e.flow][e.at]
    BY <1>1
  <2> QED BY <2>1, <2>2 DEF RanOnly
<1> QED BY <1>3, <1>4

(* An executor that passes a node it loads goes on loading the same ones.   *)
LEMMA LoadRepeatsNothing ==
  ASSUME NestedInv, NEW e \in Executors, NEW f \in Executors, RepeatsNothing(e),
         f.flow = e.flow, f.at = e.at + 1, f.before = e.before, f.from = e.from,
         f.outputs = e.outputs, UNCHANGED <<tree, effects>>
  PROVE  RepeatsNothing(f)'
<1>1. e.at \in Nat \ {0}
  BY DEF Executors
<1>2. \A i : Skips(f, i)' <=> Skips(e, i)
  BY DEF Skips
<1>3. \A k \in Int : SkipsTo(e, k) => SkipsTo(f, k)'
  BY <1>1, <1>2 DEF SkipsTo
<1>4. \A k, m : ResumesInside(e, k, m) => ResumesInside(f, k, m)'
  BY DEF ResumesInside
<1>5. \A k \in DOMAIN tree.body[e.flow] : k \in Int
  BY TreesAreShaped DEF NestedInv, Executors
<1> SUFFICES ASSUME NEW k \in DOMAIN tree.body[e.flow], k >= e.at + 1, NEW n, n = tree.body[e.flow][k]
             PROVE  /\ effects[n] > 0 => SkipsTo(f, k)'
                    /\ tree.kind[n] = "subflow" =>
                         \A m \in DOMAIN tree.body[n] : effects[tree.body[n][m]] > 0 =>
                           SkipsTo(f, k)' \/ (SkipsTo(f, k - 1)' /\ ResumesInside(f, k, m)')
  BY DEF RepeatsNothing
<1>6. k \in Int /\ k >= e.at /\ k - 1 \in Int
  BY <1>1, <1>5
<1> QED BY <1>3, <1>4, <1>6 DEF RepeatsNothing

(* An executor that passes a node has nothing of it to repeat.              *)
LEMMA PassRepeatsNothing ==
  ASSUME NestedInv, NEW f \in Executors, tree' = tree,
         \A k \in DOMAIN tree.body[f.flow] :
           LET n == tree.body[f.flow][k] IN
           k >= f.at => effects'[n] = 0 /\ (tree.kind[n] = "subflow" => Untouched(n)')
  PROVE  RepeatsNothing(f)'
<1> SUFFICES ASSUME NEW k \in DOMAIN tree.body[f.flow], k >= f.at, NEW n, n = tree.body[f.flow][k]
             PROVE  /\ ~(effects'[n] > 0)
                    /\ tree.kind[n] = "subflow" =>
                         \A m \in DOMAIN tree.body[n] : ~(effects'[tree.body[n][m]] > 0)
  BY DEF RepeatsNothing
<1> QED BY DEF Untouched

(* In a plain flow: at most a subflow in the flow, and no loop to catch.    *)
LEMMA PlainWalk ==
  ASSUME NestedInv, OnceInv, Plain, mode = "walking"
  PROVE  /\ stack \in Seq(Executors) /\ Len(stack) \in {1, 2} /\ Inner \in Executors
         /\ Inner = stack[Len(stack)] /\ stack[1] \in Executors /\ stack[1].flow = Top
         /\ Inner.waiting = {} /\ stack[1].waiting = {} /\ Catching = 0 /\ stray = {}
         /\ RepeatsNothing(Inner) /\ HasDone(Inner) /\ HasDone(stack[1])
         /\ Len(stack) = 2 =>
              /\ tree.kind[Inner.flow] = "subflow" /\ Inner.flow \in TreeNodes
              /\ stack[1].at \in DOMAIN tree.body[Top]
              /\ Inner.flow = tree.body[Top][stack[1].at] /\ NothingAhead(stack[1])
<1>1. stack \in Seq(Executors) /\ Len(stack) \in Nat \ {0} /\ Inner = stack[Len(stack)] /\ Inner \in Executors
  BY InnerIsTyped DEF NestedInv, StackOK
<1>2. PlainStack /\ stray = {}
  BY DEF OnceInv
<1>3. Len(stack) \in {1, 2} /\ 1 \in DOMAIN stack /\ Len(stack) \in DOMAIN stack /\ stack[1] \in Executors
  <2>1. Len(stack) <= 2
    BY <1>2 DEF PlainStack
  <2>2. PICK m : m = Len(stack)
    OBVIOUS
  <2>3. m \in Nat \ {0} /\ m <= 2
    BY <1>1, <2>1, <2>2
  <2>4. m \in {1, 2}
    BY <2>3
  <2>5. 1 \in DOMAIN stack /\ Len(stack) \in DOMAIN stack /\ stack[1] \in Executors
    BY <1>1
  <2> QED BY <2>2, <2>4, <2>5
<1>4. \A i \in 2..Len(stack) : stack[i].flow \in TreeNodes /\ tree.kind[stack[i].flow] = "subflow"
  BY DEF NestedInv, StackOK, Nests, Plain
<1>5. Catching = 0
  BY <1>4 DEF Catching, Loops
<1>6. CASE Len(stack) = 1
  BY <1>1, <1>2, <1>3, <1>5, <1>6 DEF PlainStack
<1>7. CASE Len(stack) = 2
  <2>1. Nests(stack[1], stack[2])
    BY <1>7 DEF NestedInv, StackOK
  <2>2. 2 \in 2..Len(stack)
    BY <1>7
  <2> QED BY <1>1, <1>2, <1>3, <1>4, <1>5, <1>7, <2>1, <2>2 DEF PlainStack, Nests
<1> QED BY <1>3, <1>6, <1>7

(* The stacks of plain flows, one by one.                                   *)
LEMMA NoneIsPlain ==
  ASSUME stack' = <<>>
  PROVE  PlainStack'
<1>1. Len(stack') = 0 /\ DOMAIN stack' = {}
  OBVIOUS
<1>2. \A m : m = 0 => m <= 2 /\ ~(m > 0) /\ m # 1 /\ m # 2
  OBVIOUS
<1> QED BY <1>1, <1>2, Zenon DEF PlainStack

LEMMA OneIsPlain ==
  ASSUME NEW e, Len(stack') = 1, DOMAIN stack' = 1..1, stack'[1] = e, e.flow = Top, e.waiting = {},
         HasDone(e)', RepeatsNothing(e)'
  PROVE  PlainStack'
<1>1. \A m : m = 1 => m <= 2 /\ m # 2
  OBVIOUS
<1>2. Len(stack') <= 2 /\ Len(stack') # 2
  BY <1>1, Zenon
<1>3. \A j \in DOMAIN stack' : j = 1
  OBVIOUS
<1>4. stack'[1].flow = Top /\ stack'[1].waiting = {} /\ HasDone(stack[1])' /\ RepeatsNothing(stack[1])'
  OBVIOUS
<1>5. (\A j \in DOMAIN stack : stack[j].waiting = {} /\ HasDone(stack[j]))'
  BY <1>3, <1>4
<1>6. /\ (Len(stack) > 0 => stack[1].flow = Top)'
      /\ (Len(stack) = 1 => RepeatsNothing(stack[1]))'
      /\ (Len(stack) = 2 => NothingAhead(stack[1]) /\ RepeatsNothing(stack[2]))'
  BY <1>2, <1>4, Zenon
<1> QED BY <1>2, <1>5, <1>6, Zenon DEF PlainStack

LEMMA TwoArePlain ==
  ASSUME NEW o, NEW e, Len(stack') = 2, DOMAIN stack' = 1..2, stack'[1] = o, stack'[2] = e, o.flow = Top,
         o.waiting = {}, e.waiting = {}, HasDone(o)', HasDone(e)', NothingAhead(o)', RepeatsNothing(e)'
  PROVE  PlainStack'
<1>1. \A m : m = 2 => m <= 2 /\ m # 1
  OBVIOUS
<1>2. Len(stack') <= 2 /\ Len(stack') # 1
  BY <1>1, Zenon
<1>3. \A j \in DOMAIN stack' : j = 1 \/ j = 2
  OBVIOUS
<1>4. /\ stack'[1].flow = Top /\ stack'[1].waiting = {} /\ HasDone(stack[1])' /\ NothingAhead(stack[1])'
      /\ stack'[2].waiting = {} /\ HasDone(stack[2])' /\ RepeatsNothing(stack[2])'
  OBVIOUS
<1>5. (\A j \in DOMAIN stack : stack[j].waiting = {} /\ HasDone(stack[j]))'
  BY <1>3, <1>4
<1>6. /\ (Len(stack) > 0 => stack[1].flow = Top)'
      /\ (Len(stack) = 1 => RepeatsNothing(stack[1]))'
      /\ (Len(stack) = 2 => NothingAhead(stack[1]) /\ RepeatsNothing(stack[2]))'
  BY <1>2, <1>4, Zenon
<1> QED BY <1>2, <1>5, <1>6, Zenon DEF PlainStack

(* The innermost executor passes a node, which it loads or runs.            *)
LEMMA MoveOnKeepsOnce ==
  ASSUME NestedInv, OnceInv, Plain, Walking, NEW f \in Executors,
         f.flow = Inner.flow, f.at = Inner.at + 1, f.waiting = Inner.waiting,
         f.done = Inner.done \cup {Here},
         stack' = [stack EXCEPT ![Len(stack)] = f], UNCHANGED <<tree, mode, stray>>,
         \/ /\ LoadsNode /\ effects' = effects
            /\ f.before = Inner.before /\ f.from = Inner.from /\ f.outputs = Inner.outputs
         \/ ~LoadsNode /\ effects' = effects
         \/ ~LoadsNode /\ effects' = [effects EXCEPT ![Here] = @ + 1]
  PROVE  OnceInv'
<1> PICK n : n = Len(stack)
  OBVIOUS
<1>1. /\ mode = "walking" /\ Here \in TreeNodes /\ Inner.at \in DOMAIN tree.body[Inner.flow]
      /\ Here = tree.body[Inner.flow][Inner.at] /\ Inner.flow \in Flows /\ Inner.at \in Nat \ {0}
      /\ tree.body[Inner.flow] \in Seq(TreeNodes) /\ effects \in [TreeNodes -> Nat]
  BY HereIsTyped, InnerIsTyped, TreesAreShaped DEF NestedInv, NestedTypes
<1>2. /\ stack \in Seq(Executors) /\ n \in {1, 2} /\ Inner \in Executors
      /\ Inner = stack[n] /\ stack[1] \in Executors /\ stack[1].flow = Top
      /\ Inner.waiting = {} /\ stack[1].waiting = {} /\ stray = {}
      /\ RepeatsNothing(Inner) /\ HasDone(Inner) /\ HasDone(stack[1])
      /\ n = 2 => /\ tree.kind[Inner.flow] = "subflow" /\ Inner.flow \in TreeNodes
                  /\ stack[1].at \in DOMAIN tree.body[Top]
                  /\ Inner.flow = tree.body[Top][stack[1].at] /\ NothingAhead(stack[1])
  BY <1>1, PlainWalk
<1>3. Len(stack') = n /\ stack'[n] = f /\ (n = 2 => stack'[1] = stack[1]) /\ DOMAIN stack' = 1..n
  BY <1>2
<1>4. LoadsNode <=> Skips(Inner, Inner.at)
  BY <1>1 DEF LoadsNode, Skips
<1>5. RanOnly(Here)
  BY <1>1 DEF RanOnly
<1>6. \A x \in TreeNodes : effects[x] <= 1
  BY DEF OnceInv
<1>7. PICK e : e = Inner
  OBVIOUS
<1>8. RepeatsNothing(f)' /\ \A x \in TreeNodes : effects'[x] <= 1
  <2>1. CASE LoadsNode
    <3>1. effects' = effects
      BY <2>1
    <3>2. RepeatsNothing(f)'
      BY <1>2, <1>7, <2>1, LoadRepeatsNothing
    <3> QED BY <1>6, <3>1, <3>2
  <2>2. CASE ~LoadsNode
    <3>1. NothingAhead(e)
      BY <1>2, <1>4, <1>7, <2>2, NothingIsAhead
    <3>2. effects[Here] = 0
      BY <1>1, <1>7, <3>1 DEF NothingAhead
    <3>3. PICK c : c = Inner.flow
      OBVIOUS
    <3>4. PICK j : j = Inner.at
      OBVIOUS
    <3> RanOnly(tree.body[c][j])
      BY <1>1, <1>5, <3>3, <3>4 DEF RanOnly
    <3>5. \A k \in DOMAIN tree.body[e.flow] :
              LET m == tree.body[e.flow][k] IN
              k > e.at => effects'[m] = 0 /\ (tree.kind[m] = "subflow" => Untouched(m)')
      <4>1. e \in Executors /\ e.at \in DOMAIN tree.body[e.flow] /\ c \in Flows /\ c = e.flow /\ j = e.at
        BY <1>1, <1>2, <1>7, <3>3, <3>4
      <4>2. j \in DOMAIN tree.body[c] /\ tree' = tree
        BY <4>1
      <4> QED BY <3>1, <4>1, <4>2, RunTouchesNothingElse
    <3>6. \A k \in DOMAIN tree.body[f.flow] :
              LET m == tree.body[f.flow][k] IN
              k >= f.at => effects'[m] = 0 /\ (tree.kind[m] = "subflow" => Untouched(m)')
      <4>1. \A k \in DOMAIN tree.body[f.flow] : k >= f.at => k > e.at
        BY <1>1, <1>7
      <4> QED BY <1>7, <3>5, <4>1
    <3>7. RepeatsNothing(f)'
      BY <3>6, PassRepeatsNothing
    <3>8. \A x \in TreeNodes : effects'[x] <= 1
      BY <1>1, <1>6, <3>2
    <3> QED BY <3>7, <3>8
  <2> QED BY <2>1, <2>2
<1>9. HasDone(f)'
  <2> SUFFICES ASSUME NEW k \in DOMAIN tree.body[Inner.flow], k < Inner.at + 1
               PROVE  tree.body[Inner.flow][k] \in Inner.done \cup {Here}
    BY DEF HasDone
  <2>1. k < Inner.at \/ k = Inner.at
    BY <1>1
  <2> QED BY <1>1, <1>2, <2>1 DEF HasDone
<1> PICK o \in Executors : o = stack[1]
  BY <1>2
<1>10. ASSUME n = 2 PROVE NothingAhead(o)' /\ HasDone(o)' /\ o.waiting = {}
  <2>2. PICK c \in Flows : c = Inner.flow
    BY <1>1
  <2>3. PICK j \in DOMAIN tree.body[c] : j = Inner.at
    BY <1>1, <2>2
  <2>4. c # Top
    <3>1. stack[1].at \in DOMAIN tree.body[Top] /\ c = tree.body[Top][stack[1].at]
      BY <1>2, <1>10, <2>2
    <3>2. Top \in Flows
      BY DEF Flows
    <3> QED BY <3>1, <3>2, FlowsDiffer
  <2>5. /\ \A k \in DOMAIN tree.body[o.flow] :
              LET m == tree.body[o.flow][k] IN
              k > o.at => effects'[m] = 0 /\ (tree.kind[m] = "subflow" => Untouched(m)')
        /\ effects'[tree.body[o.flow][o.at]] = 0
    <3>1. RanOnly(tree.body[c][j])
      BY <1>1, <1>5, <2>2, <2>3 DEF RanOnly
    <3>2. NothingAhead(o) /\ o.at \in DOMAIN tree.body[o.flow] /\ c = tree.body[o.flow][o.at] /\ o.flow = Top
      BY <1>2, <1>10, <2>2
    <3> QED BY <2>4, <3>1, <3>2, RunTouchesNothingElse
  <2>6. \A k \in DOMAIN tree.body[o.flow] : k >= o.at => k = o.at \/ k > o.at
    <3>1. tree.body[o.flow] \in Seq(TreeNodes) /\ o.at \in Nat
      BY TreesAreShaped DEF NestedInv, Executors
    <3> QED BY <3>1
  <2>7. NothingAhead(o)'
    BY <2>5, <2>6 DEF NothingAhead
  <2>8. HasDone(o)'
    BY <1>2 DEF HasDone
  <2> QED BY <1>2, <2>7, <2>8
<1>11. PlainStack'
  <2>1. CASE n = 1
    BY <1>2, <1>3, <1>8, <1>9, <2>1, OneIsPlain
  <2>2. CASE n = 2
    <3>1. o.flow = Top /\ stack'[1] = o /\ stack'[2] = f /\ Len(stack') = 2 /\ f.waiting = {}
      BY <1>2, <1>3, <2>2
    <3>2. NothingAhead(o)' /\ HasDone(o)' /\ o.waiting = {}
      BY <1>10, <2>2
    <3> QED BY <1>3, <1>8, <1>9, <2>2, <3>1, <3>2, TwoArePlain
  <2> QED BY <1>2, <2>1, <2>2
<1> QED BY <1>1, <1>2, <1>8, <1>11 DEF OnceInv

LEMMA PassingKeepsOnce ==
  ASSUME NestedInv, OnceInv, Plain, Load \/ RunNode \/ PassPoint
  PROVE  OnceInv'
<1>1. Walking /\ mode = "walking" /\ Inner \in Executors
  BY InnerIsTyped DEF Load, RunNode, PassPoint, Runs, Walking
<1>2. CASE Load
  <2> PICK f : f = Passed(Inner)
    OBVIOUS
  <2>1. /\ f \in Executors /\ f.flow = Inner.flow /\ f.at = Inner.at + 1 /\ f.done = Inner.done \cup {Here}
        /\ f.before = Inner.before /\ f.from = Inner.from /\ f.outputs = Inner.outputs
        /\ f.waiting = Inner.waiting
    BY <1>1, PassedIsTyped
  <2> QED BY <1>1, <1>2, <2>1, MoveOnKeepsOnce DEF Load, Update
<1>3. CASE RunNode
  <2> PICK f : f = Passed(Arrived)
    OBVIOUS
  <2>1. /\ f \in Executors /\ f.flow = Inner.flow /\ f.at = Inner.at + 1 /\ f.done = Inner.done \cup {Here}
        /\ f.waiting = Inner.waiting
    BY <1>1, ArrivedIsTyped, PassedIsTyped
  <2> QED BY <1>1, <1>3, <2>1, MoveOnKeepsOnce DEF RunNode, Runs, Update
<1>4. CASE PassPoint
  <2> PICK f : f = Consumed(Here, Passed(Arrived))
    OBVIOUS
  <2>1. /\ f \in Executors /\ f.flow = Inner.flow /\ f.at = Inner.at + 1 /\ f.done = Inner.done \cup {Here}
        /\ f.waiting = Inner.waiting
    BY <1>1, ArrivedIsTyped, PassedIsTyped, ConsumedIsTyped
  <2> QED BY <1>1, <1>4, <2>1, MoveOnKeepsOnce DEF PassPoint, Runs, Update
<1> QED BY <1>2, <1>3, <1>4

(* What is behind an executor is said of its flow, how far it is and what   *)
(* it replays.                                                             *)
LEMMA SameRepeats ==
  ASSUME NEW e, NEW f, f.flow = e.flow, f.at = e.at, f.before = e.before, f.from = e.from,
         f.outputs = e.outputs, UNCHANGED <<tree, effects>>, RepeatsNothing(e)
  PROVE  RepeatsNothing(f)'
<1>1. \A k : SkipsTo(e, k) => SkipsTo(f, k)'
  BY DEF SkipsTo, Skips
<1>2. \A k, m : ResumesInside(e, k, m) => ResumesInside(f, k, m)'
  BY DEF ResumesInside
<1> QED BY <1>1, <1>2 DEF RepeatsNothing

(* A subflow is entered to run it for the first time, or to go on inside.   *)
LEMMA EnterSubflowOnce ==
  ASSUME NestedInv, OnceInv, Plain, EnterSubflow
  PROVE  OnceInv'
<1>1. /\ Walking /\ mode = "walking" /\ Here \in TreeNodes /\ tree.kind[Here] = "subflow" /\ ~LoadsNode
      /\ Inner.at \in DOMAIN tree.body[Inner.flow] /\ Here = tree.body[Inner.flow][Inner.at]
      /\ UNCHANGED <<tree, mode, treeJob, stray, effects, kills>>
  BY HereIsTyped DEF EnterSubflow, Runs
<1>2. /\ stack \in Seq(Executors) /\ Len(stack) \in {1, 2} /\ Inner \in Executors
      /\ Inner = stack[Len(stack)] /\ stack[1].flow = Top /\ Inner.waiting = {} /\ stray = {}
      /\ RepeatsNothing(Inner) /\ HasDone(Inner)
      /\ Len(stack) = 2 => tree.kind[Inner.flow] = "subflow" /\ Inner.flow \in TreeNodes
  BY <1>1, PlainWalk
<1>3. Len(stack) = 1 /\ Inner.flow = Top
  <2>1. Len(stack) # 2
    BY <1>1, <1>2 DEF Plain
  <2> QED BY <1>2, <2>1
<1>4. PICK i \in Executors : i = Inner
  BY <1>2
<1>5. PICK o : o = Arrived
  OBVIOUS
<1>6. o \in Executors /\ o.flow = i.flow /\ o.at = i.at /\ o.done = i.done /\ o.waiting = i.waiting
  BY <1>1, <1>4, <1>5, ArrivedIsTyped
<1>7. PICK s \in RunOptions : s = SubOptions(Here)
  BY <1>1, SubOptionsAreTyped
<1>8. PICK n : n = Here
  OBVIOUS
<1>9. PICK e : e = Executor(n, s)
  OBVIOUS
<1>10. /\ e \in Executors /\ e.flow = n /\ e.at = 1 /\ e.before = (s.from # <<>>) /\ e.from = s.from
       /\ e.outputs = s.outputs /\ e.done = {} /\ e.waiting = {}
  BY <1>1, <1>8, <1>9, FreshIsTyped DEF Flows
<1>11. ~Skips(i, i.at)
  BY <1>1, <1>4 DEF LoadsNode, Skips
<1>12. NothingAhead(o)'
  <2>1. NothingAhead(i)
    BY <1>2, <1>4, <1>11, NothingIsAhead
  <2> QED BY <1>1, <1>6, <2>1 DEF NothingAhead, Untouched
<1>13. HasDone(o)'
  BY <1>1, <1>2, <1>4, <1>6 DEF HasDone
<1>14. HasDone(e)' /\ tree.body[n] \in Seq(TreeNodes)
  <2>1. tree.body[n] \in Seq(TreeNodes)
    BY <1>1, <1>8, TreesAreShaped DEF NestedInv, Flows
  <2>2. \A k \in DOMAIN tree.body[n] : ~(k < 1)
    BY <2>1
  <2> QED BY <1>1, <1>10, <2>1, <2>2 DEF HasDone
<1>15. RepeatsNothing(e)'
  <2>1. \A k \in DOMAIN tree.body[n] : tree.kind[tree.body[n][k]] # "subflow"
    BY <1>1, <1>8 DEF Plain
  <2>2. ASSUME NEW k \in DOMAIN tree.body[n], effects[tree.body[n][k]] > 0 PROVE SkipsTo(e, k)'
    <3>1. ResumesInside(i, i.at, k)
      <4>1. i.at \in Nat /\ i.at >= i.at
        BY DEF Executors
      <4>2. ~SkipsTo(i, i.at)
        BY <1>11, <4>1 DEF SkipsTo
      <4>3. /\ i.at \in DOMAIN tree.body[i.flow] /\ n = tree.body[i.flow][i.at]
            /\ tree.kind[n] = "subflow" /\ RepeatsNothing(i)
        BY <1>1, <1>2, <1>4, <1>8
      <4> QED BY <2>2, <4>1, <4>2, <4>3 DEF RepeatsNothing
    <3>2. /\ Len(i.from) > 1 /\ Head(i.from) = n
          /\ \A m \in 1..k : <<n, tree.body[n][m]>> \in i.outputs /\ i.from[2] # tree.body[n][m]
      BY <1>1, <1>4, <1>8, <3>1 DEF ResumesInside
    <3>3. s.from = <<i.from[2]>> /\ s.outputs = {Tail(p) : p \in {q \in i.outputs : Len(q) > 1 /\ Head(q) = n}}
      BY <1>4, <1>7, <1>8, <3>2 DEF SubOptions
    <3>4. ASSUME NEW m \in 1..k PROVE Skips(e, m)'
      <4>1. tree.body[n][m] \in TreeNodes
        BY <1>14, <2>2
      <4>2. \A x : Len(<<n, x>>) > 1 /\ Head(<<n, x>>) = n /\ Tail(<<n, x>>) = <<x>>
        OBVIOUS
      <4>3. <<tree.body[n][m]>> \in s.outputs
        BY <3>2, <3>3, <4>2
      <4>4. s.from # <<>> /\ s.from # <<tree.body[n][m]>>
        <5>1. \A x, y : <<x>> # <<>> /\ (x # y => <<x>> # <<y>>)
          OBVIOUS
        <5>2. i.from[2] # tree.body[n][m]
          BY <3>2
        <5> QED BY <3>3, <5>1, <5>2, Zenon
      <4> QED BY <1>1, <1>10, <4>3, <4>4 DEF Skips
    <3> QED BY <1>10, <3>4 DEF SkipsTo
  <2> QED BY <1>1, <1>10, <2>1, <2>2 DEF RepeatsNothing
<1>16. PlainStack'
  <2>1. stack' = Append([stack EXCEPT ![Len(stack)] = o], e)
    BY <1>5, <1>7, <1>8, <1>9 DEF EnterSubflow
  <2>2. Len(stack') = 2 /\ DOMAIN stack' = 1..2 /\ stack'[1] = o /\ stack'[2] = e
    <3>1. PICK t : t = [stack EXCEPT ![1] = o]
      OBVIOUS
    <3>2. t \in Seq(Executors) /\ Len(t) = 1 /\ t[1] = o /\ stack' = Append(t, e)
      BY <1>2, <1>3, <1>6, <2>1, <3>1
    <3>3. /\ Append(t, e) \in Seq(Executors) /\ Len(Append(t, e)) = Len(t) + 1
          /\ Append(t, e)[Len(t) + 1] = e /\ \A m \in 1..Len(t) : Append(t, e)[m] = t[m]
      <4>1. e \in Executors /\ t \in Seq(Executors)
        BY <1>10, <3>2
      <4> QED BY <4>1, AppendProperties
    <3>4. 1 \in 1..1 /\ 1 + 1 = 2
      OBVIOUS
    <3>5. stack' \in Seq(Executors) /\ Len(stack') = 2 /\ stack'[1] = o /\ stack'[2] = e
      BY <3>2, <3>3, <3>4, Zenon
    <3> QED BY <3>5
  <2> QED BY <1>2, <1>3, <1>4, <1>6, <1>10, <1>12, <1>13, <1>14, <1>15, <2>2, TwoArePlain
<1>17. \A x \in TreeNodes : effects[x] <= 1
  BY DEF OnceInv
<1> QED BY <1>1, <1>2, <1>16, <1>17 DEF OnceInv

(* After a subflow nothing of its flow is behind the node.                  *)
LEMMA LeaveSubflowOnce ==
  ASSUME NestedInv, OnceInv, Plain, LeaveSubflow
  PROVE  OnceInv'
<1>1. /\ mode = "walking" /\ Len(stack) > 1 /\ stack' = Return(Len(stack))
      /\ UNCHANGED <<tree, mode, treeJob, stray, effects, kills>>
  BY DEF LeaveSubflow, Ended
<1>2. /\ stack \in Seq(Executors) /\ Len(stack) = 2 /\ Inner = stack[2]
      /\ stack[1] \in Executors /\ stack[1].flow = Top /\ stack[1].waiting = {} /\ stray = {}
      /\ HasDone(stack[1]) /\ NothingAhead(stack[1]) /\ Inner.flow = tree.body[Top][stack[1].at]
  <2>1. Len(stack) \in {1, 2}
    BY <1>1, PlainWalk
  <2>2. Len(stack) = 2
    BY <1>1, <2>1
  <2> QED BY <1>1, <2>2, PlainWalk
<1>3. PICK o \in Executors : o = stack[1]
  BY <1>2
<1>4. PICK s : s = Return(2)
  OBVIOUS
<1>5. s \in Seq(Executors) /\ Len(s) = 1 /\ s[1].flow = o.flow /\ s[1].at = o.at + 1
      /\ s[1].done = o.done \cup {Inner.flow} /\ s[1].waiting = o.waiting
  <2>1. 2 \in 2..Len(stack) /\ 2 - 1 = 1
    BY <1>2
  <2> QED BY <1>2, <1>3, <1>4, <2>1, ReturnCuts DEF IsCutAt
<1>6. PICK f : f = s[1]
  OBVIOUS
<1>7. /\ f \in Executors /\ f.flow = Top /\ f.at = o.at + 1 /\ f.done = o.done \cup {Inner.flow} /\ f.waiting = {}
      /\ tree.body[Top] \in Seq(TreeNodes) /\ o.at \in Nat
  <2>1. tree.body[Top] \in Seq(TreeNodes)
    BY TreesAreShaped DEF NestedInv, Flows
  <2>2. o.at \in Nat
    BY DEF Executors
  <2>3. f \in Executors
    <3>1. \A u \in Seq(Executors) : Len(u) = 1 => u[1] \in Executors
      OBVIOUS
    <3> QED BY <1>5, <1>6, <3>1
  <2>4. /\ f.flow = Top /\ f.at = o.at + 1 /\ f.waiting = {} /\ f.done = o.done \cup {Inner.flow}
    BY <1>2, <1>3, <1>5, <1>6, Zenon
  <2> QED BY <2>1, <2>2, <2>3, <2>4
<1>8. RepeatsNothing(f)'
  <2>1. ASSUME NEW k \in DOMAIN tree.body[Top], k >= f.at, NEW n, n = tree.body[Top][k]
        PROVE  effects'[n] = 0 /\ (tree.kind[n] = "subflow" => Untouched(n)')
    <3>1. k > o.at /\ k >= o.at
      BY <1>7, <2>1
    <3> QED BY <1>1, <1>2, <1>3, <2>1, <3>1 DEF NothingAhead, Untouched
  <2> QED BY <1>1, <1>7, <2>1, PassRepeatsNothing
<1>9. HasDone(f)'
  <2> SUFFICES ASSUME NEW k \in DOMAIN tree.body[Top], k < o.at + 1
               PROVE  tree.body[Top][k] \in o.done \cup {Inner.flow}
    BY <1>1, <1>7 DEF HasDone
  <2>1. k < o.at \/ k = o.at
    BY <1>7
  <2> QED BY <1>2, <1>3, <2>1 DEF HasDone
<1>10. PlainStack'
  <2>1. Len(stack') = 1 /\ DOMAIN stack' = 1..1 /\ stack'[1] = f
    BY <1>1, <1>2, <1>4, <1>5, <1>6
  <2> QED BY <1>7, <1>8, <1>9, <2>1, OneIsPlain
<1>11. \A x \in TreeNodes : effects[x] <= 1
  BY DEF OnceInv
<1> QED BY <1>1, <1>2, <1>10, <1>11 DEF OnceInv

(* What is saved at a pause: all an executor is done with, under the flows  *)
(* it is in.                                                               *)
LEMMA DoneIsSaved ==
  ASSUME NestedInv, NEW x
  PROVE  /\ Len(stack) > 0 /\ x \in stack[1].done => <<x>> \in SavedOutputs
         /\ Len(stack) = 2 /\ x \in stack[2].done => <<stack[2].flow, x>> \in SavedOutputs
         /\ Len(stack) = 1 => Append(Labels(1), x) = <<x>>
         /\ Len(stack) = 2 => Append(Labels(2), x) = <<stack[2].flow, x>>
<1>1. stack \in Seq(Executors) /\ Len(stack) \in Nat
  BY DEF NestedInv, StackOK
<1>2. Labels(1) = <<>>
  <2>1. 1..(1 - 1) = {}
    OBVIOUS
  <2> QED BY <2>1 DEF Labels
<1>3. Labels(2) = <<stack[2].flow>>
  <2>1. 1..(2 - 1) = 1..1 /\ 1 + 1 = 2
    OBVIOUS
  <2>2. Labels(2) = [j \in 1..1 |-> stack[j + 1].flow]
    BY <2>1 DEF Labels
  <2> QED BY <2>1, <2>2
<1>4. \A y : Append(<<>>, x) = <<x>> /\ Append(<<y>>, x) = <<y, x>>
  <2> SUFFICES ASSUME NEW y PROVE Append(<<>>, x) = <<x>> /\ Append(<<y>>, x) = <<y, x>>
    OBVIOUS
  <2>1. PICK S : S = {x, y}
    OBVIOUS
  <2>2. /\ <<>> \in Seq(S) /\ <<y>> \in Seq(S) /\ x \in S /\ Len(<<>>) = 0 /\ Len(<<y>>) = 1 /\ <<y>>[1] = y
        /\ <<x>> \in Seq(S) /\ <<y, x>> \in Seq(S)
        /\ Len(<<x>>) = 1 /\ <<x>>[1] = x /\ Len(<<y, x>>) = 2 /\ <<y, x>>[1] = y /\ <<y, x>>[2] = x
    BY <2>1
  <2>3. PICK u : u = Append(<<>>, x)
    OBVIOUS
  <2>4. PICK v : v = Append(<<y>>, x)
    OBVIOUS
  <2>5. u \in Seq(S) /\ Len(u) = 1 /\ u[1] = x
    BY <2>2, <2>3, AppendProperties
  <2>6. v \in Seq(S) /\ Len(v) = 2 /\ v[1] = y /\ v[2] = x
    <3>1. /\ v \in Seq(S) /\ Len(v) = Len(<<y>>) + 1 /\ v[Len(<<y>>) + 1] = x
          /\ \A i \in 1..Len(<<y>>) : v[i] = <<y>>[i]
      BY <2>2, <2>4, AppendProperties
    <3>2. 1 \in 1..1 /\ 1 + 1 = 2
      OBVIOUS
    <3> QED BY <2>2, <3>1, <3>2, Zenon
  <2>7. u = <<x>>
    BY <2>2, <2>5, SeqEqual
  <2>8. v = <<y, x>>
    BY <2>2, <2>6, SeqEqual
  <2> QED BY <2>3, <2>4, <2>7, <2>8
<1>5. /\ Len(stack) > 0 => 1 \in DOMAIN stack
      /\ Len(stack) = 2 => 2 \in DOMAIN stack
  BY <1>1
<1>6. \A i \in DOMAIN stack : \A y \in stack[i].done : Append(Labels(i), y) \in SavedOutputs
  BY DEF SavedOutputs
<1> QED BY <1>2, <1>3, <1>4, <1>5, <1>6, Zenon

(* At a pause nothing behind the node has run, and what has run is saved.   *)
LEMMA PauseAtOnce ==
  ASSUME NestedInv, OnceInv, Plain, PauseAt
  PROVE  OnceInv'
<1>1. /\ Walking /\ mode = "walking" /\ Here \in TreeNodes /\ tree.kind[Here] \in {"gate", "delay"} /\ ~LoadsNode
      /\ Inner.at \in DOMAIN tree.body[Inner.flow] /\ Here = tree.body[Inner.flow][Inner.at]
      /\ UNCHANGED <<tree, effects, kills>>
  BY HereIsTyped DEF PauseAt, Runs
<1>2. /\ stack \in Seq(Executors) /\ Len(stack) \in {1, 2} /\ Inner \in Executors
      /\ Inner = stack[Len(stack)] /\ stack[1] \in Executors /\ stack[1].flow = Top
      /\ Inner.waiting = {} /\ stray = {} /\ Catching = 0
      /\ RepeatsNothing(Inner) /\ HasDone(Inner) /\ HasDone(stack[1])
      /\ Len(stack) = 2 => /\ Inner.flow \in TreeNodes /\ stack[1].at \in DOMAIN tree.body[Top]
                           /\ Inner.flow = tree.body[Top][stack[1].at] /\ NothingAhead(stack[1])
  BY <1>1, PlainWalk
<1>3. /\ stray' = {} /\ stack' = <<>>
      /\ treeJob' = [from |-> Append(Labels(Len(stack)), Here), outputs |-> SavedOutputs,
                     approval |-> <<>>, approved |-> FALSE]
  <2>1. Abandoned(Here) = {}
    BY <1>2 DEF Abandoned
  <2> QED BY <1>2, <2>1 DEF PauseAt, Pause, Caught
<1>4. PICK h : h = Here
  OBVIOUS
<1>5. PICK i \in Executors : i = Inner
  BY <1>2
<1>6. PICK o \in Executors : o = stack[1]
  BY <1>2
<1>7. NothingAhead(i)
  <2>1. ~Skips(i, i.at)
    BY <1>1, <1>5 DEF LoadsNode, Skips
  <2> QED BY <1>2, <1>5, <2>1, NothingIsAhead
<1>8. PICK from : from = Append(Labels(Len(stack)), h)
  OBVIOUS
<1>9. PICK saved : saved = SavedOutputs
  OBVIOUS
<1>10. PICK e : e = Executor(Top, treeJob')
  OBVIOUS
<1>11. /\ e.flow = Top /\ e.at = 1 /\ e.from = from /\ e.outputs = saved /\ e.before = (from # <<>>)
  BY <1>3, <1>4, <1>8, <1>9, <1>10 DEF Executor
<1>12. \A y \in o.done : <<y>> \in saved
  <2>1. Len(stack) > 0
    BY <1>2
  <2> QED BY <1>6, <1>9, <2>1, DoneIsSaved
<1>13. /\ tree.body[Top] \in Seq(TreeNodes) /\ tree.body[i.flow] \in Seq(TreeNodes)
       /\ o.at \in Nat /\ i.at \in Nat /\ o.flow = Top /\ i.flow \in Flows /\ Top \in Flows
       /\ \A c, d \in Flows : \A k \in DOMAIN tree.body[c], m \in DOMAIN tree.body[d] :
              tree.body[c][k] = tree.body[d][m] => c = d /\ k = m
  <2>1. \A x \in Executors : x.at \in Nat /\ x.flow \in Flows
    BY DEF Executors
  <2>2. o.flow = Top /\ Top \in Flows
    BY <1>2, <1>6 DEF Flows
  <2> QED BY <2>1, <2>2, TreesAreShaped DEF NestedInv
(* The replay comes to the node of the flow where it has to go in. *)
<1>14. PICK a \in DOMAIN tree.body[Top] : a = o.at
  <2>1. CASE Len(stack) = 1
    BY <1>1, <1>2, <1>5, <1>6, <2>1
  <2>2. CASE Len(stack) = 2
    BY <1>2, <1>6, <2>2
  <2> QED BY <1>2, <2>1, <2>2
<1>15. \/ Len(stack) = 1 /\ i = o /\ from = <<h>> /\ h = tree.body[Top][a]
       \/ Len(stack) = 2 /\ i = stack[2] /\ from = <<i.flow, h>> /\ i.flow = tree.body[Top][a] /\ NothingAhead(o)
          /\ i.at \in DOMAIN tree.body[i.flow] /\ h = tree.body[i.flow][i.at]
  <2>1. CASE Len(stack) = 1
    <3>1. from = <<h>>
      BY <1>8, <2>1, DoneIsSaved
    <3> QED BY <1>1, <1>2, <1>4, <1>5, <1>6, <1>14, <2>1, <3>1
  <2>2. CASE Len(stack) = 2
    <3>1. from = <<stack[2].flow, h>>
      BY <1>8, <2>2, DoneIsSaved
    <3> QED BY <1>1, <1>2, <1>4, <1>5, <1>6, <1>14, <2>2, <3>1
  <2> QED BY <1>2, <2>1, <2>2
<1>16. ASSUME NEW k \in DOMAIN tree.body[Top], k < a PROVE Skips(e, k)'
  <2>1. tree.body[Top][k] \in o.done
    BY <1>2, <1>6, <1>13, <1>14, <1>16 DEF HasDone
  <2>2. k # a
    BY <1>13, <1>16
  <2>3. tree.body[Top][k] # tree.body[Top][a]
    BY <1>13, <1>14, <2>2
  <2>4. \A x, y, z : <<x, y>> # <<z>> /\ <<x, y>> # <<>> /\ <<z>> # <<>> /\ (x # z => <<x>> # <<z>>)
    OBVIOUS
  <2>5. from # <<>> /\ from # <<tree.body[Top][k]>>
    BY <1>15, <2>3, <2>4, Zenon
  <2>6. <<tree.body[Top][k]>> \in saved
    BY <1>12, <2>1
  <2> QED BY <1>1, <1>11, <2>5, <2>6 DEF Skips
<1>17. \A k \in Int : k < a => SkipsTo(e, k)'
  <2> SUFFICES ASSUME NEW k \in Int, k < a, NEW m \in 1..k PROVE Skips(e, m)'
    BY <1>11 DEF SkipsTo
  <2>1. m \in DOMAIN tree.body[Top] /\ m < a
    BY <1>13, <1>14
  <2> QED BY <1>16, <2>1
<1>18. ASSUME NEW k \in DOMAIN tree.body[Top], k > a, NEW n, n = tree.body[Top][k]
       PROVE  effects[n] = 0 /\ (tree.kind[n] = "subflow" => Untouched(n))
  <2>1. NothingAhead(o)
    BY <1>7, <1>15
  <2>2. k > o.at /\ k >= o.at
    BY <1>13, <1>14, <1>18
  <2> QED BY <1>13, <1>18, <2>1, <2>2 DEF NothingAhead
<1>19. effects[tree.body[Top][a]] = 0
  <2>1. NothingAhead(o)
    BY <1>7, <1>15
  <2> QED BY <1>13, <1>14, <2>1 DEF NothingAhead
<1>20. ASSUME tree.kind[tree.body[Top][a]] = "subflow", NEW c, c = tree.body[Top][a],
              NEW m \in DOMAIN tree.body[c], effects[tree.body[c][m]] > 0
       PROVE  ResumesInside(e, a, m)'
  <2>1. Len(stack) = 2 /\ i = stack[2] /\ from = <<c, h>> /\ i.flow = c
        /\ i.at \in DOMAIN tree.body[c] /\ h = tree.body[c][i.at]
    BY <1>1, <1>4, <1>15, <1>20
  <2>2. m < i.at /\ m \in Nat
    <3>1. ~(m >= i.at)
      BY <1>7, <1>20, <2>1 DEF NothingAhead
    <3> QED BY <1>13, <2>1, <3>1
  <2>3. ASSUME NEW j \in 1..m PROVE <<c, tree.body[c][j]>> \in saved /\ h # tree.body[c][j]
    <3>1. j \in DOMAIN tree.body[c] /\ j < i.at /\ j # i.at
      BY <1>13, <2>1, <2>2
    <3>2. tree.body[c][j] \in i.done
      BY <1>2, <1>5, <2>1, <3>1 DEF HasDone
    <3>3. h # tree.body[c][j]
      BY <1>13, <2>1, <3>1
    <3> QED BY <1>9, <2>1, <3>2, <3>3, DoneIsSaved
  <2>4. Len(from) > 1 /\ Head(from) = c /\ from[2] = h /\ from # <<>>
    BY <2>1
  <2> QED BY <1>1, <1>11, <1>20, <2>3, <2>4 DEF ResumesInside
<1>21. RepeatsNothing(e)'
  <2> SUFFICES ASSUME NEW k \in DOMAIN tree.body[Top], NEW n, n = tree.body[Top][k]
               PROVE  /\ effects[n] > 0 => SkipsTo(e, k)'
                      /\ tree.kind[n] = "subflow" =>
                           \A m \in DOMAIN tree.body[n] : effects[tree.body[n][m]] > 0 =>
                             SkipsTo(e, k)' \/ (SkipsTo(e, k - 1)' /\ ResumesInside(e, k, m)')
    BY <1>1, <1>11 DEF RepeatsNothing
  <2>1. k \in Int /\ k - 1 \in Int /\ a \in Int
    BY <1>13
  <2>2. CASE k < a
    BY <1>17, <2>1, <2>2
  <2>3. CASE k > a
    BY <1>18, <2>3 DEF Untouched
  <2>4. CASE k = a
    <3>1. SkipsTo(e, k - 1)'
      BY <1>17, <2>1, <2>4
    <3>2. ~(effects[n] > 0)
      BY <1>19, <2>4
    <3> QED BY <1>20, <2>4, <3>1, <3>2
  <2> QED BY <2>1, <2>2, <2>3, <2>4
<1>22. PlainStack'
  BY <1>3, NoneIsPlain
<1>23. RepeatsNothing(Executor(Top, treeJob))'
  BY <1>10, <1>21
<1>24. \A x \in TreeNodes : effects[x] <= 1
  BY DEF OnceInv
<1> QED BY <1>1, <1>3, <1>22, <1>23, <1>24 DEF OnceInv

(* A failure ends a plain execution: nothing catches it, nothing strays.    *)
LEMMA ThrowOnce ==
  ASSUME NestedInv, OnceInv, Plain, NEW n \in TreeNodes, Throw(n)
  PROVE  OnceInv'
<1>1. Walking /\ mode = "walking" /\ UNCHANGED <<tree, effects, kills>>
  BY DEF Throw, Runs, Walking
<1>2. Inner.waiting = {} /\ stray = {} /\ Catching = 0
  BY <1>1, PlainWalk
<1>3. stray' = {} /\ stack' = <<>> /\ mode' = "failed"
  <2>1. Abandoned(n) = {}
    BY <1>2 DEF Abandoned
  <2> QED BY <1>2, <2>1 DEF Throw, Caught
<1>4. PlainStack'
  BY <1>3, NoneIsPlain
<1>5. \A x \in TreeNodes : effects[x] <= 1
  BY DEF OnceInv
<1> QED BY <1>1, <1>3, <1>4, <1>5 DEF OnceInv

(* A job is taken with the replay of its pause; decisions leave it as it is. *)
LEMMA JobOnce ==
  ASSUME NestedInv, OnceInv, Plain, StartJob \/ EndJob \/ ApprovePause \/ Elapse
  PROVE  OnceInv'
<1>1. /\ stray = {} /\ \A x \in TreeNodes : effects[x] <= 1
      /\ UNCHANGED <<tree, stray, effects, kills>> /\ treeJob \in RunOptions
  BY DEF OnceInv, StartJob, EndJob, ApprovePause, Elapse, NestedInv, NestedTypes
<1>2. PICK e : e = Executor(Top, treeJob)
  OBVIOUS
<1>3. /\ e \in Executors /\ e.flow = Top /\ e.at = 1 /\ e.done = {} /\ e.waiting = {}
      /\ e.before = (treeJob.from # <<>>) /\ e.from = treeJob.from /\ e.outputs = treeJob.outputs
  BY <1>1, <1>2, FreshIsTyped DEF Flows
<1>4. mode \in {"queued", "awaiting", "delayed"} => RepeatsNothing(e)
  BY <1>2 DEF OnceInv
<1>5. CASE StartJob
  <2>1. stack' = <<e>> /\ mode = "queued" /\ mode' = "walking"
    BY <1>2, <1>5 DEF StartJob
  <2>2. Len(stack') = 1 /\ DOMAIN stack' = 1..1 /\ stack'[1] = e
    BY <2>1
  <2>3. RepeatsNothing(e)'
    BY <1>1, <1>4, <2>1, SameRepeats
  <2>4. HasDone(e)'
    <3>1. tree.body[Top] \in Seq(TreeNodes)
      BY TreesAreShaped DEF NestedInv, Flows
    <3>2. \A k \in DOMAIN tree.body[Top] : ~(k < 1)
      BY <3>1
    <3> QED BY <1>1, <1>3, <3>2 DEF HasDone
  <2>5. PlainStack'
    BY <1>3, <2>2, <2>3, <2>4, OneIsPlain
  <2> QED BY <1>1, <2>1, <2>5 DEF OnceInv
<1>6. CASE EndJob
  <2>1. stack' = <<>> /\ mode' = "completed"
    BY <1>6 DEF EndJob
  <2> QED BY <1>1, <2>1, NoneIsPlain DEF OnceInv
<1>7. CASE ApprovePause \/ Elapse
  <2>1. stack' = <<>> /\ mode \in {"queued", "awaiting", "delayed"}
    BY <1>7 DEF ApprovePause, Elapse, NestedInv, NestedTypes
  <2>2. treeJob'.from = treeJob.from /\ treeJob'.outputs = treeJob.outputs
    <3>1. \A s : LET j == [treeJob EXCEPT !.approval = s, !.approved = TRUE] IN
                 j.from = treeJob.from /\ j.outputs = treeJob.outputs
      BY <1>1 DEF RunOptions
    <3> QED BY <1>7, <3>1 DEF ApprovePause, Elapse
  <2>3. PICK f : f = Executor(Top, treeJob')
    OBVIOUS
  <2>4. f.flow = Top /\ f.at = 1 /\ f.from = e.from /\ f.outputs = e.outputs /\ f.before = e.before
    BY <1>3, <2>2, <2>3 DEF Executor
  <2>5. RepeatsNothing(f)'
    BY <1>1, <1>3, <1>4, <2>1, <2>4, SameRepeats
  <2>6. RepeatsNothing(Executor(Top, treeJob))'
    BY <2>3, <2>5
  <2>7. PlainStack'
    BY <2>1, NoneIsPlain
  <2> QED BY <1>1, <2>6, <2>7 DEF OnceInv
<1> QED BY <1>5, <1>6, <1>7

LEMMA OnceStarts ==
  ASSUME NestedInit
  PROVE  OnceInv
<1>1. NestedInv
  BY NestedStarts
<1>2. /\ stack = <<>> /\ stray = {} /\ mode = "queued" /\ treeJob.outputs = {}
      /\ \A x \in TreeNodes : effects[x] = 0
  BY DEF NestedInit, NoJob
<1>3. Len(stack) = 0 /\ DOMAIN stack = {}
  BY <1>2
<1>4. PlainStack
  BY <1>3 DEF PlainStack
<1>5. RepeatsNothing(Executor(Top, treeJob))
  <2> PICK e : e = Executor(Top, treeJob)
    OBVIOUS
  <2>1. e.flow = Top
    BY DEF Executor
  <2>2. \A k \in DOMAIN tree.body[Top] :
          /\ tree.body[Top][k] \in TreeNodes
          /\ \A m \in DOMAIN tree.body[tree.body[Top][k]] : tree.body[tree.body[Top][k]][m] \in TreeNodes
    BY <1>1, TreesAreShaped DEF NestedInv, Flows
  <2>3. RepeatsNothing(e)
    <3>1. \A x \in TreeNodes : ~(effects[x] > 0)
      BY <1>2
    <3> QED BY <2>1, <2>2, <3>1 DEF RepeatsNothing
  <2> QED BY <2>3
<1> QED BY <1>2, <1>4, <1>5 DEF OnceInv

LEMMA OnceKeeps ==
  ASSUME NestedInv, OnceInv, NestedNext
  PROVE  OnceInv'
<1>1. CASE ~Plain'
  BY <1>1 DEF OnceInv
<1>2. CASE Plain'
  <2>1. ~Kill
    <3>1. kills \in Nat /\ kills' = 0
      BY <1>2 DEF NestedInv, NestedTypes, Plain
    <3> QED BY <3>1 DEF Kill
  <2>2. tree' = tree /\ kills' = kills
    BY <2>1 DEF NestedNext, StartJob, EndJob, ApprovePause, Elapse, Load, RunNode, PassPoint, PauseAt,
                EnterParallel, RunStray, RunSubNode, PauseSubNode, Throw, EnterSubflow, LeaveSubflow,
                EnterLoop, EndItem
  <2>3. Plain
    BY <1>2, <2>2 DEF Plain
  <2>4. ~EnterParallel /\ ~EnterLoop
    <3>1. Walking => tree.kind[Here] \notin {"parallel", "loop"}
      BY <2>3, HereIsTyped DEF Plain
    <3> QED BY <3>1 DEF EnterParallel, EnterLoop, Runs
  <2>5. ~EndItem
    <3>1. ASSUME EndItem PROVE FALSE
      <4>1. mode = "walking" /\ Len(stack) > 1 /\ tree.kind[Inner.flow] = "loop"
        BY <3>1 DEF EndItem, Ended
      <4>2. Len(stack) \in {1, 2} /\ (Len(stack) = 2 => tree.kind[Inner.flow] = "subflow")
        BY <2>3, <4>1, PlainWalk
      <4>3. Len(stack) = 2
        <5>1. Len(stack) \in {1, 2} /\ Len(stack) > 1
          BY <4>1, <4>2
        <5> QED BY <5>1
      <4> QED BY <4>1, <4>2, <4>3
    <3> QED BY <3>1
  <2>6. ~RunStray
    BY <2>3 DEF RunStray, OnceInv
  <2>7. ASSUME NEW n \in TreeNodes PROVE ~RunSubNode(n) /\ ~PauseSubNode(n)
    <3>1. Walking => Inner.waiting = {}
      BY <2>3, PlainWalk DEF Walking
    <3> QED BY <3>1 DEF RunSubNode, PauseSubNode
  <2> QED BY <2>1, <2>3, <2>4, <2>5, <2>6, <2>7, PassingKeepsOnce, PauseAtOnce, ThrowOnce, JobOnce,
             EnterSubflowOnce, LeaveSubflowOnce DEF NestedNext
<1> QED BY <1>1, <1>2

(* No step runs twice of a flow that holds no loops and no parallel nodes,  *)
(* nor of its subflows if they hold none themselves, however many gates and *)
(* delays interrupt it, as long as no worker is killed: whatever ran before *)
(* the place an executor has come to is loaded on the way there.            *)
THEOREM StepsNeverRunTwice == NestedSpec => []StepsRunOnce
<1>1. ASSUME NestedInv, OnceInv, UNCHANGED nestedVars PROVE OnceInv'
  <2>1. UNCHANGED <<tree, stack, mode, treeJob, stray, effects, kills>>
    BY <1>1 DEF nestedVars
  <2>2. \A e : RepeatsNothing(e) => RepeatsNothing(e)'
    BY <2>1, SameRepeats
  <2>3. \A e : (NothingAhead(e) => NothingAhead(e)') /\ (HasDone(e) => HasDone(e)')
    BY <2>1 DEF NothingAhead, HasDone, Untouched
  <2>4. PlainStack => PlainStack'
    BY <2>1, <2>2, <2>3, Zenon DEF PlainStack
  <2>5. RepeatsNothing(Executor(Top, treeJob)) => RepeatsNothing(Executor(Top, treeJob))'
    BY <2>1, <2>2
  <2>6. Plain' => Plain
    BY <2>1 DEF Plain
  <2> QED BY <1>1, <2>1, <2>4, <2>5, <2>6 DEF OnceInv
<1>2. OnceInv => StepsRunOnce
  BY DEF OnceInv, StepsRunOnce
<1>3. NestedSpec => []OnceInv
  <2>1. NestedInit => OnceInv
    BY OnceStarts
  <2>2. NestedInv /\ OnceInv /\ [NestedNext]_nestedVars => OnceInv'
    BY <1>1, OnceKeeps
  <2> QED BY <2>1, <2>2, NestedInvHolds, PTL DEF NestedSpec
<1> QED BY <1>2, <1>3, PTL

-------------------------------------------------------------------------------
(* Agents: what is put in front of the next text is all that was cut, and   *)
(* the output begins with it, whatever came in between.                    *)
BeginsWith(s, t) == Len(t) <= Len(s) /\ \A i \in 1..Len(t) : s[i] = t[i]

AgentInv ==
  /\ answers \in Nat /\ {final, partial, cut} \subseteq Seq(1..answers)
  /\ partial = cut /\ BeginsWith(final, cut)
  /\ phase \in {"calling", "tools", "done", "thrown", "aborted"}
  /\ phase \in {"calling", "tools"} => failures \in 0..1
  /\ failures \in 0..2 /\ continuations \in 0..MaxContinuations /\ trims \in 0..MaxTrims
  /\ messages \in Nat \ {0} /\ structured \in BOOLEAN
  /\ \A v \in DOMAIN hub : hub[v] \in {"none", "live", "dead"}

LEMMA AgentStarts == AgentInit => AgentInv
<1> SUFFICES ASSUME AgentInit PROVE AgentInv
  OBVIOUS
<1>1. <<>> \in Seq(1..0) /\ Len(<<>>) = 0
  OBVIOUS
<1>2. BeginsWith(<<>>, <<>>)
  BY <1>1 DEF BeginsWith
<1>3. \A v \in DOMAIN hub : hub[v] \in {"none", "live", "dead"}
  BY DEF AgentInit
<1>4. /\ answers = 0 /\ final = <<>> /\ partial = <<>> /\ cut = <<>> /\ failures = 0 /\ continuations = 0
      /\ trims = 0 /\ messages = 1 /\ structured = FALSE /\ phase = "calling"
  BY DEF AgentInit
<1>5. {final, partial, cut} \subseteq Seq(1..answers)
  BY <1>1, <1>4
<1>6. BeginsWith(final, cut) /\ partial = cut
  BY <1>2, <1>4, Zenon
<1>7. /\ phase = "calling" /\ answers \in Nat /\ failures \in 0..1 /\ failures \in 0..2
      /\ continuations \in 0..MaxContinuations /\ trims \in 0..MaxTrims
      /\ messages \in Nat \ {0} /\ structured \in BOOLEAN
  <2>1. /\ phase = "calling" /\ answers = 0 /\ failures = 0 /\ continuations = 0 /\ trims = 0
        /\ messages = 1 /\ structured = FALSE
    BY DEF AgentInit
  <2>2. answers \in Nat /\ failures \in 0..1 /\ failures \in 0..2 /\ messages \in Nat \ {0}
    BY <2>1
  <2>3. continuations \in 0..MaxContinuations /\ trims \in 0..MaxTrims
    BY <2>1 DEF MaxContinuations, MaxTrims
  <2> QED BY <2>1, <2>2, <2>3, Zenon
<1> QED BY <1>3, <1>5, <1>6, <1>7 DEF AgentInv

(* The text of an answer, put behind all that was cut.                      *)
LEMMA TextsGrow ==
  ASSUME AgentInv, NEW given \in BOOLEAN, answers' = answers + (IF given THEN 1 ELSE 0)
  PROVE  /\ answers' \in Nat /\ {final, partial, cut} \subseteq Seq(1..answers')
         /\ Said(given) \in Seq(1..answers') /\ cut \o Text(given) \in Seq(1..answers')
         /\ partial \o Text(given) = cut \o Text(given)
         /\ BeginsWith(Said(given), cut) /\ BeginsWith(Said(given), cut \o Text(given))
<1>1. answers \in Nat /\ answers' \in Nat /\ 1..answers \subseteq 1..answers' /\ partial = cut
  BY DEF AgentInv
<1>2. \A s \in Seq(1..answers) : s \in Seq(1..answers')
  <2> SUFFICES ASSUME NEW s \in Seq(1..answers) PROVE s \in Seq(1..answers')
    OBVIOUS
  <2>1. Len(s) \in Nat /\ s \in [1..Len(s) -> 1..answers]
    BY LenProperties
  <2>2. s \in [1..Len(s) -> 1..answers']
    BY <1>1, <2>1
  <2> QED BY <2>1, <2>2, SeqDef
<1>3. {final, partial, cut} \subseteq Seq(1..answers')
  BY <1>2 DEF AgentInv
<1>4. CASE given
  <2>1. PICK t : t = <<answers + 1>>
    OBVIOUS
  <2>2. t \in Seq(1..answers') /\ Text(given) = t /\ Said(given) = cut \o t /\ Len(t) = 1
    <3>1. answers + 1 \in 1..answers'
      BY <1>1, <1>4
    <3>2. \A S : \A x \in S : <<x>> \in Seq(S) /\ Len(<<x>>) = 1
      OBVIOUS
    <3> QED BY <1>1, <1>4, <2>1, <3>1, <3>2, Zenon DEF Text, Said
  <2>3. PICK c : c = cut \o t
    OBVIOUS
  <2>4. /\ c \in Seq(1..answers') /\ Len(c) = Len(cut) + 1 /\ \A i \in 1..Len(cut) : c[i] = cut[i]
        /\ Len(cut) \in Nat
    <3>1. cut \in Seq(1..answers')
      BY <1>3
    <3>2. /\ c \in Seq(1..answers') /\ Len(c) = Len(cut) + Len(t)
          /\ \A i \in 1..Len(cut) + Len(t) : c[i] = IF i <= Len(cut) THEN cut[i] ELSE t[i - Len(cut)]
      BY <2>2, <2>3, <3>1, ConcatProperties
    <3>3. PICK n \in Nat : n = Len(cut)
      BY <3>1, LenProperties
    <3>4. \A i \in 1..n : i \in 1..n + 1 /\ i <= n
      BY <3>3
    <3> QED BY <2>2, <3>2, <3>3, <3>4
  <2>5. BeginsWith(c, cut) /\ BeginsWith(c, c)
    BY <2>4 DEF BeginsWith
  <2> QED BY <1>1, <1>3, <2>2, <2>3, <2>4, <2>5
<1>5. CASE ~given
  <2>1. Text(given) = <<>> /\ Said(given) = final
    BY <1>5 DEF Text, Said
  <2>2. cut \o <<>> = cut
    BY <1>3, ConcatEmptySeq
  <2> QED BY <1>1, <1>3, <2>1, <2>2 DEF AgentInv
<1> QED BY <1>4, <1>5

LEMMA AnswersKeep ==
  ASSUME AgentInv, AnswerWithText \/ AnswerWithCalls
  PROVE  AgentInv'
<1>1. CASE AnswerWithText
  <2>1. PICK given \in BOOLEAN, limited \in BOOLEAN :
       /\ answers' = answers + (IF given THEN 1 ELSE 0)
       /\ final' = Said(given)
       /\ IF IsCut(StopReason(limited)) /\ continuations < MaxContinuations
          THEN Continue(given)
          ELSE phase' = "done" /\ UNCHANGED <<continuations, partial, cut, messages>>
    BY <1>1 DEF AnswerWithText
  <2>2. UNCHANGED <<toolCalls, structured, hub, deaths, trims>> /\ failures' = 0 /\ phase = "calling"
    BY <1>1 DEF AnswerWithText, working
  <2>3. CASE Continue(given) /\ continuations < MaxContinuations
    <3>1. /\ partial' = cut' /\ cut' = cut \o Text(given) /\ {final', partial', cut'} \subseteq Seq(1..answers')
          /\ BeginsWith(final', cut') /\ answers' \in Nat
      BY <2>1, <2>3, TextsGrow DEF Continue
    <3>2. /\ continuations' \in 0..MaxContinuations /\ messages' \in Nat \ {0} /\ phase' = phase
      BY <2>3 DEF Continue, AgentInv, MaxContinuations
    <3> QED BY <2>2, <3>1, <3>2 DEF AgentInv, BeginsWith
  <2>4. CASE phase' = "done" /\ UNCHANGED <<continuations, partial, cut, messages>>
    <3>1. {final', partial', cut'} \subseteq Seq(1..answers') /\ BeginsWith(final', cut) /\ answers' \in Nat
      BY <2>1, <2>4, TextsGrow
    <3> QED BY <2>2, <2>4, <3>1 DEF AgentInv, BeginsWith
  <2> QED BY <2>1, <2>3, <2>4
<1>2. CASE AnswerWithCalls
  <2>1. PICK given \in BOOLEAN : final' = Said(given) /\ answers' = answers + (IF given THEN 1 ELSE 0)
    BY <1>2 DEF AnswerWithCalls
  <2>2. /\ UNCHANGED <<partial, cut, continuations, trims, structured, hub>> /\ failures' = 0 /\ phase' = "tools"
        /\ messages' = messages + 1
    BY <1>2 DEF AnswerWithCalls
  <2>3. {final', partial', cut'} \subseteq Seq(1..answers') /\ BeginsWith(final', cut) /\ answers' \in Nat
    BY <2>1, <2>2, TextsGrow
  <2> QED BY <2>2, <2>3 DEF AgentInv, BeginsWith
<1> QED BY <1>1, <1>2

LEMMA RecoveriesKeep ==
  ASSUME AgentInv, Overflow \/ CallFails \/ AbortAgent
  PROVE  AgentInv'
<1>0. KeepRecent \in Nat
  BY AgentAssumption
<1>1. CASE Overflow
  BY <1>0, <1>1 DEF Overflow, AgentInv, BeginsWith, texts, working, MaxTrims, MaxContinuations
<1>2. CASE CallFails
  BY <1>2 DEF CallFails, AgentInv, BeginsWith, texts, working, MaxTrims, MaxContinuations
<1>3. CASE AbortAgent
  BY <1>3 DEF AbortAgent, AgentInv, BeginsWith, texts, working, recoveries
<1> QED BY <1>1, <1>2, <1>3

LEMMA ToolsKeep ==
  ASSUME AgentInv, \/ CarryOut \/ ConnectFails \/ TakeStructured \/ EndRoundOfTools
                   \/ \E v \in DOMAIN hub : ServerEnds(v)
  PROVE  AgentInv'
<1>2. \A w \in DOMAIN hub, s \in {"none", "live", "dead"} :
        \A v \in DOMAIN [hub EXCEPT ![w] = s] : [hub EXCEPT ![w] = s][v] \in {"none", "live", "dead"}
  BY DEF AgentInv
<1>3. CASE CarryOut
  <2>1. hub' = hub \/ \E w \in DOMAIN hub : hub' = [hub EXCEPT ![w] = Connected(w)]
    BY <1>3 DEF CarryOut
  <2>2. \A w \in DOMAIN hub : Connected(w) \in {"none", "live", "dead"}
    BY DEF Connected, AgentInv
  <2>3. \A v \in DOMAIN hub' : hub'[v] \in {"none", "live", "dead"}
    <3>1. CASE hub' = hub
      BY <3>1 DEF AgentInv
    <3>2. ASSUME NEW w \in DOMAIN hub, hub' = [hub EXCEPT ![w] = Connected(w)]
          PROVE  \A v \in DOMAIN hub' : hub'[v] \in {"none", "live", "dead"}
      <4>1. PICK s \in {"none", "live", "dead"} : s = Connected(w)
        BY <2>2
      <4> QED BY <1>2, <3>2, <4>1
    <3> QED BY <2>1, <3>1, <3>2
  <2> QED BY <1>3, <2>3 DEF CarryOut, AgentInv, BeginsWith, texts, recoveries
<1>4. CASE ConnectFails
  <2>1. hub' = hub \/ \E w \in DOMAIN hub : hub' = [hub EXCEPT ![w] = "live"]
    BY <1>4 DEF ConnectFails
  <2>2. \A v \in DOMAIN hub' : hub'[v] \in {"none", "live", "dead"}
    BY <1>2, <2>1 DEF AgentInv
  <2> QED BY <1>4, <2>2 DEF ConnectFails, AgentInv, BeginsWith, texts, recoveries
<1>5. CASE TakeStructured
  BY <1>5 DEF TakeStructured, AgentInv, BeginsWith, texts, recoveries
<1>6. CASE EndRoundOfTools
  BY <1>6 DEF EndRoundOfTools, AgentInv, BeginsWith, texts, recoveries, working
<1>7. ASSUME NEW v \in DOMAIN hub, ServerEnds(v) PROVE AgentInv'
  <2>1. hub' = [hub EXCEPT ![v] = "dead"]
    BY <1>7 DEF ServerEnds
  <2>2. \A w \in DOMAIN hub' : hub'[w] \in {"none", "live", "dead"}
    BY <1>2, <2>1 DEF AgentInv
  <2> QED BY <1>7, <2>2 DEF ServerEnds, AgentInv, BeginsWith, texts, recoveries
<1> QED BY <1>3, <1>4, <1>5, <1>6, <1>7

LEMMA AgentInvHolds == AgentSpec => []AgentInv
<1>1. AgentInv /\ [AgentNext]_agentVars => AgentInv'
  <2>1. ASSUME AgentInv, UNCHANGED agentVars PROVE AgentInv'
    BY <2>1 DEF agentVars, AgentInv, BeginsWith
  <2> QED BY <2>1, AnswersKeep, RecoveriesKeep, ToolsKeep DEF AgentNext, AgentStep
<1> QED BY <1>1, AgentStarts, PTL DEF AgentSpec

(* The texts, the counters and the connections of an agent keep their types. *)
THEOREM AgentsAreTyped == AgentSpec => []AgentTypeOK
<1>1. AgentInv => AgentTypeOK
  BY DEF AgentInv, AgentTypeOK
<1> QED BY <1>1, AgentInvHolds, PTL

(* An agent's output begins with every text that was cut, in their order.   *)
THEOREM CutTextsAreKept == AgentSpec => []NothingTruncatedIsLost
<1>1. ASSUME AgentInv PROVE NothingTruncatedIsLost
  <2>1. final \in Seq(1..answers) /\ cut \in Seq(1..answers) /\ BeginsWith(final, cut)
    BY <1>1 DEF AgentInv
  <2>2. Len(cut) \in Nat /\ Len(final) \in Nat /\ Len(cut) <= Len(final) /\ \A i \in 1..Len(cut) : final[i] = cut[i]
    BY <2>1 DEF BeginsWith
  <2>3. PICK s : s = SubSeq(final, 1, Len(cut))
    OBVIOUS
  <2>4. s \in Seq(1..answers) /\ Len(s) = Len(cut) /\ \A i \in 1..Len(cut) : s[i] = final[i]
    <3>1. PICK n \in Nat : n = Len(cut)
      BY <2>2
    <3>2. \A i \in 1..n : final[i] \in 1..answers
      <4>1. \A i \in 1..n : i \in 1..Len(final)
        BY <2>2, <3>1
      <4> QED BY <2>1, <4>1, ElementOfSeq
    <3>3. /\ SubSeq(final, 1, n) \in Seq(1..answers)
          /\ Len(SubSeq(final, 1, n)) = IF 1 <= n THEN n - 1 + 1 ELSE 0
          /\ \A i \in 1..(n - 1 + 1) : SubSeq(final, 1, n)[i] = final[1 + i - 1]
      BY <3>1, <3>2, SubSeqProperties
    <3>4. (IF 1 <= n THEN n - 1 + 1 ELSE 0) = n /\ n - 1 + 1 = n /\ \A i \in 1..n : 1 + i - 1 = i
      BY <3>1
    <3> QED BY <2>3, <3>1, <3>3, <3>4
  <2>5. s = cut
    BY <2>1, <2>2, <2>4, SeqEqual
  <2> QED BY <2>2, <2>3, <2>5 DEF NothingTruncatedIsLost
<1> QED BY <1>1, AgentInvHolds, PTL

-------------------------------------------------------------------------------
(* The environment of a run: what its job and the secrets and vaults it     *)
(* found make of it. A delayed job is made of the same.                    *)
SecretWith(owner, now) == IF now[1][owner] = None THEN None ELSE <<owner, now[1][owner]>>
VaultWith(group, now) ==
  IF group # None /\ now[2][group] # None THEN now[2][group]
  ELSE IF now[3] = {} THEN None ELSE CHOOSE v \in now[3] : TRUE
VaultValueWith(group, now) == IF VaultWith(group, now) = None THEN None ELSE <<"vault", VaultWith(group, now)>>
OwnWith(kind, group, now) ==
  CASE kind = "static" -> <<"flow's text", 0>>
    [] kind = "core_secret" -> SecretWith("app", now)
    [] kind = "cyberark" -> VaultValueWith(group, now)
OverridingWith(kind, group, now) ==
  CASE kind = "static" -> <<"caller's text", 0>>
    [] kind = "core_secret" ->
         IF now[1]["flow"] # None THEN SecretWith("flow", now)
         ELSE IF group # None /\ now[1][group] # None THEN SecretWith(group, now) ELSE SecretWith("app", now)
    [] kind = "cyberark" -> VaultValueWith(group, now)
EnvironmentWith(vars, group, overrides, now) ==
  [n \in EnvNames |->
    IF vars = None \/ vars[n] = None THEN None
    ELSE LET own == OwnWith(vars[n], group, now)
             over == overrides[n]
         IN IF over # None /\ OverridingWith(over, group, now) # None
            THEN OverridingWith(over, group, now) ELSE own]
MadeOf(run, job) == run.of = EnvironmentWith(job.vars, job.group, job.overrides, run.from)

EnvJobs == [vars : Overrides \cup {None}, group : EnvGroups \cup {None}, overrides : Overrides,
            attempt : 1..MaxAttempts]
RunRows == [overrides : Overrides, snapshot : BOOLEAN, waits : BOOLEAN]

EnvTypes ==
  /\ flowRow \in [vars : Overrides, group : EnvGroups \cup {None}]
  /\ envWrites \in Nat /\ envWrites <= MaxEnvWrites /\ DOMAIN secretAt = SecretScopes
  /\ \A o \in SecretScopes : secretAt[o] = None \/ secretAt[o] \in 0..envWrites
  /\ connected \subseteq EnvVaults /\ resumed \in {"delay", "approval", None}
  /\ envJob = None \/ envJob \in EnvJobs
  /\ runRow = None \/ runRow \in RunRows
EnvInv ==
  /\ EnvTypes
  /\ runRow = None => envJob = None /\ resumed = None
  /\ runRow # None /\ runRow.waits => envJob = None /\ resumed = "approval"
  /\ env # None => envJob # None /\ MadeOf(env, envJob)
  /\ resumed = "delay" /\ envJob # None => MadeOf(earlier, envJob)

LEMMA EnvironmentIsMade ==
  ASSUME NEW job
  PROVE  Environment(job) = EnvironmentWith(job.vars, job.group, job.overrides, secretsNow)
<1>1. \A o : SecretIn(o) = SecretWith(o, secretsNow)
  BY DEF SecretIn, SecretWith, secretsNow
<1>2. \A g : VaultValue(g) = VaultValueWith(g, secretsNow)
  BY DEF VaultValue, VaultValueWith, VaultFor, VaultWith, secretsNow
<1>3. \A k, g : OwnValue(k, g) = OwnWith(k, g, secretsNow)
  BY <1>1, <1>2 DEF OwnValue, OwnWith
<1>4. \A k, g : OverridingValue(k, g) = OverridingWith(k, g, secretsNow)
  <2>1. secretsNow[1] = secretAt
    BY DEF secretsNow
  <2> QED BY <1>1, <1>2, <2>1 DEF OverridingValue, OverridingWith
<1> QED BY <1>3, <1>4 DEF Environment, EnvironmentWith

LEMMA JobsAreTyped ==
  ASSUME NEW vars \in Overrides \cup {None}, NEW group \in EnvGroups \cup {None}, NEW overrides \in Overrides
  PROVE  LET j == JobWith(vars, group, overrides) IN
         /\ j \in EnvJobs /\ j.vars = vars /\ j.group = group /\ j.overrides = overrides
         /\ [j EXCEPT !.attempt = MaxAttempts] \in EnvJobs
<1> QED BY RunEnvironmentAssumption DEF JobWith, EnvJobs

LEMMA JobsHaveParts ==
  \A vars \in Overrides \cup {None}, group \in EnvGroups \cup {None}, overrides \in Overrides :
    /\ JobWith(vars, group, overrides) \in EnvJobs
    /\ JobWith(vars, group, overrides).vars = vars
    /\ JobWith(vars, group, overrides).group = group
    /\ JobWith(vars, group, overrides).overrides = overrides
<1> QED BY RunEnvironmentAssumption DEF JobWith, EnvJobs

LEMMA EnvStarts == EnvInit => EnvInv
<1> SUFFICES ASSUME EnvInit PROVE EnvInv
  OBVIOUS
<1>1. envWrites \in Nat /\ envWrites <= MaxEnvWrites /\ 0 \in 0..envWrites
  BY RunEnvironmentAssumption DEF EnvInit
<1>2. flowRow \in [vars : Overrides, group : EnvGroups \cup {None}]
  BY DEF EnvInit, Overrides
<1>3. DOMAIN secretAt = SecretScopes /\ \A o \in SecretScopes : secretAt[o] = None \/ secretAt[o] \in 0..envWrites
  BY <1>1 DEF EnvInit
<1>4. connected \subseteq EnvVaults /\ runRow = None /\ envJob = None /\ env = None /\ resumed = None
  BY DEF EnvInit
<1> QED BY <1>1, <1>2, <1>3, <1>4 DEF EnvInv, EnvTypes

LEMMA NewRunKeeps ==
  ASSUME EnvInv, NEW o \in Overrides, FireRun \/ CallForRun(o) \/ \E ofCanvas \in BOOLEAN : StartRun(o, ofCanvas)
  PROVE  EnvInv'
<1>1. NoOverrides \in Overrides
  BY DEF NoOverrides, Overrides
<1>2. flowRow.vars \in Overrides /\ flowRow.group \in EnvGroups \cup {None}
  BY DEF EnvInv, EnvTypes
<1>3. runRow = None /\ envJob = None /\ resumed = None /\ env = None
  BY DEF EnvInv, FireRun, CallForRun, StartRun
<1>4. envJob' \in EnvJobs
  <2>1. CASE FireRun
    BY <1>1, <1>2, <2>1, JobsAreTyped DEF FireRun
  <2>2. CASE CallForRun(o)
    BY <1>2, <2>2, JobsAreTyped DEF CallForRun
  <2>3. ASSUME NEW ofCanvas \in BOOLEAN, StartRun(o, ofCanvas) PROVE envJob' \in EnvJobs
    <3>1. PICK g \in EnvGroups \cup {None} : g = IF ofCanvas THEN None ELSE flowRow.group
      BY <1>2
    <3> QED BY <1>2, <2>3, <3>1, JobsAreTyped DEF StartRun
  <2> QED BY <2>1, <2>2, <2>3
<1>5. /\ \E r \in Overrides, b \in BOOLEAN : runRow' = [overrides |-> r, snapshot |-> b, waits |-> FALSE]
      /\ UNCHANGED <<storedEnv, env, earlier, resumed, envWrites>>
  BY <1>1 DEF FireRun, CallForRun, StartRun
<1>6. runRow' \in RunRows /\ ~runRow'.waits /\ runRow' # None
  <2>1. PICK r \in Overrides, b \in BOOLEAN : runRow' = [overrides |-> r, snapshot |-> b, waits |-> FALSE]
    BY <1>5
  <2>2. runRow' \in RunRows /\ ~runRow'.waits
    BY <2>1 DEF RunRows
  <2> QED BY <2>2, EnvNoneAssumption DEF RunRows
<1>7. EnvTypes'
  BY <1>4, <1>5, <1>6 DEF EnvInv, EnvTypes, storedEnv, secretsNow
<1>8. resumed' = None /\ env' = None
  BY <1>3, <1>5
<1>9. resumed' # "delay"
  BY <1>8, EnvNoneAssumption
<1> QED BY <1>6, <1>7, <1>8, <1>9 DEF EnvInv

LEMMA ResolveKeepsEnv ==
  ASSUME EnvInv, ResolveEnvironment
  PROVE  EnvInv'
<1>1. /\ envJob # None /\ env' = [of |-> Environment(envJob), from |-> secretsNow]
      /\ UNCHANGED <<storedEnv, runRow, envJob, earlier, resumed, envWrites>>
  BY DEF ResolveEnvironment
<1>2. env'.of = EnvironmentWith(envJob.vars, envJob.group, envJob.overrides, secretsNow) /\ env'.from = secretsNow
  BY <1>1, EnvironmentIsMade
<1>3. MadeOf(env', envJob')
  BY <1>1, <1>2 DEF MadeOf
<1>4. EnvTypes'
  BY <1>1 DEF EnvInv, EnvTypes, storedEnv, secretsNow
<1>5. resumed' = "delay" /\ envJob' # None => MadeOf(earlier', envJob')
  BY <1>1 DEF EnvInv, MadeOf
<1> QED BY <1>1, <1>3, <1>4, <1>5 DEF EnvInv

(* A job that is tried again or delayed carries what it carried.            *)
LEMMA SameJobMakesSame ==
  ASSUME NEW j \in EnvJobs, NEW k, k.vars = j.vars, k.group = j.group, k.overrides = j.overrides, NEW run, MadeOf(run, j)
  PROVE  MadeOf(run, k)
<1> QED BY DEF MadeOf

LEMMA FailKeepsEnv ==
  ASSUME EnvInv, FailRun
  PROVE  EnvInv'
<1>1. envJob # None /\ env' = None /\ UNCHANGED <<storedEnv, runRow, earlier, resumed, envWrites>>
  BY DEF FailRun
<1>2. envJob \in EnvJobs
  BY <1>1 DEF EnvInv, EnvTypes
<1>3. CASE envJob.attempt < MaxAttempts /\ envJob' = [envJob EXCEPT !.attempt = @ + 1]
  <2>1. envJob.attempt + 1 \in 1..MaxAttempts
    BY <1>2, <1>3, RunEnvironmentAssumption DEF EnvJobs
  <2>2. \A a \in 1..MaxAttempts : LET k == [envJob EXCEPT !.attempt = a] IN
          k \in EnvJobs /\ k.vars = envJob.vars /\ k.group = envJob.group /\ k.overrides = envJob.overrides
    BY <1>2 DEF EnvJobs
  <2>3. /\ envJob' \in EnvJobs /\ envJob'.vars = envJob.vars /\ envJob'.group = envJob.group
        /\ envJob'.overrides = envJob.overrides
    BY <1>3, <2>1, <2>2
  <2>4. EnvTypes'
    BY <1>1, <2>3 DEF EnvInv, EnvTypes, storedEnv, secretsNow
  <2>5. resumed' = "delay" => MadeOf(earlier', envJob')
    BY <1>1, <1>2, <2>3, SameJobMakesSame DEF EnvInv
  <2> QED BY <1>1, <2>4, <2>5 DEF EnvInv
<1>4. CASE envJob' = None
  <2>1. EnvTypes'
    BY <1>1, <1>4 DEF EnvInv, EnvTypes, storedEnv, secretsNow
  <2> QED BY <1>1, <1>4, <2>1 DEF EnvInv
<1> QED BY <1>3, <1>4 DEF FailRun

LEMMA PausesKeepEnv ==
  ASSUME EnvInv, PauseRunForDelay \/ PauseRunForApproval
  PROVE  EnvInv'
<1>1. /\ envJob # None /\ env # None /\ earlier' = env /\ env' = None
      /\ UNCHANGED <<storedEnv, envWrites>>
  BY DEF PauseRunForDelay, PauseRunForApproval, EndForPause
<1>2. envJob \in EnvJobs /\ runRow \in RunRows /\ MadeOf(env, envJob)
  BY <1>1 DEF EnvInv, EnvTypes
<1>3. CASE PauseRunForDelay
  <2>1. envJob' = DelayedJob(envJob) /\ resumed' = "delay" /\ runRow' = runRow
    BY <1>3 DEF PauseRunForDelay, EndForPause
  <2>2. envJob.vars \in Overrides \cup {None} /\ envJob.group \in EnvGroups \cup {None} /\ envJob.overrides \in Overrides
    BY <1>2 DEF EnvJobs
  <2>3. /\ envJob' \in EnvJobs /\ envJob'.vars = envJob.vars /\ envJob'.group = envJob.group
        /\ envJob'.overrides = envJob.overrides
    <3>1. envJob' = JobWith(envJob.vars, envJob.group, envJob.overrides)
      BY <2>1 DEF DelayedJob
    <3>2. PICK v \in Overrides \cup {None}, g \in EnvGroups \cup {None}, o \in Overrides :
            v = envJob.vars /\ g = envJob.group /\ o = envJob.overrides
      BY <2>2
    <3>3. PICK j : j = JobWith(v, g, o)
      OBVIOUS
    <3>4. j \in EnvJobs /\ j.vars = v /\ j.group = g /\ j.overrides = o
      <4>1. /\ JobWith(v, g, o) \in EnvJobs /\ JobWith(v, g, o).vars = v
            /\ JobWith(v, g, o).group = g /\ JobWith(v, g, o).overrides = o
        BY <3>2, JobsHaveParts
      <4> QED BY <3>3, <4>1, Zenon
    <3>5. envJob' = j
      BY <3>1, <3>2, <3>3, Zenon
    <3> QED BY <3>2, <3>4, <3>5
  <2>4. MadeOf(earlier', envJob')
    BY <1>1, <1>2, <2>3, SameJobMakesSame
  <2>5. EnvTypes'
    BY <1>1, <2>1, <2>3 DEF EnvInv, EnvTypes, storedEnv, secretsNow
  <2>6. runRow' # None /\ ~runRow'.waits
    BY <1>1, <2>1 DEF EnvInv, EnvTypes, RunRows
  <2> QED BY <1>1, <2>4, <2>5, <2>6 DEF EnvInv
<1>4. CASE PauseRunForApproval
  <2>1. envJob' = None /\ resumed' = "approval" /\ runRow' = [runRow EXCEPT !.waits = TRUE]
    BY <1>4 DEF PauseRunForApproval, EndForPause
  <2>2. runRow' \in RunRows /\ runRow' # None
    BY <1>2, <2>1, EnvNoneAssumption DEF RunRows
  <2>3. EnvTypes'
    BY <1>1, <2>1, <2>2 DEF EnvInv, EnvTypes, storedEnv, secretsNow
  <2> QED BY <1>1, <2>1, <2>2, <2>3 DEF EnvInv
<1> QED BY <1>3, <1>4

LEMMA ApproveKeepsEnv ==
  ASSUME EnvInv, ApproveRun
  PROVE  EnvInv'
<1>1. /\ runRow # None /\ runRow.waits /\ runRow' = [runRow EXCEPT !.waits = FALSE]
      /\ envJob' = JobWith(None, IF runRow.snapshot THEN None ELSE flowRow.group, runRow.overrides)
      /\ UNCHANGED <<storedEnv, env, earlier, resumed, envWrites>>
  BY DEF ApproveRun
<1>2. runRow \in RunRows /\ flowRow.group \in EnvGroups \cup {None} /\ resumed = "approval" /\ env = None
  BY <1>1 DEF EnvInv, EnvTypes
<1>3. PICK g \in EnvGroups \cup {None} : g = IF runRow.snapshot THEN None ELSE flowRow.group
  BY <1>2
<1>4. envJob' \in EnvJobs
  BY <1>1, <1>2, <1>3, JobsAreTyped DEF RunRows
<1>5. runRow' \in RunRows /\ ~runRow'.waits /\ runRow' # None
  BY <1>1, <1>2, EnvNoneAssumption DEF RunRows
<1>6. EnvTypes'
  BY <1>1, <1>4, <1>5 DEF EnvInv, EnvTypes, storedEnv, secretsNow
<1>7. resumed' # "delay" /\ env' = None
  BY <1>1, <1>2
<1> QED BY <1>5, <1>6, <1>7 DEF EnvInv

LEMMA WritesKeepEnv ==
  ASSUME EnvInv,
         \/ \E vars \in Overrides, g \in EnvGroups \cup {None} : EditVars(vars, g)
         \/ \E o \in SecretScopes : PutSecret(o) \/ RemoveSecret(o)
         \/ \E v \in EnvVaults :
              \/ RemoveVault(v) \/ \E success \in BOOLEAN : TestVault(v, success)
              \/ \E g \in EnvGroups : BindVault(g, v)
  PROVE  EnvInv'
<1>1. WriteEnv
  BY DEF EditVars, PutSecret, RemoveSecret, RemoveVault, TestVault, BindVault
<1>2. envWrites' = envWrites + 1 /\ envWrites < MaxEnvWrites /\ UNCHANGED <<runRow, envJob, env, earlier, resumed>>
  BY <1>1 DEF WriteEnv
<1>3. envWrites' \in Nat /\ envWrites' <= MaxEnvWrites /\ envWrites \in Nat
  BY <1>2, RunEnvironmentAssumption DEF EnvInv, EnvTypes
<1>4. flowRow' \in [vars : Overrides, group : EnvGroups \cup {None}]
  BY DEF EditVars, PutSecret, RemoveSecret, RemoveVault, TestVault, BindVault, EnvInv, EnvTypes
<1>5. DOMAIN secretAt' = SecretScopes /\ \A o \in SecretScopes : secretAt'[o] = None \/ secretAt'[o] \in 0..envWrites'
  <2>1. CASE secretAt' = secretAt
    BY <1>2, <1>3, <2>1 DEF EnvInv, EnvTypes
  <2>2. ASSUME NEW o \in SecretScopes, PutSecret(o) \/ RemoveSecret(o)
        PROVE  DOMAIN secretAt' = SecretScopes /\ \A s \in SecretScopes : secretAt'[s] = None \/ secretAt'[s] \in 0..envWrites'
    <3>1. PICK v : secretAt' = [secretAt EXCEPT ![o] = v] /\ (v = None \/ v \in 0..envWrites')
      <4>1. CASE PutSecret(o)
        <5>1. secretAt' = [secretAt EXCEPT ![o] = IF secretAt[o] = None THEN 0 ELSE secretAt[o] + 1]
          BY <4>1 DEF PutSecret
        <5>2. secretAt[o] = None \/ secretAt[o] \in 0..envWrites
          BY DEF EnvInv, EnvTypes
        <5>3. (IF secretAt[o] = None THEN 0 ELSE secretAt[o] + 1) \in 0..envWrites'
          BY <1>2, <1>3, <5>2
        <5> QED BY <5>1, <5>3
      <4>2. CASE RemoveSecret(o)
        BY <4>2 DEF RemoveSecret
      <4> QED BY <2>2, <4>1, <4>2
    <3>2. \A s \in SecretScopes : secretAt[s] = None \/ secretAt[s] \in 0..envWrites'
      BY <1>2, <1>3 DEF EnvInv, EnvTypes
    <3>3. DOMAIN secretAt = SecretScopes
      BY DEF EnvInv, EnvTypes
    <3> QED BY <3>1, <3>2, <3>3
  <2> QED BY <2>1, <2>2 DEF EditVars, RemoveVault, TestVault, BindVault, secretsNow
<1>6. connected' \subseteq EnvVaults
  BY DEF EditVars, PutSecret, RemoveSecret, RemoveVault, TestVault, BindVault, secretsNow, EnvInv, EnvTypes
<1>7. EnvTypes'
  BY <1>2, <1>3, <1>4, <1>5, <1>6 DEF EnvInv, EnvTypes
<1>8. env' # None => envJob' # None /\ MadeOf(env', envJob')
  BY <1>2 DEF EnvInv
<1>9. resumed' = "delay" /\ envJob' # None => MadeOf(earlier', envJob')
  BY <1>2 DEF EnvInv
<1> QED BY <1>2, <1>7, <1>8, <1>9 DEF EnvInv

LEMMA EnvInvHolds == EnvSpec => []EnvInv
<1>1. EnvInv /\ [EnvNext]_envVars => EnvInv'
  <2>1. ASSUME EnvInv, UNCHANGED envVars PROVE EnvInv'
    <3>1. UNCHANGED <<flowRow, secretAt, boundVault, connected, runRow, envJob, env, earlier, resumed, envWrites>>
      BY <2>1 DEF envVars
    <3> QED BY <2>1, <3>1 DEF EnvInv, EnvTypes, MadeOf
  <2>2. NoOverrides \in Overrides
    BY DEF NoOverrides, Overrides
  <2> QED BY <2>1, <2>2, NewRunKeeps, ResolveKeepsEnv, FailKeepsEnv, PausesKeepEnv, ApproveKeepsEnv, WritesKeepEnv
          DEF EnvNext
<1> QED BY <1>1, EnvStarts, PTL DEF EnvSpec

(* The flow, the secrets, the vaults and the jobs keep their types.         *)
THEOREM EnvironmentsAreTyped == EnvSpec => []EnvTypeOK
<1>1. ASSUME EnvInv PROVE EnvTypeOK
  <2>1. flowRow.vars \in Overrides /\ flowRow.group \in EnvGroups \cup {None}
    BY <1>1 DEF EnvInv, EnvTypes
  <2>2. \A o \in SecretScopes : secretAt[o] = None \/ secretAt[o] \in 0..MaxEnvWrites
    <3>1. \A w \in 0..envWrites : w \in 0..MaxEnvWrites
      BY <1>1, RunEnvironmentAssumption DEF EnvInv, EnvTypes
    <3> QED BY <1>1, <3>1 DEF EnvInv, EnvTypes
  <2>3. envJob # None => envJob.attempt \in 1..MaxAttempts /\ envJob.overrides \in Overrides
    BY <1>1 DEF EnvInv, EnvTypes, EnvJobs
  <2> QED BY <1>1, <2>1, <2>2, <2>3 DEF EnvInv, EnvTypes, EnvTypeOK
<1> QED BY <1>1, EnvInvHolds, PTL

(* A run that goes on after a delay is given what the one before was, by    *)
(* the same secrets and vaults: its job is made of all that counts.         *)
THEOREM EnvironmentsSurviveDelays == EnvSpec => []DelaysKeepEnvironment
<1>1. ASSUME EnvInv PROVE DelaysKeepEnvironment
  <2> SUFFICES ASSUME resumed = "delay", env # None, env.from = earlier.from PROVE env.of = earlier.of
    BY DEF DelaysKeepEnvironment, SameAsBefore
  <2>1. MadeOf(env, envJob) /\ MadeOf(earlier, envJob)
    BY <1>1 DEF EnvInv
  <2> QED BY <2>1 DEF MadeOf
<1> QED BY <1>1, EnvInvHolds, PTL
===============================================================================
