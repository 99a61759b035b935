---------------------------- MODULE FlowEngineProofs ----------------------------
(***************************************************************************)
(* What a walk of the engine promises, for every flow, whatever it loops,  *)
(* pauses or retries.  The argument for DecidesOnWhatWasShown: a node that *)
(* is visited leaves an output, so a pause saves one for every node before *)
(* it; a replay therefore loads each of them, and computes nothing, until  *)
(* it stands at the node it resumes.  It stands there with its decision    *)
(* once only, because a walk comes back over a node only by consuming it.  *)
(*                                                                         *)
(* From the same invariant: no node runs twice between two decisions that  *)
(* send the flow back; loops end at their limit where no delay starts the  *)
(* count anew; and in a flow that leads forward a node is skipped exactly  *)
(* when no selected edge leads to it.                                      *)
(***************************************************************************)
EXTENDS FlowEngine, TopologicalSortProofs, NaturalsInduction, WellFoundedInduction,
        SequenceTheorems

USE DEF vars, walk, control, history

(* The types of everything but the sort. *)
WalkTypeOK ==
  /\ phase \in {"sorting", "running", "paused", "completed", "failed"}
  /\ error \in {"none", "compile", "node", "misrouted"}
  /\ i \in 1..(Len(sorted) + 1)
  /\ outputs \in [Nodes -> Outputs]
  /\ beforeHitl \in BOOLEAN /\ approval \in Routes \cup {Absent}
  /\ iteration \in Nat /\ feedbacks \in 0..MaxFeedbackIters /\ stored \in Nat
  /\ attempt \in 1..MaxAttempts /\ decisions \in 0..MaxDecisions
  /\ clock \in Nat /\ made \in [Nodes -> 0..clock] /\ runs \in [Nodes -> Nat]
  /\ sentBack \in [Nodes -> SUBSET (1..MaxDecisions)]

(* A walk begins once the sort has ended, a pause is at a node. *)
Staged ==
  /\ phase # "sorting" => stage = "sorted"
  /\ phase = "sorting" => i = 1 /\ job = NoJob
  /\ phase = "paused" => i <= Len(sorted)

(* A replay has an output for every node before the one it resumes, and a  *)
(* decision only if somebody decided.                                      *)
Replayable(j) ==
  /\ j.from \in Nodes /\ j.outputs \in [Nodes -> Outputs] /\ j.made \in [Nodes -> 0..clock]
  /\ j.decision \in Routes \cup {Absent}
  /\ j.decision # Absent => decisions \in 1..MaxDecisions
  /\ \E p \in DOMAIN sorted : sorted[p] = j.from
                              /\ \A k \in 1..(p - 1) : j.outputs[sorted[k]] # Absent
JobOK ==
  /\ job = NoJob \/ (job \in [from : Nodes, outputs : [Nodes -> Outputs], made : [Nodes -> Nat],
                              decision : Routes \cup {Absent}] /\ Replayable(job))
  /\ job = NoJob => approval = Absent /\ ~beforeHitl
  /\ approval # Absent => decisions \in 1..MaxDecisions

(* Every node passed has an output. *)
Visits == phase # "sorting" => \A k \in 1..(i - 1) : outputs[sorted[k]] # Absent

(* While a replay loads, it has what was saved, and the node it resumes is *)
(* ahead; afterwards that node is behind as long as its decision is kept.  *)
Replays ==
  /\ beforeHitl =>
       /\ job # NoJob
       /\ \A k \in 1..(i - 1) : /\ outputs[sorted[k]] = job.outputs[sorted[k]]
                                /\ made[sorted[k]] = job.made[sorted[k]]
       /\ \E p \in DOMAIN sorted : sorted[p] = job.from /\ i <= p
  /\ approval # Absent /\ ~beforeHitl =>
       \A k \in DOMAIN sorted : k >= i => sorted[k] # job.from

(* A decision that led back is gone. *)
Consumed == feedbacks \in {0, 1} /\ (feedbacks = 1 => approval = Absent)

EngineInv == SortInv /\ WalkTypeOK /\ Staged /\ JobOK /\ Visits /\ Replays /\ Consumed

LEMMA OutputsAreDistinct ==
  /\ Routes \subseteq Outputs /\ Absent \in Outputs /\ Absent \notin Routes
  /\ \A out \in {"skipped", "noted", "done", "exit"} : out \in Outputs /\ out # Absent
BY DEF Routes, Outputs, Absent

(* The node a walk is at, and the places of nodes once they are sorted. *)
LEMMA AtSortedNode ==
  ASSUME SortInv, WalkTypeOK, NEW k \in 1..Len(sorted)
  PROVE  k \in DOMAIN sorted /\ sorted[k] \in Nodes
BY DEF SortInv, Shape, WalkTypeOK

LEMMA NodesArePlaced ==
  ASSUME SortInv, stage = "sorted", NEW n \in Nodes
  PROVE  Place(n) \in DOMAIN sorted /\ sorted[Place(n)] = n
<1>1. ToSet(sorted) = Nodes
  BY SortedIsEverything
<1>2. \E k \in DOMAIN sorted : sorted[k] = n
  BY <1>1 DEF ToSet
<1> QED BY <1>2 DEF Place

LEMMA AbsentIsNoNode == ASSUME SortInv PROVE Absent \notin Nodes
BY FlowsAreRoutable DEF SortInv, FlowOK, Nodes

LEMMA PlacesBelow == \A j \in Int : \A k \in 1..(j - 1) : k \in Int /\ 1 <= k /\ k < j
OBVIOUS

(* What every action leaves alone. *)
LEMMA SortVarsKept ==
  ASSUME SortInv, UNCHANGED sortVars
  PROVE  /\ SortInv' /\ Nodes' = Nodes /\ sorted' = sorted /\ stage' = stage /\ flow' = flow
         /\ sorted \in Seq(Nodes) /\ Len(sorted) \in Nat /\ DOMAIN sorted = 1..Len(sorted)
         /\ \A j, k \in DOMAIN sorted : sorted[j] = sorted[k] => j = k
<1>1. SortInv'
  BY SortKeeps
<1> QED BY <1>1 DEF SortInv, Shape, Once, Nodes, sortVars

(* A node that does not load its output is not before the one resumed. *)
LEMMA NotLoaded ==
  ASSUME EngineInv, AtNode, ~Loads(Node)
  PROVE  beforeHitl => Node = job.from
<1> SUFFICES ASSUME beforeHitl, Node # job.from PROVE FALSE
  OBVIOUS
<1> USE DEF EngineInv
<1>1. Replayable(job)
  BY DEF JobOK
<1>2. PICK p \in DOMAIN sorted : sorted[p] = job.from
                                 /\ \A k \in 1..(p - 1) : job.outputs[sorted[k]] # Absent
  BY <1>1 DEF Replayable
<1>3. PICK q \in DOMAIN sorted : sorted[q] = job.from /\ i <= q
  BY DEF Replays
<1>4. p = q /\ DOMAIN sorted = 1..Len(sorted) /\ Len(sorted) \in Nat
  BY <1>2, <1>3 DEF SortInv, Once, Shape
<1>5. i \in 1..(p - 1)
  BY <1>2, <1>3, <1>4 DEF Node, WalkTypeOK
<1>6. job.outputs[Node] # Absent
  BY <1>2, <1>5 DEF Node
<1> QED BY <1>6 DEF Loads

(* Passing a node, with an output that is the saved one while loading. *)
LEMMA AdvanceKeeps ==
  ASSUME EngineInv, AtNode, NEW out \in Outputs \ {Absent}, NEW stamp \in 0..clock',
         Advance(out, stamp), clock' \in Nat, clock <= clock',
         UNCHANGED <<sortVars, phase, job, decisions>>,
         approval' = approval \/ approval' = Absent,
         beforeHitl /\ Node # job.from => out = job.outputs[Node] /\ stamp = job.made[Node]
  PROVE  /\ SortInv' /\ Staged' /\ JobOK' /\ Visits' /\ Replays'
         /\ i' \in 1..(Len(sorted') + 1)
         /\ outputs' \in [Nodes' -> Outputs] /\ made' \in [Nodes' -> 0..clock']
         /\ beforeHitl' \in BOOLEAN
<1> USE DEF EngineInv
<1>1. /\ SortInv' /\ Nodes' = Nodes /\ sorted' = sorted /\ stage' = stage /\ flow' = flow
      /\ sorted \in Seq(Nodes) /\ Len(sorted) \in Nat /\ DOMAIN sorted = 1..Len(sorted)
      /\ \A j, k \in DOMAIN sorted : sorted[j] = sorted[k] => j = k
  BY SortVarsKept
<1>2. /\ phase = "running" /\ i \in 1..Len(sorted) /\ i' = i + 1 /\ Node = sorted[i] /\ Node \in Nodes
  BY <1>1 DEF AtNode, Advance, Node, WalkTypeOK
<1>3. /\ outputs' \in [Nodes -> Outputs] /\ outputs'[sorted[i]] = out
      /\ \A n \in Nodes : n # Node => outputs'[n] = outputs[n]
  BY <1>2 DEF Advance, WalkTypeOK
<1>4. /\ made' \in [Nodes -> 0..clock'] /\ made'[sorted[i]] = stamp
      /\ \A n \in Nodes : n # Node => made'[n] = made[n]
  <2>1. made \in [Nodes -> 0..clock']
    BY DEF WalkTypeOK
  <2> QED BY <1>2, <2>1 DEF Advance
<1>5. \A k \in 1..(i - 1) : k \in DOMAIN sorted /\ sorted[k] \in Nodes /\ sorted[k] # Node
  BY <1>1, <1>2
<1>6. Staged'
  BY <1>1, <1>2 DEF Staged
<1>7. beforeHitl' = (beforeHitl /\ Node # job.from) /\ beforeHitl \in BOOLEAN
  BY DEF Advance, WalkTypeOK
<1>8. JobOK'
  <2>1. Replayable(job) => Replayable(job)'
    <3> SUFFICES ASSUME Replayable(job) PROVE Replayable(job)'
      OBVIOUS
    <3>1. job.made \in [Nodes -> 0..clock']
      BY DEF Replayable, WalkTypeOK
    <3> QED BY <1>1, <3>1 DEF Replayable
  <2>2. JobOK
    OBVIOUS
  <2> QED BY <1>1, <1>7, <2>1, <2>2 DEF JobOK
<1>9. Visits'
  <2>1. \A k \in 1..i : outputs'[sorted[k]] # Absent
    <3> SUFFICES ASSUME NEW k \in 1..i PROVE outputs'[sorted[k]] # Absent
      OBVIOUS
    <3>1. CASE k = i
      BY <1>3, <3>1
    <3>2. CASE k \in 1..(i - 1)
      BY <1>2, <1>3, <1>5, <3>2 DEF Visits
    <3> QED BY <1>2, <3>1, <3>2
  <2> QED BY <1>1, <1>2, <2>1 DEF Visits
<1>10. beforeHitl' => /\ job # NoJob
                      /\ \A k \in 1..i : /\ outputs'[sorted[k]] = job.outputs[sorted[k]]
                                         /\ made'[sorted[k]] = job.made[sorted[k]]
                      /\ \E p \in DOMAIN sorted : sorted[p] = job.from /\ i + 1 <= p
  <2> SUFFICES ASSUME beforeHitl, Node # job.from
               PROVE  /\ job # NoJob
                      /\ \A k \in 1..i : /\ outputs'[sorted[k]] = job.outputs[sorted[k]]
                                         /\ made'[sorted[k]] = job.made[sorted[k]]
                      /\ \E p \in DOMAIN sorted : sorted[p] = job.from /\ i + 1 <= p
    BY <1>7
  <2>1. \A k \in 1..i : /\ outputs'[sorted[k]] = job.outputs[sorted[k]]
                        /\ made'[sorted[k]] = job.made[sorted[k]]
    <3> SUFFICES ASSUME NEW k \in 1..i
                 PROVE  /\ outputs'[sorted[k]] = job.outputs[sorted[k]]
                        /\ made'[sorted[k]] = job.made[sorted[k]]
      OBVIOUS
    <3>1. CASE k = i
      BY <1>2, <1>3, <1>4, <3>1
    <3>2. CASE k \in 1..(i - 1)
      BY <1>3, <1>4, <1>5, <3>2 DEF Replays
    <3> QED BY <1>2, <3>1, <3>2
  <2>2. PICK p \in DOMAIN sorted : sorted[p] = job.from /\ i <= p
    BY DEF Replays
  <2>3. i + 1 <= p
    BY <1>1, <1>2, <2>2
  <2> QED BY <2>1, <2>2, <2>3 DEF Replays
<1>11. approval' # Absent /\ ~beforeHitl' =>
         \A k \in DOMAIN sorted : k >= i + 1 => sorted[k] # job.from
  <2> SUFFICES ASSUME approval # Absent, ~beforeHitl \/ Node = job.from,
                      NEW k \in DOMAIN sorted, k >= i + 1
               PROVE  sorted[k] # job.from
    BY <1>7
  <2>1. CASE ~beforeHitl
    <3>1. k >= i
      BY <1>1, <1>2
    <3> QED BY <2>1, <3>1 DEF Replays
  <2>2. CASE Node = job.from
    <3>1. k # i
      BY <1>1, <1>2
    <3> QED BY <1>1, <1>2, <2>2, <3>1
  <2> QED BY <2>1, <2>2
<1>12. Replays'
  <2>1. i' - 1 = i /\ job' = job
    BY <1>2
  <2> QED BY <1>1, <1>2, <1>10, <1>11, <2>1 DEF Replays
<1> QED BY <1>1, <1>2, <1>3, <1>4, <1>6, <1>7, <1>8, <1>9, <1>12

(* The next walk starts at the first node, loading if it resumes one. *)
LEMMA WalkFromKeeps ==
  ASSUME EngineInv, phase # "sorting", NEW j, WalkFrom(j), UNCHANGED <<sortVars, history>> \/
           UNCHANGED <<sortVars, clock, made>>,
         j = NoJob \/ (j \in [from : Nodes, outputs : [Nodes -> Outputs], made : [Nodes -> Nat],
                              decision : Routes \cup {Absent}] /\ Replayable(j)')
  PROVE  /\ SortInv' /\ Staged' /\ JobOK' /\ Visits' /\ Replays' /\ Consumed'
         /\ phase' = "running" /\ error' = "none" /\ i' = 1 /\ feedbacks' = 0
         /\ outputs' \in [Nodes' -> Outputs] /\ made' \in [Nodes' -> 0..clock']
         /\ beforeHitl' \in BOOLEAN /\ approval' \in Routes \cup {Absent}
<1> USE DEF EngineInv
<1>1. /\ SortInv' /\ Nodes' = Nodes /\ sorted' = sorted /\ stage' = stage /\ flow' = flow
      /\ sorted \in Seq(Nodes) /\ Len(sorted) \in Nat /\ DOMAIN sorted = 1..Len(sorted)
  BY SortVarsKept
<1>2. /\ phase' = "running" /\ error' = "none" /\ i' = 1 /\ feedbacks' = 0
      /\ outputs' = [n \in Nodes |-> Absent]
      /\ job' = j /\ approval' = j.decision /\ beforeHitl' = (j.from # Absent)
  BY DEF WalkFrom, All
<1>3. Staged' /\ Visits' /\ Consumed'
  BY <1>1, <1>2 DEF Staged, Visits, Consumed
<1>4. j = NoJob <=> j.from = Absent
  BY AbsentIsNoNode DEF NoJob
<1>5. approval' \in Routes \cup {Absent} /\ (j = NoJob => approval' = Absent)
  BY <1>2 DEF NoJob
<1>6. JobOK'
  <2>1. j # NoJob => Replayable(j)'
    OBVIOUS
  <2>2. approval' # Absent => decisions' \in 1..MaxDecisions
    BY <1>2, <1>5, <2>1 DEF Replayable
  <2>3. job' = NoJob \/ (job' \in [from : Nodes', outputs : [Nodes' -> Outputs],
                                    made : [Nodes' -> Nat], decision : Routes \cup {Absent}]
                         /\ Replayable(job)')
    <3>1. Replayable(j)' => Replayable(job)'
      BY <1>2 DEF Replayable
    <3> QED BY <1>1, <1>2, <3>1
  <2> QED BY <1>2, <1>4, <1>5, <2>2, <2>3 DEF JobOK
<1>7. Replays'
  <2>1. ~beforeHitl' => approval' = Absent
    BY <1>2, <1>4, <1>5
  <2>2. beforeHitl' => j # NoJob /\ \E p \in DOMAIN sorted : sorted[p] = j.from /\ 1 <= p
    <3> SUFFICES ASSUME j # NoJob PROVE \E p \in DOMAIN sorted : sorted[p] = j.from /\ 1 <= p
      BY <1>2, <1>4
    <3>1. PICK p \in DOMAIN sorted' : sorted'[p] = j.from
      BY DEF Replayable
    <3> QED BY <1>1, <3>1
  <2> QED BY <1>1, <1>2, <2>1, <2>2 DEF Replays
<1>8. made' \in [Nodes' -> 0..clock']
  BY <1>1 DEF WalkTypeOK
<1> QED BY <1>1, <1>2, <1>3, <1>5, <1>6, <1>7, <1>8, OutputsAreDistinct

(* The start: nothing is sorted, no job is in hand. *)
LEMMA EngineStarts == Init => EngineInv
<1> SUFFICES ASSUME Init PROVE EngineInv
  OBVIOUS
<1>1. SortInv
  BY SortStarts DEF Init
<1>2. sorted = <<>> /\ Nodes = Nodes
  BY DEF Init, SortInit
<1>3. WalkTypeOK
  <2>1. outputs \in [Nodes -> Outputs] /\ approval \in Routes \cup {Absent}
    BY OutputsAreDistinct DEF Init, All
  <2>2. i \in 1..(Len(sorted) + 1)
    BY <1>2 DEF Init
  <2>3. attempt \in 1..MaxAttempts /\ decisions \in 0..MaxDecisions /\ feedbacks \in 0..MaxFeedbackIters
    BY BoundsAreNumbers DEF Init, MaxFeedbackIters
  <2>4. made \in [Nodes -> 0..clock] /\ runs \in [Nodes -> Nat]
    BY DEF Init, All
  <2>5. sentBack \in [Nodes -> SUBSET (1..MaxDecisions)]
    BY DEF Init, All
  <2>6. /\ phase = "sorting" /\ error = "none" /\ beforeHitl = FALSE
        /\ iteration = 0 /\ stored = 0 /\ clock = 0
    BY DEF Init
  <2> QED BY <2>1, <2>2, <2>3, <2>4, <2>5, <2>6 DEF WalkTypeOK
<1>4. Staged /\ JobOK /\ Visits /\ Replays /\ Consumed
  BY <1>2 DEF Init, Staged, JobOK, Visits, Replays, Consumed
<1> QED BY <1>1, <1>3, <1>4 DEF EngineInv

(* Sorting fixes the order before the first walk. *)
LEMMA SortStepKeeps ==
  ASSUME EngineInv, Sort \/ StartWalk
  PROVE  EngineInv'
<1> USE DEF EngineInv
<1>1. CASE Sort
  <2>1. SortInv' /\ flow' = flow
    BY <1>1, SortKeeps DEF Sort, SortNext, ScanNode, EndScan, TakeFromQueue, VisitEdge, PassEdge,
       EndVisit, EndTake, AppendRest, EndRest
  <2>2. Nodes' = Nodes /\ Len(sorted') \in Nat
    BY <2>1 DEF Nodes, SortInv, Shape
  <2>3. /\ phase = "sorting" /\ i = 1 /\ job = NoJob
        /\ UNCHANGED <<phase, error, walk, control, history>>
    BY <1>1 DEF Sort, Staged
  <2>4. WalkTypeOK'
    BY <2>2, <2>3 DEF WalkTypeOK
  <2>5. Staged' /\ JobOK' /\ Visits' /\ Replays' /\ Consumed'
    BY <2>3 DEF Staged, JobOK, Visits, Replays, Consumed
  <2> QED BY <2>1, <2>4, <2>5
<1>2. CASE StartWalk
  <2>1. /\ SortInv' /\ Nodes' = Nodes /\ sorted' = sorted
    BY <1>2, SortVarsKept DEF StartWalk
  <2>2. /\ i = 1 /\ stage = "sorted" /\ phase' = "running"
        /\ UNCHANGED <<sortVars, error, walk, control, history>>
    BY <1>2 DEF StartWalk, Staged
  <2>3. WalkTypeOK'
    BY <2>1, <2>2 DEF WalkTypeOK
  <2>4. Staged' /\ Visits' /\ Consumed'
    BY <2>2 DEF Staged, Visits, Consumed, sortVars
  <2>5. JobOK' /\ Replays'
    BY <2>1, <2>2 DEF JobOK, Replayable, Replays
  <2> QED BY <2>1, <2>3, <2>4, <2>5
<1> QED BY <1>1, <1>2

(* The walk stops where it is: it fails, pauses or completes. *)
LEMMA StopKeeps ==
  ASSUME EngineInv,
         CompileFails \/ Misroute \/ NodeThrows \/ PauseAtHitl \/ PauseAtDelay \/ Finish
  PROVE  EngineInv'
<1> USE DEF EngineInv
<1>1. /\ phase = "running" /\ phase' \in {"failed", "paused", "completed"}
      /\ phase' = "paused" => i <= Len(sorted)
      /\ error' \in {"none", "compile", "node", "misrouted"} /\ stored' \in Nat
      /\ UNCHANGED <<sortVars, walk, job, iteration, attempt, decisions, history>>
  BY DEF CompileFails, Misroute, NodeThrows, PauseAtHitl, PauseAtDelay, Finish, AtNode,
         NextIteration, WalkTypeOK
<1>2. SortInv' /\ Nodes' = Nodes /\ sorted' = sorted /\ stage' = stage
  BY <1>1, SortVarsKept
<1>3. WalkTypeOK'
  BY <1>1, <1>2 DEF WalkTypeOK
<1>4. Staged' /\ Visits' /\ Consumed'
  BY <1>1, <1>2 DEF Staged, Visits, Consumed
<1>5. JobOK' /\ Replays'
  BY <1>1, <1>2 DEF JobOK, Replayable, Replays
<1> QED BY <1>2, <1>3, <1>4, <1>5

(* A saved output is loaded. *)
LEMMA LoadKeeps == ASSUME EngineInv, LoadOutput PROVE EngineInv'
<1> USE DEF EngineInv
<1> PICK n \in Nodes : n = Node
  BY AtSortedNode DEF LoadOutput, AtNode, Node, WalkTypeOK
<1>1. /\ beforeHitl /\ n # job.from /\ job.outputs[n] # Absent
      /\ Advance(job.outputs[n], job.made[n])
      /\ UNCHANGED <<sortVars, phase, error, approval, feedbacks, control, clock, runs, sentBack>>
  BY DEF LoadOutput, Loads
<1>2. job.outputs[n] \in Outputs /\ job.made[n] \in 0..clock
  BY <1>1 DEF JobOK, Replayable
<1>3. /\ SortInv' /\ Staged' /\ JobOK' /\ Visits' /\ Replays'
      /\ i' \in 1..(Len(sorted') + 1)
      /\ outputs' \in [Nodes' -> Outputs] /\ made' \in [Nodes' -> 0..clock']
      /\ beforeHitl' \in BOOLEAN
  BY <1>1, <1>2, AdvanceKeeps DEF LoadOutput, WalkTypeOK
<1>4. Nodes' = Nodes
  BY <1>1, SortVarsKept
<1>5. WalkTypeOK' /\ Consumed'
  BY <1>1, <1>3, <1>4 DEF WalkTypeOK, Consumed
<1> QED BY <1>3, <1>5

(* Nothing is computed: a tool is noted, or the node skipped. *)
LEMMA NoteKeeps == ASSUME EngineInv, ProvideTool \/ SkipNode PROVE EngineInv'
<1> USE DEF EngineInv
<1>1. PICK out \in {"noted", "skipped"} :
        /\ AtNode /\ ~Loads(Node) /\ Advance(out, 0)
        /\ UNCHANGED <<sortVars, phase, error, approval, feedbacks, control, clock, runs, sentBack>>
  BY DEF ProvideTool, SkipNode, Routed
<1>2. out \in Outputs \ {Absent}
  BY OutputsAreDistinct
<1>3. 0 \in 0..clock' /\ clock' \in Nat /\ clock <= clock'
  BY <1>1 DEF WalkTypeOK
<1>4. beforeHitl => Node = job.from
  BY <1>1, NotLoaded
<1>5. /\ SortInv' /\ Staged' /\ JobOK' /\ Visits' /\ Replays'
      /\ i' \in 1..(Len(sorted') + 1)
      /\ outputs' \in [Nodes' -> Outputs] /\ made' \in [Nodes' -> 0..clock']
      /\ beforeHitl' \in BOOLEAN
  BY <1>1, <1>2, <1>3, <1>4, AdvanceKeeps
<1>6. Nodes' = Nodes
  BY <1>1, SortVarsKept
<1>7. WalkTypeOK' /\ Consumed'
  BY <1>1, <1>5, <1>6 DEF WalkTypeOK, Consumed
<1> QED BY <1>5, <1>7

(* A node runs and the walk goes on. *)
LEMMA RunKeeps ==
  ASSUME EngineInv, NEW out \in Outputs \ {Absent}, AtNode, ~Loads(Node), Run(out),
         UNCHANGED <<sortVars, phase, error, control, sentBack>>,
         \/ UNCHANGED <<approval, feedbacks>>
         \/ approval' = Absent /\ feedbacks' \in {0, 1}
  PROVE  EngineInv'
<1> USE DEF EngineInv
<1>1. /\ Advance(out, clock + 1) /\ clock' = clock + 1 /\ runs' = [runs EXCEPT ![Node] = @ + 1]
  BY DEF Run
<1>2. clock + 1 \in 0..clock' /\ clock' \in Nat /\ clock <= clock'
  BY <1>1 DEF WalkTypeOK
<1>3. beforeHitl => Node = job.from
  BY NotLoaded
<1>4. /\ SortInv' /\ Staged' /\ JobOK' /\ Visits' /\ Replays'
      /\ i' \in 1..(Len(sorted') + 1)
      /\ outputs' \in [Nodes' -> Outputs] /\ made' \in [Nodes' -> 0..clock']
      /\ beforeHitl' \in BOOLEAN
  BY <1>1, <1>2, <1>3, AdvanceKeeps
<1>5. Nodes' = Nodes
  BY SortVarsKept
<1>6. runs' \in [Nodes -> Nat]
  <2>1. PICK ran : ran = runs /\ ran \in [Nodes -> Nat]
    BY DEF WalkTypeOK
  <2>2. PICK n \in Nodes : n = Node
    BY AtSortedNode DEF AtNode, Node, WalkTypeOK
  <2>3. [ran EXCEPT ![n] = @ + 1] \in [Nodes -> Nat]
    BY <2>1
  <2> QED BY <1>1, <2>1, <2>2, <2>3
<1>7. WalkTypeOK' /\ Consumed'
  BY <1>2, <1>4, <1>5, <1>6 DEF WalkTypeOK, Consumed, MaxFeedbackIters
<1> QED BY <1>4, <1>7

LEMMA RunStepKeeps ==
  ASSUME EngineInv, ComputeOutput \/ ChooseRoute \/ PassDelay \/ PassHitl \/ ExitLoop
  PROVE  EngineInv'
<1>1. CASE ComputeOutput
  BY <1>1, RunKeeps, OutputsAreDistinct DEF ComputeOutput, Runs, Routed
<1>2. CASE ChooseRoute
  <2>1. PICK route \in Routes : Run(route)
    BY <1>2 DEF ChooseRoute
  <2>2. route \in Outputs \ {Absent}
    BY OutputsAreDistinct
  <2> QED BY <1>2, <2>1, <2>2, RunKeeps DEF ChooseRoute, Runs, Routed
<1>3. CASE PassDelay
  BY <1>3, RunKeeps, OutputsAreDistinct DEF PassDelay, Runs, Routed
<1>4. CASE PassHitl
  <2>1. /\ AtNode /\ ~Loads(Node) /\ Run(approval) /\ approval' = Absent /\ approval # Absent
        /\ FeedbackEdges(approval) = {} \/ feedbacks + 1 >= MaxFeedbackIters
        /\ feedbacks' = feedbacks + (IF FeedbackEdges(approval) = {} THEN 0 ELSE 1)
        /\ UNCHANGED <<sortVars, phase, error, control, sentBack>>
    BY <1>4 DEF PassHitl, Decided, Runs, Routed
  <2>2. feedbacks = 0 /\ feedbacks' \in {0, 1}
    BY <2>1 DEF EngineInv, Consumed
  <2>3. approval \in Outputs \ {Absent}
    BY <2>1, OutputsAreDistinct DEF EngineInv, WalkTypeOK
  <2> QED BY <2>1, <2>2, <2>3, RunKeeps
<1>5. CASE ExitLoop
  <2>1. feedbacks \in {0, 1}
    BY DEF EngineInv, Consumed
  <2> QED BY <1>5, <2>1, RunKeeps, OutputsAreDistinct DEF ExitLoop, Decided, Runs, Routed
<1> QED BY <1>1, <1>2, <1>3, <1>4, <1>5

(* Back to an earlier node: what is before it keeps its outputs, and the   *)
(* decision is gone.                                                       *)
LEMMA SendBackKeeps == ASSUME EngineInv, SendBack PROVE EngineInv'
<1> USE DEF EngineInv
<1>1. /\ SortInv' /\ Nodes' = Nodes /\ sorted' = sorted /\ stage' = stage /\ flow' = flow
      /\ sorted \in Seq(Nodes) /\ Len(sorted) \in Nat /\ DOMAIN sorted = 1..Len(sorted)
      /\ \A j, k \in DOMAIN sorted : sorted[j] = sorted[k] => j = k
  BY SortVarsKept DEF SendBack
<1>2. /\ phase = "running" /\ stage = "sorted" /\ i \in 1..Len(sorted) /\ Node \in Nodes
      /\ approval # Absent /\ approval \in Routes /\ approval' = Absent /\ beforeHitl' = FALSE
      /\ feedbacks' = feedbacks + 1 /\ clock' = clock + 1
      /\ made' = [made EXCEPT ![Node] = clock + 1]
      /\ sentBack' = [sentBack EXCEPT ![Node] = @ \cup {decisions}]
      /\ UNCHANGED <<sortVars, phase, error, control>>
  BY <1>1 DEF SendBack, Decided, AtNode, Node, Staged, WalkTypeOK
<1>3. PICK k \in FeedbackEdges(approval) :
        /\ i' = Place(flow.edges[k].to)
        /\ outputs' = [n \in Nodes |-> IF Place(n) \in i'..(i - 1) THEN Absent
                                       ELSE IF n = Node THEN approval ELSE outputs[n]]
        /\ runs' = [n \in Nodes |-> IF Place(n) \in i'..i THEN 0 ELSE runs[n]]
  BY DEF SendBack
<1>4. i' \in 1..(i - 1)
  <2>1. flow.edges[k].to \in Nodes /\ Place(flow.edges[k].to) < i
    BY FlowShape DEF FeedbackEdges, EdgesFrom, SortInv
  <2>2. Place(flow.edges[k].to) \in DOMAIN sorted
    BY <1>2, <2>1, NodesArePlaced
  <2> QED BY <1>1, <1>2, <1>3, <2>1, <2>2
<1>5. outputs' \in [Nodes -> Outputs] /\ runs' \in [Nodes -> Nat]
  BY <1>2, <1>3, OutputsAreDistinct DEF WalkTypeOK
<1>6. \A m \in 1..(i' - 1) : outputs'[sorted[m]] # Absent
  <2>0. i \in Int /\ i' \in Int /\ i' < i
    <3>1. i \in Int
      BY <1>2
    <3> QED BY <1>4, <3>1
  <2> SUFFICES ASSUME NEW m \in Int, 1 <= m, m < i' PROVE outputs'[sorted[m]] # Absent
    BY <2>0, PlacesBelow
  <2>1. m \in DOMAIN sorted /\ m \in 1..(i - 1) /\ sorted[m] \in Nodes
    <3>1. Len(sorted) \in Nat /\ i \in 1..Len(sorted) /\ DOMAIN sorted = 1..Len(sorted)
      BY <1>1, <1>2
    <3>2. m \in 1..(i - 1)
      BY <2>0
    <3>3. m \in DOMAIN sorted
      BY <3>1, <3>2
    <3> QED BY <1>1, <3>2, <3>3
  <2>2. Place(sorted[m]) = m
    BY <1>1, <1>2, <2>1, NodesArePlaced
  <2>3. m \notin i'..(i - 1)
    BY <1>4, <2>1
  <2>4. outputs[sorted[m]] # Absent
    BY <1>2, <2>1 DEF Visits
  <2> QED BY <1>2, <1>3, <2>1, <2>2, <2>3, <2>4
<1>7. made' \in [Nodes -> 0..clock'] /\ clock' \in Nat
  <2>1. made \in [Nodes -> 0..clock'] /\ clock' \in Nat /\ clock + 1 \in 0..clock'
    BY <1>2 DEF WalkTypeOK
  <2> QED BY <1>2, <2>1
<1>8. sentBack' \in [Nodes -> SUBSET (1..MaxDecisions)]
  <2>1. decisions \in 1..MaxDecisions
    BY <1>2 DEF JobOK
  <2> QED BY <1>2, <2>1 DEF WalkTypeOK
<1>9. feedbacks' = 1
  BY <1>2 DEF Consumed
<1>10. WalkTypeOK'
  <2>1. i' \in 1..(Len(sorted') + 1)
    <3>1. i' \in 1..(i - 1) /\ i \in 1..Len(sorted) /\ Len(sorted) \in Nat
      BY <1>1, <1>2, <1>4
    <3>2. i' \in 1..(Len(sorted) + 1)
      BY <3>1
    <3> QED BY <1>1, <3>2
  <2>2. approval' \in Routes \cup {Absent} /\ beforeHitl' \in BOOLEAN
    BY <1>2
  <2>3. feedbacks' \in 0..MaxFeedbackIters
    BY <1>9 DEF MaxFeedbackIters
  <2>4. /\ iteration \in Nat /\ stored \in Nat
        /\ attempt \in 1..MaxAttempts /\ decisions \in 0..MaxDecisions
        /\ phase' = "running" /\ error \in {"none", "compile", "node", "misrouted"}
        /\ UNCHANGED <<iteration, stored, attempt, decisions, error>>
    BY <1>2 DEF WalkTypeOK
  <2> QED BY <1>1, <1>5, <1>7, <1>8, <2>1, <2>2, <2>3, <2>4 DEF WalkTypeOK
<1>11. Staged' /\ Visits' /\ Consumed'
  <2>1. Staged'
    BY <1>1, <1>2, <1>6, <1>9 DEF Staged
  <2>2. Visits'
    BY <1>1, <1>2, <1>6, <1>9 DEF Visits
  <2>3. Consumed'
    BY <1>1, <1>2, <1>6, <1>9 DEF Consumed
  <2> QED BY <2>1, <2>2, <2>3
<1>12. JobOK' /\ Replays'
  <2>1. Replayable(job) => Replayable(job)'
    <3> SUFFICES ASSUME Replayable(job) PROVE Replayable(job)'
      OBVIOUS
    <3>1. job.made \in [Nodes -> 0..clock']
      <4>1. job.made \in [Nodes -> 0..clock]
        BY DEF Replayable
      <4>2. 0..clock \subseteq 0..clock'
        BY <1>2 DEF WalkTypeOK
      <4> QED BY <4>1, <4>2
    <3> QED BY <1>1, <1>2, <3>1 DEF Replayable
  <2> QED BY <1>1, <1>2, <2>1 DEF JobOK, Replays
<1> QED BY <1>1, <1>10, <1>11, <1>12

(* What a pause saves is what its replay needs. *)
LEMMA SavedIsReplayable ==
  ASSUME EngineInv, phase = "paused", NEW d \in Routes \cup {Absent},
         UNCHANGED <<sortVars, clock>>, decisions' \in 0..MaxDecisions,
         d # Absent => decisions' \in 1..MaxDecisions
  PROVE  /\ SavedWalk(outputs, d) \in [from : Nodes, outputs : [Nodes -> Outputs],
                                       made : [Nodes -> Nat], decision : Routes \cup {Absent}]
         /\ \A j : j = SavedWalk(outputs, d) => Replayable(j)'
<1> USE DEF EngineInv
<1>1. /\ i \in 1..Len(sorted) /\ i \in DOMAIN sorted /\ Node = sorted[i] /\ Node \in Nodes
      /\ Nodes' = Nodes /\ sorted' = sorted
  BY SortVarsKept DEF Staged, WalkTypeOK, Node
<1>2. \A k \in 1..(i - 1) : outputs[sorted[k]] # Absent
  BY DEF Visits
<1>3. outputs \in [Nodes -> Outputs] /\ made \in [Nodes -> 0..clock] /\ made \in [Nodes -> Nat]
  BY DEF WalkTypeOK
<1> QED BY <1>1, <1>2, <1>3 DEF SavedWalk, Replayable

(* The next walk: after a decision, a delay, or a failed attempt. *)
LEMMA NextWalkKeeps ==
  ASSUME EngineInv, (\E d \in Routes : Decide(d)) \/ ResumeDelay \/ Retry
  PROVE  EngineInv'
<1> USE DEF EngineInv
<1>1. CASE \E d \in Routes : Decide(d)
  <2> PICK d \in Routes : Decide(d)
    BY <1>1
  <2> PICK j : j = SavedWalk(outputs, d)
    OBVIOUS
  <2>1. /\ phase = "paused" /\ decisions < MaxDecisions /\ WalkFrom(j)
        /\ decisions' = decisions + 1 /\ attempt' = 1
        /\ iteration' = IF stored = 0 THEN 1 ELSE stored
        /\ UNCHANGED <<sortVars, stored, history>>
    BY DEF Decide
  <2>2. decisions' \in 1..MaxDecisions /\ iteration' \in Nat /\ attempt' \in 1..MaxAttempts
    BY <2>1, BoundsAreNumbers DEF WalkTypeOK
  <2>3. j \in [from : Nodes, outputs : [Nodes -> Outputs], made : [Nodes -> Nat],
               decision : Routes \cup {Absent}] /\ Replayable(j)'
    BY <2>1, <2>2, SavedIsReplayable
  <2>4. /\ SortInv' /\ Staged' /\ JobOK' /\ Visits' /\ Replays' /\ Consumed'
        /\ phase' = "running" /\ error' = "none" /\ i' = 1 /\ feedbacks' = 0
        /\ outputs' \in [Nodes' -> Outputs] /\ made' \in [Nodes' -> 0..clock']
        /\ beforeHitl' \in BOOLEAN /\ approval' \in Routes \cup {Absent}
    BY <2>1, <2>3, WalkFromKeeps
  <2>5. Nodes' = Nodes /\ Len(sorted') \in Nat
    BY <2>1, SortVarsKept
  <2>6. WalkTypeOK'
    BY <2>1, <2>2, <2>4, <2>5 DEF WalkTypeOK, MaxFeedbackIters
  <2> QED BY <2>4, <2>6
<1>2. CASE ResumeDelay
  <2> PICK j : j = SavedWalk(outputs, Absent)
    OBVIOUS
  <2>1. /\ phase = "paused" /\ WalkFrom(j)
        /\ attempt' = 1 /\ iteration' = 0
        /\ UNCHANGED <<sortVars, stored, decisions, history>>
    BY <1>2 DEF ResumeDelay
  <2>2. decisions' \in 0..MaxDecisions /\ attempt' \in 1..MaxAttempts
    BY <2>1, BoundsAreNumbers DEF WalkTypeOK
  <2>3. j \in [from : Nodes, outputs : [Nodes -> Outputs], made : [Nodes -> Nat],
               decision : Routes \cup {Absent}] /\ Replayable(j)'
    BY <2>1, <2>2, SavedIsReplayable
  <2>4. /\ SortInv' /\ Staged' /\ JobOK' /\ Visits' /\ Replays' /\ Consumed'
        /\ phase' = "running" /\ error' = "none" /\ i' = 1 /\ feedbacks' = 0
        /\ outputs' \in [Nodes' -> Outputs] /\ made' \in [Nodes' -> 0..clock']
        /\ beforeHitl' \in BOOLEAN /\ approval' \in Routes \cup {Absent}
    BY <2>1, <2>3, WalkFromKeeps
  <2>5. Nodes' = Nodes /\ Len(sorted') \in Nat
    BY <2>1, SortVarsKept
  <2>6. WalkTypeOK'
    BY <2>1, <2>2, <2>4, <2>5 DEF WalkTypeOK, MaxFeedbackIters
  <2> QED BY <2>4, <2>6
<1>3. CASE Retry
  <2> PICK j : j = job
    OBVIOUS
  <2>1. /\ phase \in {"running", "paused", "failed"} /\ attempt < MaxAttempts /\ WalkFrom(j)
        /\ attempt' = attempt + 1
        /\ runs' = [n \in Nodes |-> IF Place(n) >= Place(job.from) THEN 0 ELSE runs[n]]
        /\ UNCHANGED <<sortVars, iteration, stored, decisions, clock, made, sentBack>>
    BY <1>3 DEF Retry
  <2>2. Nodes' = Nodes /\ Len(sorted') \in Nat /\ sorted' = sorted
    BY <2>1, SortVarsKept
  <2>3. attempt' \in 1..MaxAttempts /\ runs' \in [Nodes -> Nat]
    BY <2>1, BoundsAreNumbers DEF WalkTypeOK
  <2>4. j = NoJob \/ (j \in [from : Nodes, outputs : [Nodes -> Outputs], made : [Nodes -> Nat],
                             decision : Routes \cup {Absent}] /\ Replayable(j)')
    BY <2>1, <2>2 DEF JobOK, Replayable
  <2>5. /\ SortInv' /\ Staged' /\ JobOK' /\ Visits' /\ Replays' /\ Consumed'
        /\ phase' = "running" /\ error' = "none" /\ i' = 1 /\ feedbacks' = 0
        /\ outputs' \in [Nodes' -> Outputs] /\ made' \in [Nodes' -> 0..clock']
        /\ beforeHitl' \in BOOLEAN /\ approval' \in Routes \cup {Absent}
    BY <2>1, <2>4, WalkFromKeeps
  <2>6. WalkTypeOK'
    BY <2>1, <2>2, <2>3, <2>5 DEF WalkTypeOK, MaxFeedbackIters
  <2> QED BY <2>5, <2>6
<1> QED BY <1>1, <1>2, <1>3

LEMMA EngineKeeps == EngineInv /\ [Next]_vars => EngineInv'
<1> SUFFICES ASSUME EngineInv, [Next]_vars PROVE EngineInv'
  OBVIOUS
<1>1. CASE UNCHANGED vars
  <2>1. SortInv' /\ Nodes' = Nodes /\ UNCHANGED <<sortVars, phase, error, walk, control, history>>
    BY <1>1, SortVarsKept DEF EngineInv
  <2>2. WalkTypeOK' /\ Staged' /\ Visits' /\ Consumed'
    BY <2>1 DEF EngineInv, WalkTypeOK, Staged, Visits, Consumed, sortVars
  <2>3. JobOK' /\ Replays'
    BY <2>1 DEF EngineInv, JobOK, Replayable, Replays, sortVars
  <2> QED BY <2>1, <2>2, <2>3 DEF EngineInv
<1>2. CASE WalkStep
  BY <1>2, StopKeeps, LoadKeeps, NoteKeeps, RunStepKeeps, SendBackKeeps DEF WalkStep
<1>3. CASE Sort \/ StartWalk
  BY <1>3, SortStepKeeps
<1>4. CASE (\E d \in Routes : Decide(d)) \/ ResumeDelay \/ Retry
  BY <1>4, NextWalkKeeps
<1> QED BY <1>1, <1>2, <1>3, <1>4 DEF Next

LEMMA EngineAlwaysInv == Spec => []EngineInv
<1> QED BY EngineStarts, EngineKeeps, PTL DEF Spec

(* In every flow, the engine's variables keep their types, over any number *)
(* of pauses, loops and retries.                                           *)
THEOREM EngineTypeCorrect == Spec => []TypeOK
<1>1. EngineInv => TypeOK
  <2> SUFFICES ASSUME EngineInv PROVE TypeOK
    OBVIOUS
  <2>1. SortTypeOK
    BY SortInvImpliesType DEF EngineInv
  <2>2. made \in [Nodes -> 0..clock]
    BY DEF EngineInv, WalkTypeOK
  <2> QED BY <2>1, <2>2 DEF EngineInv, WalkTypeOK, JobOK, TypeOK
<1> QED BY <1>1, EngineAlwaysInv, PTL

(* In every flow, a decision is applied to the outputs the person who made *)
(* it was shown, all of them and none computed again.                      *)
THEOREM DecisionsAreApplied == Spec => []DecidesOnWhatWasShown
<1>1. EngineInv => DecidesOnWhatWasShown
  <2> SUFFICES ASSUME EngineInv, Decided, NEW k \in 1..(i - 1)
               PROVE  /\ outputs[sorted[k]] = job.outputs[sorted[k]]
                      /\ made[sorted[k]] = job.made[sorted[k]]
    BY DEF DecidesOnWhatWasShown
  <2> USE DEF EngineInv
  <2>1. i \in DOMAIN sorted /\ sorted[i] = job.from /\ approval # Absent /\ i >= i
    BY AtSortedNode DEF Decided, AtNode, Node, WalkTypeOK
  <2>2. beforeHitl
    BY <2>1 DEF Replays, WalkTypeOK
  <2> QED BY <2>2 DEF Replays
<1> QED BY <1>1, EngineAlwaysInv, PTL

(* In every flow, a decision that leads back does so once. *)
THEOREM DecisionsAreConsumed == Spec => []OneSendBackPerWalk
<1>1. EngineInv => OneSendBackPerWalk
  BY DEF EngineInv, Consumed, OneSendBackPerWalk
<1> QED BY <1>1, EngineAlwaysInv, PTL

(* Nothing a walk has still to compute has run since the flow was sent     *)
(* back over it: neither what is ahead of a walk that computes, nor what   *)
(* a replay will reach at and after the node it resumes.                   *)
Ahead(k) == IF beforeHitl THEN k >= Place(job.from) ELSE k >= i
Fresh ==
  /\ phase = "sorting" => \A n \in Nodes : runs[n] = 0
  /\ phase # "sorting" => \A k \in DOMAIN sorted : Ahead(k) => runs[sorted[k]] = 0
  /\ phase = "paused" /\ beforeHitl => Node = job.from
RunsInv == Fresh /\ NeverRepeats

(* The place a replay resumes at is one of the order, and not yet passed.  *)
LEMMA ResumedIsAhead ==
  ASSUME EngineInv, beforeHitl
  PROVE  /\ phase # "sorting" => Place(job.from) \in DOMAIN sorted /\ i <= Place(job.from)
         /\ phase # "sorting" => sorted[Place(job.from)] = job.from
<1> USE DEF EngineInv
<1> SUFFICES ASSUME phase # "sorting"
             PROVE  /\ Place(job.from) \in DOMAIN sorted /\ i <= Place(job.from)
                    /\ sorted[Place(job.from)] = job.from
  OBVIOUS
<1>1. PICK p \in DOMAIN sorted : sorted[p] = job.from /\ i <= p
  BY DEF Replays
<1>2. job.from \in Nodes /\ stage = "sorted"
  BY DEF Replays, JobOK, Replayable, Staged
<1>3. Place(job.from) \in DOMAIN sorted /\ sorted[Place(job.from)] = job.from
  BY <1>2, NodesArePlaced
<1>4. Place(job.from) = p
  BY <1>1, <1>3 DEF SortInv, Once
<1> QED BY <1>1, <1>3, <1>4

(* A walk that computes leaves behind what it passes. *)
LEMMA AdvanceStaysFresh ==
  ASSUME EngineInv, RunsInv, AtNode, NEW out, NEW stamp, Advance(out, stamp),
         UNCHANGED <<sortVars, phase, job>>,
         runs' = runs \/ (runs' = [runs EXCEPT ![Node] = @ + 1] /\ (beforeHitl => Node = job.from))
  PROVE  RunsInv'
<1> USE DEF EngineInv
<1>1. /\ Nodes' = Nodes /\ sorted' = sorted /\ Len(sorted) \in Nat /\ DOMAIN sorted = 1..Len(sorted)
      /\ \A j, k \in DOMAIN sorted : sorted[j] = sorted[k] => j = k
      /\ \A k \in DOMAIN sorted : sorted[k] \in Nodes
      /\ UNCHANGED <<phase, job>>
  BY SortVarsKept
<1>2. /\ phase = "running" /\ i \in DOMAIN sorted /\ i \in Nat /\ i' = i + 1
      /\ Node = sorted[i] /\ Node \in Nodes /\ runs \in [Nodes -> Nat]
      /\ beforeHitl' = (beforeHitl /\ Node # job.from) /\ beforeHitl \in BOOLEAN
  BY <1>1 DEF AtNode, Advance, Node, WalkTypeOK
<1>3. beforeHitl => Place(job.from) \in DOMAIN sorted /\ sorted[Place(job.from)] = job.from
  BY <1>2, ResumedIsAhead
<1>4. Place(job.from)' = Place(job.from)
  BY <1>1 DEF Place
<1>5. \A k \in DOMAIN sorted : Ahead(k)' => Ahead(k) /\ k # i
  <2> SUFFICES ASSUME NEW k \in DOMAIN sorted, Ahead(k)' PROVE Ahead(k) /\ k # i
    OBVIOUS
  <2>1. CASE beforeHitl'
    <3>1. beforeHitl /\ Node # job.from /\ i <= Place(job.from) /\ k >= Place(job.from)
      BY <1>2, <1>4, <2>1, ResumedIsAhead DEF Ahead
    <3>2. i # Place(job.from)
      BY <1>2, <1>3, <3>1
    <3> QED BY <1>1, <1>2, <1>3, <3>1, <3>2 DEF Ahead
  <2>2. CASE ~beforeHitl'
    <3>1. k >= i + 1 /\ k \in Nat
      BY <1>1, <1>2, <2>2 DEF Ahead
    <3>2. beforeHitl => Place(job.from) = i
      BY <1>1, <1>2, <1>3, <2>2
    <3> QED BY <1>2, <3>1, <3>2 DEF Ahead
  <2> QED BY <2>1, <2>2
<1>6. \A k \in DOMAIN sorted : Ahead(k)' => runs'[sorted[k]] = 0
  <2> SUFFICES ASSUME NEW k \in DOMAIN sorted, Ahead(k)' PROVE runs'[sorted[k]] = 0
    OBVIOUS
  <2>1. runs[sorted[k]] = 0 /\ k # i
    BY <1>2, <1>5 DEF RunsInv, Fresh
  <2>2. sorted[k] # Node /\ sorted[k] \in Nodes
    BY <1>1, <1>2, <2>1
  <2> QED BY <1>2, <2>1, <2>2
<1>7. \A n \in Nodes : runs'[n] <= 1
  <2>1. \A n \in Nodes : runs[n] <= 1
    BY DEF RunsInv, NeverRepeats
  <2>2. CASE runs' = runs
    BY <2>1, <2>2
  <2>3. CASE runs' = [runs EXCEPT ![Node] = @ + 1] /\ (beforeHitl => Node = job.from)
    <3>1. beforeHitl => Place(job.from) = i
      BY <1>1, <1>2, <1>3, <2>3
    <3>2. runs[Node] = 0
      BY <1>2, <3>1 DEF RunsInv, Fresh, Ahead
    <3>3. runs'[Node] = 1
      BY <1>2, <2>3, <3>2
    <3>4. \A n \in Nodes : n # Node => runs'[n] = runs[n]
      BY <1>2, <2>3
    <3> QED BY <2>1, <3>3, <3>4
  <2> QED BY <2>2, <2>3
<1> QED BY <1>1, <1>2, <1>6, <1>7 DEF RunsInv, Fresh, NeverRepeats

LEMMA RunsInit == Init => RunsInv
BY DEF Init, All, RunsInv, Fresh, NeverRepeats

LEMMA SortStaysFresh ==
  ASSUME EngineInv, RunsInv, Sort \/ StartWalk
  PROVE  RunsInv'
<1> USE DEF EngineInv
<1>1. CASE Sort
  <2>1. SortInv' /\ flow' = flow
    BY <1>1, SortKeeps DEF Sort, SortNext, ScanNode, EndScan, TakeFromQueue, VisitEdge, PassEdge,
       EndVisit, EndTake, AppendRest, EndRest
  <2>2. phase = "sorting" /\ phase' = "sorting" /\ runs' = runs /\ Nodes' = Nodes
    BY <1>1, <2>1 DEF Sort, Nodes
  <2> QED BY <2>2 DEF RunsInv, Fresh, NeverRepeats
<1>2. CASE StartWalk
  <2>1. /\ Nodes' = Nodes /\ sorted' = sorted /\ \A k \in DOMAIN sorted : sorted[k] \in Nodes
        /\ phase = "sorting" /\ phase' = "running" /\ runs' = runs
    BY <1>2, SortVarsKept DEF StartWalk
  <2> QED BY <2>1 DEF RunsInv, Fresh, NeverRepeats
<1> QED BY <1>1, <1>2

LEMMA StopStaysFresh ==
  ASSUME EngineInv, RunsInv,
         CompileFails \/ Misroute \/ NodeThrows \/ PauseAtHitl \/ PauseAtDelay \/ Finish
  PROVE  RunsInv'
<1> USE DEF EngineInv
<1>1. /\ phase = "running" /\ phase' \in {"failed", "paused", "completed"}
      /\ UNCHANGED <<sortVars, i, beforeHitl, job, runs>>
  BY DEF CompileFails, Misroute, NodeThrows, PauseAtHitl, PauseAtDelay, Finish, AtNode
<1>2. phase' = "paused" /\ beforeHitl => Node = job.from
  BY <1>1, NotLoaded
     DEF CompileFails, Misroute, NodeThrows, PauseAtHitl, PauseAtDelay, Finish, Runs, Routed
<1>3. Nodes' = Nodes /\ sorted' = sorted
  BY <1>1, SortVarsKept
<1>4. \A k \in DOMAIN sorted : Ahead(k)' = Ahead(k)
  BY <1>1, <1>3 DEF Ahead, Place
<1>5. Node' = Node
  BY <1>1, <1>3 DEF Node
<1> QED BY <1>1, <1>2, <1>3, <1>4, <1>5 DEF RunsInv, Fresh, NeverRepeats

LEMMA PassStaysFresh ==
  ASSUME EngineInv, RunsInv,
         \/ LoadOutput \/ ProvideTool \/ SkipNode
         \/ ComputeOutput \/ ChooseRoute \/ PassDelay \/ PassHitl \/ ExitLoop
  PROVE  RunsInv'
<1>1. CASE LoadOutput
  BY <1>1, AdvanceStaysFresh DEF LoadOutput
<1>2. CASE ProvideTool \/ SkipNode
  BY <1>2, AdvanceStaysFresh DEF ProvideTool, SkipNode
<1>3. ASSUME NEW out, AtNode, Runs(Node), Run(out), UNCHANGED <<sortVars, phase, job>> PROVE RunsInv'
  <2>1. /\ Advance(out, clock + 1) /\ runs' = [runs EXCEPT ![Node] = @ + 1]
    BY <1>3 DEF Run
  <2>2. beforeHitl => Node = job.from
    BY <1>3, NotLoaded DEF Runs, Routed
  <2> QED BY <1>3, <2>1, <2>2, AdvanceStaysFresh
<1>4. CASE ComputeOutput \/ PassDelay
  BY <1>3, <1>4 DEF ComputeOutput, PassDelay
<1>5. CASE ChooseRoute
  BY <1>3, <1>5 DEF ChooseRoute
<1>6. CASE PassHitl \/ ExitLoop
  BY <1>3, <1>6 DEF PassHitl, ExitLoop, Decided
<1> QED BY <1>1, <1>2, <1>4, <1>5, <1>6

LEMMA SendBackStaysFresh == ASSUME EngineInv, RunsInv, SendBack PROVE RunsInv'
<1> USE DEF EngineInv
<1>1. /\ Nodes' = Nodes /\ sorted' = sorted /\ stage = "sorted"
      /\ Len(sorted) \in Nat /\ DOMAIN sorted = 1..Len(sorted)
      /\ \A j, k \in DOMAIN sorted : sorted[j] = sorted[k] => j = k
      /\ \A k \in DOMAIN sorted : sorted[k] \in Nodes
  BY SortVarsKept DEF SendBack, Decided, AtNode, Staged
<1>2. /\ phase = "running" /\ phase' = "running" /\ beforeHitl' = FALSE
      /\ i \in DOMAIN sorted /\ Node = sorted[i] /\ Node = job.from
  BY <1>1 DEF SendBack, Decided, AtNode, Node, WalkTypeOK
<1>3. runs' = [n \in Nodes |-> IF Place(n) \in i'..i THEN 0 ELSE runs[n]]
  BY DEF SendBack
<1>4. i' \in Nat
  BY SendBackKeeps DEF WalkTypeOK
<1>5. \A k \in DOMAIN sorted : k > i => runs[sorted[k]] = 0
  <2> SUFFICES ASSUME NEW k \in DOMAIN sorted, k > i PROVE runs[sorted[k]] = 0
    OBVIOUS
  <2>1. beforeHitl => Place(job.from) = i
    BY <1>1, <1>2, ResumedIsAhead
  <2>2. Ahead(k)
    BY <1>1, <1>2, <2>1 DEF Ahead
  <2> QED BY <1>2, <2>2 DEF RunsInv, Fresh
<1>6. \A k \in DOMAIN sorted : Place(sorted[k]) = k
  BY <1>1, NodesArePlaced
<1>7. \A k \in DOMAIN sorted : k >= i' => runs'[sorted[k]] = 0
  <2> SUFFICES ASSUME NEW k \in DOMAIN sorted, k >= i' PROVE runs'[sorted[k]] = 0
    OBVIOUS
  <2>1. runs'[sorted[k]] = IF k \in i'..i THEN 0 ELSE runs[sorted[k]]
    BY <1>1, <1>3, <1>6
  <2> QED BY <1>1, <1>2, <1>4, <1>5, <2>1
<1>8. \A n \in Nodes : runs'[n] <= 1
  BY <1>3 DEF RunsInv, NeverRepeats
<1> QED BY <1>1, <1>2, <1>7, <1>8 DEF RunsInv, Fresh, Ahead, NeverRepeats

LEMMA NextWalkStaysFresh ==
  ASSUME EngineInv, RunsInv, (\E d \in Routes : Decide(d)) \/ ResumeDelay \/ Retry
  PROVE  RunsInv'
<1> USE DEF EngineInv
<1>1. UNCHANGED sortVars /\ phase # "sorting" /\ phase' = "running"
  BY DEF Decide, ResumeDelay, Retry, WalkFrom
<1>2. /\ Nodes' = Nodes /\ sorted' = sorted /\ stage = "sorted"
      /\ Len(sorted) \in Nat /\ DOMAIN sorted = 1..Len(sorted)
      /\ \A j, k \in DOMAIN sorted : sorted[j] = sorted[k] => j = k
      /\ \A k \in DOMAIN sorted : sorted[k] \in Nodes
  BY <1>1, SortVarsKept DEF Staged
<1>3. \A k \in DOMAIN sorted : Place(sorted[k]) = k
  BY <1>2, NodesArePlaced
<1>4. \A n : Place(n)' = Place(n)
  BY <1>2 DEF Place
<1>5. CASE (\E d \in Routes : Decide(d)) \/ ResumeDelay
  <2>1. /\ phase = "paused" /\ job'.from = Node /\ runs' = runs /\ beforeHitl' = (Node # Absent)
    BY <1>5 DEF Decide, ResumeDelay, WalkFrom, SavedWalk
  <2>2. i \in DOMAIN sorted /\ Node = sorted[i] /\ Node # Absent
    BY <1>2, <2>1, AbsentIsNoNode DEF Staged, WalkTypeOK, Node
  <2>3. Place(job.from)' = i
    BY <1>3, <1>4, <2>1, <2>2
  <2>4. beforeHitl => Place(job.from) = i
    BY <1>3, <2>1, <2>2 DEF RunsInv, Fresh
  <2>5. \A k \in DOMAIN sorted : Ahead(k)' => runs[sorted[k]] = 0
    BY <2>1, <2>2, <2>3, <2>4 DEF RunsInv, Fresh, Ahead
  <2> QED BY <1>1, <1>2, <2>1, <2>5 DEF RunsInv, Fresh, NeverRepeats
<1>6. CASE Retry
  <2>1. /\ job' = job /\ beforeHitl' = (job.from # Absent) /\ i' = 1
        /\ runs' = [n \in Nodes |-> IF Place(n) >= Place(job.from) THEN 0 ELSE runs[n]]
    BY <1>6 DEF Retry, WalkFrom
  <2>2. \A n \in Nodes : runs'[n] <= 1
    BY <2>1 DEF RunsInv, NeverRepeats
  <2>3. \A k \in DOMAIN sorted : runs'[sorted[k]] = IF k >= Place(job.from) THEN 0 ELSE runs[sorted[k]]
    BY <1>2, <1>3, <2>1
  <2>4. \A k \in DOMAIN sorted : Ahead(k)' => k >= Place(job.from)
    <3>1. CASE job.from # Absent
      BY <1>4, <2>1, <3>1 DEF Ahead
    <3>2. CASE job.from = Absent
      <4>1. ~\E k \in DOMAIN sorted : sorted[k] = job.from
        BY <1>2, <3>2, AbsentIsNoNode
      <4>2. Place(job.from) = 0
        BY <4>1 DEF Place
      <4> QED BY <1>2, <4>2
    <3> QED BY <3>1, <3>2
  <2>5. \A k \in DOMAIN sorted : Ahead(k)' => runs'[sorted[k]] = 0
    BY <2>3, <2>4
  <2> QED BY <1>1, <1>2, <2>2, <2>5 DEF RunsInv, Fresh, NeverRepeats
<1> QED BY <1>5, <1>6

LEMMA RunsKeep == EngineInv /\ RunsInv /\ [Next]_vars => RunsInv'
<1> SUFFICES ASSUME EngineInv, RunsInv, [Next]_vars PROVE RunsInv'
  OBVIOUS
<1>1. CASE UNCHANGED vars
  <2>1. UNCHANGED <<phase, sorted, flow, beforeHitl, job, i, runs>>
    BY <1>1 DEF sortVars
  <2> QED BY <2>1 DEF RunsInv, Fresh, NeverRepeats, Ahead, Place, Node, Nodes
<1>2. CASE WalkStep
  BY <1>2, StopStaysFresh, PassStaysFresh, SendBackStaysFresh DEF WalkStep
<1>3. CASE Sort \/ StartWalk
  BY <1>3, SortStaysFresh
<1>4. CASE (\E d \in Routes : Decide(d)) \/ ResumeDelay \/ Retry
  BY <1>4, NextWalkStaysFresh
<1> QED BY <1>1, <1>2, <1>3, <1>4 DEF Next

(* In every flow, no pause, loop or delay makes a node run twice: what was *)
(* computed since the flow was last sent back over it is not again.        *)
THEOREM NothingIsRepeated == Spec => []NeverRepeats
<1>1. RunsInv => NeverRepeats
  BY DEF RunsInv
<1> QED BY <1>1, RunsInit, RunsKeep, EngineAlwaysInv, PTL DEF Spec
(* The count of iterations is ahead of the decisions made: every pause at a *)
(* HITL node adds one to what the row stores, and a decision hands it on.   *)
(* Only a delay starts the count anew.                                     *)
LoopsCounted == (\A n \in Nodes : flow.kind[n] # "delay") =>
  /\ decisions = 0 \/ (stored > decisions /\ iteration > decisions)
  /\ phase = "paused" => stored > decisions + 1
  /\ \A n \in Nodes : flow.limit[n] > 0 => sentBack[n] \subseteq 1..flow.limit[n]

LEMMA CountedInit == Init => LoopsCounted
BY DEF Init, All, LoopsCounted

LEMMA StopStaysCounted ==
  ASSUME EngineInv, LoopsCounted,
         CompileFails \/ Misroute \/ NodeThrows \/ PauseAtHitl \/ PauseAtDelay \/ Finish
  PROVE  LoopsCounted'
<1> USE DEF EngineInv
<1>1. /\ phase' \in {"failed", "completed", "paused"}
      /\ UNCHANGED <<sortVars, iteration, decisions, sentBack>>
  BY DEF CompileFails, Misroute, NodeThrows, PauseAtHitl, PauseAtDelay, Finish
<1>2. Nodes' = Nodes /\ flow' = flow
  BY <1>1, SortVarsKept
<1>3. CASE PauseAtDelay
  <2>1. Node \in Nodes /\ flow.kind[Node] = "delay"
    BY <1>3, AtSortedNode DEF PauseAtDelay, AtNode, Node, WalkTypeOK
  <2> QED BY <1>2, <2>1 DEF LoopsCounted
<1>4. CASE PauseAtHitl
  <2>1. stored' = NextIteration(stored) /\ stored \in Nat /\ decisions \in Nat
    BY <1>4 DEF PauseAtHitl, WalkTypeOK
  <2>2. (\A n \in Nodes : flow.kind[n] # "delay") => stored' > decisions + 1 /\ stored' > decisions
    BY <2>1 DEF LoopsCounted, NextIteration
  <2> QED BY <1>1, <1>2, <2>2 DEF LoopsCounted
<1>5. CASE CompileFails \/ Misroute \/ NodeThrows \/ Finish
  <2>1. phase' # "paused" /\ stored' = stored
    BY <1>5 DEF CompileFails, Misroute, NodeThrows, Finish
  <2> QED BY <1>1, <1>2, <2>1 DEF LoopsCounted
<1> QED BY <1>3, <1>4, <1>5

(* A node that sends back has not reached its limit, nor has any decision  *)
(* made so far.                                                            *)
LEMMA SendBackStaysCounted == ASSUME EngineInv, LoopsCounted, SendBack PROVE LoopsCounted'
<1> USE DEF EngineInv
<1>1. /\ UNCHANGED <<sortVars, phase, error, control>> /\ phase = "running" /\ Node \in Nodes
      /\ sentBack' = [sentBack EXCEPT ![Node] = @ \cup {decisions}] /\ ~LimitReached
      /\ approval # Absent
  BY AtSortedNode DEF SendBack, Decided, AtNode, Node, WalkTypeOK
<1>2. Nodes' = Nodes /\ flow' = flow
  BY <1>1, SortVarsKept
<1>3. decisions \in Nat \ {0}
  BY <1>1 DEF JobOK
<1>4. ASSUME \A n \in Nodes : flow.kind[n] # "delay", NEW n \in Nodes, flow.limit[n] > 0
      PROVE  sentBack'[n] \subseteq 1..flow.limit[n]
  <2>1. sentBack[n] \subseteq 1..flow.limit[n]
    BY <1>4 DEF LoopsCounted
  <2>2. CASE n # Node
    BY <1>1, <2>1, <2>2 DEF WalkTypeOK
  <2>3. CASE n = Node
    <3>1. flow.limit[n] \in Nat
      BY FlowsAreRoutable DEF SortInv, FlowOK, Nodes
    <3>2. iteration < flow.limit[n] /\ iteration > decisions /\ iteration \in Nat
      BY <1>1, <1>3, <1>4, <2>3, <3>1 DEF LimitReached, LoopsCounted, WalkTypeOK
    <3>3. decisions \in 1..flow.limit[n]
      BY <1>3, <3>1, <3>2
    <3>4. sentBack'[n] = sentBack[n] \cup {decisions}
      BY <1>1, <2>3 DEF WalkTypeOK
    <3> QED BY <2>1, <3>3, <3>4
  <2> QED BY <2>2, <2>3
<1> QED BY <1>1, <1>2, <1>4 DEF LoopsCounted

LEMMA NextWalkStaysCounted ==
  ASSUME EngineInv, LoopsCounted, (\E d \in Routes : Decide(d)) \/ ResumeDelay \/ Retry
  PROVE  LoopsCounted'
<1> USE DEF EngineInv
<1>1. /\ phase' # "paused" /\ phase # "sorting" /\ stored \in Nat /\ decisions \in Nat
      /\ UNCHANGED <<sortVars, stored, sentBack>>
  BY DEF Decide, ResumeDelay, Retry, WalkFrom, WalkTypeOK
<1>2. Nodes' = Nodes /\ flow' = flow
  BY <1>1, SortVarsKept
<1>3. CASE \E d \in Routes : Decide(d)
  <2>1. /\ phase = "paused" /\ decisions' = decisions + 1
        /\ iteration' = IF stored = 0 THEN 1 ELSE stored
    BY <1>3 DEF Decide
  <2> QED BY <1>1, <1>2, <2>1 DEF LoopsCounted
<1>4. CASE ResumeDelay
  <2>1. Node \in Nodes /\ flow.kind[Node] = "delay"
    BY <1>4, AtSortedNode DEF ResumeDelay, Staged, Node, WalkTypeOK
  <2> QED BY <1>2, <2>1 DEF LoopsCounted
<1>5. CASE Retry
  BY <1>1, <1>2, <1>5 DEF Retry, LoopsCounted
<1> QED BY <1>3, <1>4, <1>5

LEMMA CountedKeeps == EngineInv /\ LoopsCounted /\ [Next]_vars => LoopsCounted'
<1> SUFFICES ASSUME EngineInv, LoopsCounted, [Next]_vars PROVE LoopsCounted'
  OBVIOUS
<1>1. CASE UNCHANGED vars
  BY <1>1 DEF sortVars, LoopsCounted, Nodes
<1>2. CASE \/ LoadOutput \/ ProvideTool \/ SkipNode
           \/ ComputeOutput \/ ChooseRoute \/ PassDelay \/ PassHitl \/ ExitLoop
  <2>1. UNCHANGED <<sortVars, phase, control, sentBack>>
    BY <1>2 DEF LoadOutput, ProvideTool, SkipNode, ComputeOutput, ChooseRoute, PassDelay,
                PassHitl, ExitLoop
  <2> QED BY <2>1 DEF sortVars, LoopsCounted, Nodes
<1>3. CASE CompileFails \/ Misroute \/ NodeThrows \/ PauseAtHitl \/ PauseAtDelay \/ Finish
  BY <1>3, StopStaysCounted
<1>4. CASE SendBack
  BY <1>4, SendBackStaysCounted
<1>5. CASE Sort \/ StartWalk
  <2>1. flow' = flow /\ phase' # "paused" /\ UNCHANGED <<control, sentBack>>
    BY <1>5, SortKeeps DEF Sort, StartWalk, sortVars, SortNext, ScanNode, EndScan, TakeFromQueue,
       VisitEdge, PassEdge, EndVisit, EndTake, AppendRest, EndRest
  <2> QED BY <2>1 DEF LoopsCounted, Nodes
<1>6. CASE (\E d \in Routes : Decide(d)) \/ ResumeDelay \/ Retry
  BY <1>6, NextWalkStaysCounted
<1> QED BY <1>1, <1>2, <1>3, <1>4, <1>5, <1>6 DEF Next, WalkStep

LEMMA NumbersUpTo ==
  ASSUME NEW k \in Nat
  PROVE  IsFiniteSet(1..k) /\ Cardinality(1..k) = k
<1>1. IsFiniteSet(1..k) /\ Cardinality(1..k) = IF 1 > k THEN 0 ELSE k - 1 + 1
  BY FS_Interval
<1> QED BY <1>1

(* In every flow whose limits are not undone by a delay, which starts the   *)
(* count anew (runner.ts:273-276), a HITL node sends the flow back at most *)
(* as often as its maxIterations says.                                     *)
THEOREM LoopsEndAtTheirLimit ==
  ASSUME \A f \in Flows : (\E n \in ToSet(f.nodes) : f.limit[n] > 0) =>
                            \A n \in ToSet(f.nodes) : f.kind[n] # "delay"
  PROVE  Spec => []SentBackWithinLimit
<1>1. EngineInv /\ LoopsCounted => SentBackWithinLimit
  <2> SUFFICES ASSUME EngineInv, LoopsCounted, NEW n \in Nodes, flow.limit[n] > 0
               PROVE  Cardinality(sentBack[n]) <= flow.limit[n]
    BY DEF SentBackWithinLimit
  <2>1. \A m \in Nodes : flow.kind[m] # "delay"
    BY DEF EngineInv, SortInv, FlowOK, Nodes
  <2>2. sentBack[n] \subseteq 1..flow.limit[n]
    BY <2>1 DEF LoopsCounted
  <2>3. PICK limit \in Nat : limit = flow.limit[n]
    BY FlowsAreRoutable DEF EngineInv, SortInv, FlowOK, Nodes
  <2>4. PICK S : S = 1..limit
    OBVIOUS
  <2>5. IsFiniteSet(S) /\ Cardinality(S) = limit
    BY <2>3, <2>4, NumbersUpTo
  <2>6. sentBack[n] \in SUBSET S
    BY <2>2, <2>3, <2>4
  <2>7. Cardinality(sentBack[n]) <= Cardinality(S)
    BY <2>5, <2>6, FS_Subset
  <2> QED BY <2>3, <2>5, <2>7
<1> QED BY <1>1, CountedInit, CountedKeeps, EngineAlwaysInv, PTL DEF Spec
(* A flow that only leads forward: no cycle, no tool attached.  There the  *)
(* edges of untaken branches are all filtered, and the two readings of the *)
(* edges agree.  ChosenIn and Led read them for outputs of any walk.       *)
Forward == looped = {} /\ \A k \in DOMAIN flow.edges : flow.edges[k].handle # "tool"
ChosenIn(outs, e) ==
  IF e.labelled \/ (e.handle \in Routes \cup {"exit"}
                     /\ flow.kind[e.from] \in {"condition", "switch", "hitl"})
  THEN outs[e.from] = e.handle ELSE TRUE
Led(outs, n) ==
  Incoming(n) = {} \/ \E e \in Incoming(n) : outs[e.from] # "skipped" /\ ChosenIn(outs, e)
SkipsUpTo(outs, p) == \A k \in 1..(p - 1) : outs[sorted[k]] = "skipped" <=> ~Led(outs, sorted[k])
SkipsInv ==
  Forward /\ phase # "sorting" =>
    /\ SkipsUpTo(outputs, i)
    /\ job # NoJob => SkipsUpTo(job.outputs, Place(job.from))

(* An edge comes from a node of the flow, in a forward flow from one       *)
(* earlier in the order.                                                   *)
LEMMA EdgesComeFromBefore ==
  ASSUME EngineInv, stage = "sorted", Forward, NEW k \in DOMAIN sorted, NEW e \in Incoming(sorted[k])
  PROVE  /\ \E s \in 1..(k - 1) : s \in DOMAIN sorted /\ sorted[s] = e.from /\ s = Place(e.from)
         /\ e.handle \in Handles /\ e.handle # "tool" /\ e.labelled \in BOOLEAN
         /\ flow.kind[e.from] \in Kinds
<1> USE DEF EngineInv
<1>1. PICK x \in DOMAIN flow.edges : x \in EdgesInto(sorted[k]) /\ e = flow.edges[x]
  BY DEF Incoming, EdgesInto
<1>2. e.from \in Nodes /\ flow \in Flows
  BY <1>1, FlowShape DEF SortInv, FlowOK
<1>3. PICK s \in 1..(k - 1) : sorted[s] = e.from
  BY <1>1 DEF SortInv, SourcesComeFirst, Forward
<1>4. DOMAIN sorted = 1..Len(sorted) /\ Len(sorted) \in Nat
  BY DEF SortInv, Shape
<1>5. s \in DOMAIN sorted
  BY <1>3, <1>4
<1>6. s = Place(e.from)
  <2>1. Place(e.from) \in DOMAIN sorted /\ sorted[Place(e.from)] = e.from
    BY <1>2, NodesArePlaced
  <2> QED BY <1>3, <1>5, <2>1 DEF SortInv, Once
<1>7. e.handle \in Handles /\ e.labelled \in BOOLEAN /\ flow.kind[e.from] \in Kinds
  BY <1>1, <1>2, FlowsAreRoutable DEF Nodes
<1> QED BY <1>1, <1>3, <1>5, <1>6, <1>7 DEF Forward

(* Whether a node is led to depends on the nodes before it only. *)
LEMMA LedByThoseBefore ==
  ASSUME EngineInv, stage = "sorted", Forward, NEW k \in DOMAIN sorted, NEW one, NEW other,
         \A s \in 1..(k - 1) : one[sorted[s]] = other[sorted[s]]
  PROVE  Led(one, sorted[k]) <=> Led(other, sorted[k])
<1>1. \A e \in Incoming(sorted[k]) : one[e.from] = other[e.from]
  BY EdgesComeFromBefore
<1> QED BY <1>1 DEF Led, ChosenIn

LEMMA FilteredUnlessLed ==
  ASSUME EngineInv, Forward, AtNode
  PROVE  AllFiltered(Node) <=> ~Led(outputs, Node)
<1> USE DEF EngineInv
<1>1. stage = "sorted" /\ i \in DOMAIN sorted /\ Node = sorted[i] /\ phase # "sorting"
  BY AtSortedNode DEF AtNode, Node, Staged, WalkTypeOK
<1>2. ASSUME NEW e \in Incoming(Node)
      PROVE  Filtered(e) <=> ~(outputs[e.from] # "skipped" /\ ChosenIn(outputs, e))
  <2>1. /\ \E s \in 1..(i - 1) : sorted[s] = e.from
        /\ e.handle \in Handles /\ e.handle # "tool" /\ e.labelled \in BOOLEAN
        /\ flow.kind[e.from] \in Kinds
    BY <1>1, <1>2, EdgesComeFromBefore
  <2>2. outputs[e.from] # Absent
    BY <1>1, <2>1 DEF Visits
  <2>3. "exit" \notin Routes
    BY DEF Routes
  <2> QED BY <2>1, <2>2, <2>3 DEF Filtered, Unmatched, ChosenIn, Kinds, Handles
<1> QED BY <1>2 DEF AllFiltered, Led

LEMMA SkipsKept ==
  ASSUME UNCHANGED sortVars
  PROVE  /\ Forward' <=> Forward
         /\ \A outs, p : SkipsUpTo(outs, p)' <=> SkipsUpTo(outs, p)
         /\ \A n : Place(n)' = Place(n)
BY DEF sortVars, Forward, SkipsUpTo, Led, ChosenIn, Incoming, EdgesInto, Place

(* Passing a node: an output is "skipped" just when nothing leads there,   *)
(* and a loaded one was so in the walk that saved it.                      *)
LEMMA AdvanceSkipsRightly ==
  ASSUME EngineInv, SkipsInv, AtNode, NEW out, NEW stamp, Advance(out, stamp),
         UNCHANGED <<sortVars, phase, job>>,
         Loads(Node) => out = job.outputs[Node],
         Forward /\ ~Loads(Node) => (out = "skipped" <=> ~Led(outputs, Node))
  PROVE  SkipsInv'
<1> USE DEF EngineInv
<1> SUFFICES ASSUME Forward
             PROVE  /\ SkipsUpTo(outputs', i + 1)
                    /\ job # NoJob => SkipsUpTo(job.outputs, Place(job.from))
  <2>1. i' = i + 1 /\ job' = job /\ phase' = phase
    BY DEF Advance
  <2>2. PICK outs : outs = outputs'
    OBVIOUS
  <2>3. PICK q : q = i + 1
    OBVIOUS
  <2> QED BY <2>1, <2>2, <2>3, SkipsKept DEF SkipsInv
<1>1. /\ phase = "running" /\ stage = "sorted" /\ Node = sorted[i] /\ i \in DOMAIN sorted
      /\ DOMAIN sorted = 1..Len(sorted) /\ Len(sorted) \in Nat
      /\ \A j, k \in DOMAIN sorted : sorted[j] = sorted[k] => j = k
      /\ \A k \in DOMAIN sorted : sorted[k] \in Nodes
  BY SortVarsKept DEF AtNode, Node, Staged, WalkTypeOK
<1>2. outputs' = [outputs EXCEPT ![sorted[i]] = out] /\ outputs \in [Nodes -> Outputs]
  BY <1>1 DEF Advance, WalkTypeOK
<1>3. \A k \in 1..(i - 1) : k \in DOMAIN sorted /\ sorted[k] \in Nodes /\ sorted[k] # sorted[i]
  BY <1>1
<1>4. outputs'[sorted[i]] = out /\ \A k \in 1..(i - 1) : outputs'[sorted[k]] = outputs[sorted[k]]
  BY <1>1, <1>2, <1>3
<1>5. PICK outs : outs = outputs
  OBVIOUS
<1>6. PICK news : news = outputs'
  OBVIOUS
<1>7. SkipsUpTo(outs, i)
  BY <1>1, <1>5 DEF SkipsInv
<1>8. \A k \in 1..i : Led(outs, sorted[k]) <=> Led(news, sorted[k])
  <2> SUFFICES ASSUME NEW k \in 1..i PROVE Led(outs, sorted[k]) <=> Led(news, sorted[k])
    OBVIOUS
  <2>1. k \in DOMAIN sorted /\ \A s \in 1..(k - 1) : s \in 1..(i - 1)
    BY <1>1
  <2>2. \A s \in 1..(k - 1) : outs[sorted[s]] = news[sorted[s]]
    BY <1>4, <1>5, <1>6, <2>1
  <2> QED BY <1>1, <2>1, <2>2, LedByThoseBefore
<1>9. out = "skipped" <=> ~Led(outs, sorted[i])
  <2>1. CASE ~Loads(Node)
    BY <1>1, <1>5, <2>1
  <2>2. CASE Loads(Node)
    <3>1. beforeHitl /\ Node # job.from /\ job # NoJob
      BY <2>2 DEF Loads, Replays
    <3>2. i <= Place(job.from) /\ Place(job.from) \in DOMAIN sorted /\ sorted[Place(job.from)] = job.from
      BY <1>1, <3>1, ResumedIsAhead
    <3>3. i \in 1..(Place(job.from) - 1)
      <4>1. i # Place(job.from)
        BY <1>1, <3>1, <3>2
      <4> QED BY <1>1, <3>2, <4>1
    <3>4. PICK saved : saved = job.outputs
      OBVIOUS
    <3>5. SkipsUpTo(saved, Place(job.from))
      BY <1>1, <3>1, <3>4 DEF SkipsInv
    <3>6. saved[sorted[i]] = "skipped" <=> ~Led(saved, sorted[i])
      BY <3>3, <3>5 DEF SkipsUpTo
    <3>7. \A s \in 1..(i - 1) : outs[sorted[s]] = saved[sorted[s]]
      BY <1>5, <3>1, <3>4 DEF Replays
    <3>8. Led(outs, sorted[i]) <=> Led(saved, sorted[i])
      BY <1>1, <3>7, LedByThoseBefore
    <3> QED BY <1>1, <2>2, <3>4, <3>6, <3>8
  <2> QED BY <2>1, <2>2
<1>10. SkipsUpTo(news, i + 1)
  <2> SUFFICES ASSUME NEW k \in 1..i PROVE news[sorted[k]] = "skipped" <=> ~Led(news, sorted[k])
    BY <1>1 DEF SkipsUpTo
  <2>1. CASE k = i
    BY <1>4, <1>6, <1>8, <1>9, <2>1
  <2>2. CASE k \in 1..(i - 1)
    BY <1>4, <1>5, <1>6, <1>7, <1>8, <2>2 DEF SkipsUpTo
  <2> QED BY <1>1, <2>1, <2>2
<1> QED BY <1>1, <1>6, <1>10 DEF SkipsInv
LEMMA WalkStaysOnSkips ==
  ASSUME EngineInv, SkipsInv,
         \/ LoadOutput \/ ProvideTool \/ SkipNode
         \/ ComputeOutput \/ ChooseRoute \/ PassDelay \/ PassHitl \/ ExitLoop
  PROVE  SkipsInv'
<1> USE DEF EngineInv
<1>1. CASE LoadOutput
  BY <1>1, AdvanceSkipsRightly DEF LoadOutput
<1>2. CASE ProvideTool
  <2>1. ~Forward
    <3>1. PICK k \in EdgesFrom(Node) : flow.edges[k].handle = "tool"
      BY <1>2 DEF ProvideTool, IsToolProvider
    <3> QED BY <3>1 DEF Forward, EdgesFrom
  <2> QED BY <1>2, <2>1, AdvanceSkipsRightly DEF ProvideTool
<1>3. CASE SkipNode
  <2>1. Forward => ~Led(outputs, Node)
    BY <1>3, FilteredUnlessLed DEF SkipNode
  <2> QED BY <1>3, <2>1, AdvanceSkipsRightly DEF SkipNode, Routed
<1>4. ASSUME NEW out \in Outputs \ {"skipped"}, AtNode, Runs(Node), Run(out),
             UNCHANGED <<sortVars, phase, job>>
      PROVE  SkipsInv'
  <2>1. Advance(out, clock + 1) /\ ~Loads(Node)
    BY <1>4 DEF Run, Runs, Routed
  <2>2. Forward => Led(outputs, Node)
    BY <1>4, FilteredUnlessLed DEF Runs
  <2> QED BY <1>4, <2>1, <2>2, AdvanceSkipsRightly
<1>5. {"done", "exit"} \cup Routes \subseteq Outputs \ {"skipped"}
  BY DEF Outputs, Routes
<1>6. CASE ComputeOutput \/ PassDelay
  BY <1>4, <1>5, <1>6 DEF ComputeOutput, PassDelay
<1>7. CASE ChooseRoute
  BY <1>4, <1>5, <1>7 DEF ChooseRoute
<1>8. CASE PassHitl \/ ExitLoop
  <2>1. approval # Absent => approval \in Routes
    BY DEF WalkTypeOK
  <2> QED BY <1>4, <1>5, <1>8, <2>1 DEF PassHitl, ExitLoop, Decided
<1> QED BY <1>1, <1>2, <1>3, <1>6, <1>7, <1>8

(* A forward flow is not sent back. *)
LEMMA ForwardIsNotSentBack == ASSUME EngineInv, SendBack PROVE ~Forward
<1> USE DEF EngineInv
<1> SUFFICES ASSUME Forward PROVE FALSE
  OBVIOUS
<1>1. PICK k \in FeedbackEdges(approval) : TRUE
  BY DEF SendBack
<1>2. /\ k \in DOMAIN flow.edges /\ flow.edges[k].from = Node /\ Place(flow.edges[k].to) < i
      /\ flow.edges[k].to \in Nodes /\ stage = "sorted" /\ Node = sorted[i] /\ i \in DOMAIN sorted
  BY <1>1, FlowShape, AtSortedNode
     DEF FeedbackEdges, EdgesFrom, SortInv, SendBack, Decided, AtNode, Staged, Node, WalkTypeOK
<1>3. PICK p \in DOMAIN sorted : p = Place(flow.edges[k].to) /\ sorted[p] = flow.edges[k].to
  BY <1>2, NodesArePlaced
<1>4. flow.edges[k] \in Incoming(sorted[p])
  BY <1>2, <1>3 DEF Incoming, EdgesInto
<1>5. PICK s \in 1..(p - 1) : s \in DOMAIN sorted /\ sorted[s] = Node
  BY <1>2, <1>3, <1>4, EdgesComeFromBefore
<1>6. s = i
  BY <1>2, <1>5 DEF SortInv, Once
<1>7. DOMAIN sorted = 1..Len(sorted) /\ Len(sorted) \in Nat
  BY DEF SortInv, Shape
<1> QED BY <1>2, <1>3, <1>5, <1>6, <1>7

LEMMA NextWalkStaysOnSkips ==
  ASSUME EngineInv, SkipsInv, (\E d \in Routes : Decide(d)) \/ ResumeDelay \/ Retry
  PROVE  SkipsInv'
<1> USE DEF EngineInv
<1>1. /\ UNCHANGED sortVars /\ phase # "sorting" /\ i' = 1 /\ stage = "sorted"
  BY DEF Decide, ResumeDelay, Retry, WalkFrom, Staged
<1>2. PICK outs : outs = outputs'
  OBVIOUS
<1>3. SkipsUpTo(outs, 1)
  BY DEF SkipsUpTo
<1>4. PICK saved : saved = job'.outputs
  OBVIOUS
<1>5. PICK from : from = job'.from
  OBVIOUS
<1>6. Forward /\ job' # NoJob => SkipsUpTo(saved, Place(from))
  <2> SUFFICES ASSUME Forward, job' # NoJob PROVE SkipsUpTo(saved, Place(from))
    OBVIOUS
  <2>1. CASE (\E d \in Routes : Decide(d)) \/ ResumeDelay
    <3>1. phase = "paused" /\ from = Node /\ saved = outputs
      BY <1>4, <1>5, <2>1 DEF Decide, ResumeDelay, WalkFrom, SavedWalk
    <3>2. i \in DOMAIN sorted /\ Node = sorted[i] /\ Node \in Nodes
      BY <3>1, AtSortedNode DEF Staged, WalkTypeOK, Node
    <3>3. Place(from) = i
      BY <1>1, <3>1, <3>2, NodesArePlaced DEF SortInv, Once
    <3> QED BY <1>1, <3>1, <3>3 DEF SkipsInv
  <2>2. CASE Retry
    BY <1>1, <1>4, <1>5, <2>2 DEF Retry, WalkFrom, SkipsInv
  <2> QED BY <2>1, <2>2
<1>7. /\ Forward' <=> Forward
      /\ SkipsUpTo(outs, 1)' <=> SkipsUpTo(outs, 1)
      /\ Place(from)' = Place(from)
      /\ SkipsUpTo(saved, Place(from))' <=> SkipsUpTo(saved, Place(from))
  <2>1. PICK q : q = Place(from)
    OBVIOUS
  <2>2. Place(from)' = q /\ (SkipsUpTo(saved, q)' <=> SkipsUpTo(saved, q))
    BY <1>1, <2>1, SkipsKept
  <2> QED BY <1>1, <2>1, <2>2, SkipsKept
<1> QED BY <1>1, <1>2, <1>3, <1>4, <1>5, <1>6, <1>7 DEF SkipsInv

LEMMA SkipsKeep == EngineInv /\ SkipsInv /\ [Next]_vars => SkipsInv'
<1> SUFFICES ASSUME EngineInv, SkipsInv, [Next]_vars PROVE SkipsInv'
  OBVIOUS
<1>1. ASSUME phase # "sorting", UNCHANGED <<sortVars, i, outputs, job>> PROVE SkipsInv'
  <2>1. PICK outs, p, saved, q : outs = outputs /\ p = i /\ saved = job.outputs /\ q = Place(job.from)
    OBVIOUS
  <2>2. Place(job.from)' = q
    BY <1>1, <2>1, SkipsKept
  <2>3. Forward => SkipsUpTo(outs, p) /\ (job # NoJob => SkipsUpTo(saved, q))
    BY <1>1, <2>1 DEF SkipsInv
  <2>4. Forward' => SkipsUpTo(outs, p)' /\ (job # NoJob => SkipsUpTo(saved, q)')
    BY <1>1, <2>3, SkipsKept
  <2> QED BY <1>1, <2>1, <2>2, <2>4 DEF SkipsInv
<1>2. ASSUME phase = "sorting", UNCHANGED <<phase, i, outputs, job>> \/ StartWalk PROVE SkipsInv'
  <2>1. i' = 1 /\ job' = NoJob
    BY <1>2 DEF EngineInv, Staged, StartWalk
  <2> QED BY <2>1 DEF SkipsInv, SkipsUpTo
<1>3. CASE UNCHANGED vars
  BY <1>1, <1>2, <1>3
<1>4. CASE CompileFails \/ Misroute \/ NodeThrows \/ PauseAtHitl \/ PauseAtDelay \/ Finish
  <2>1. phase # "sorting" /\ UNCHANGED <<sortVars, i, outputs, job>>
    BY <1>4 DEF CompileFails, Misroute, NodeThrows, PauseAtHitl, PauseAtDelay, Finish, AtNode
  <2> QED BY <1>1, <2>1
<1>5. CASE \/ LoadOutput \/ ProvideTool \/ SkipNode
           \/ ComputeOutput \/ ChooseRoute \/ PassDelay \/ PassHitl \/ ExitLoop
  BY <1>5, WalkStaysOnSkips
<1>6. CASE SendBack
  <2>1. ~Forward /\ UNCHANGED sortVars
    BY <1>6, ForwardIsNotSentBack DEF SendBack
  <2> QED BY <2>1, SkipsKept DEF SkipsInv
<1>7. CASE Sort \/ StartWalk
  BY <1>2, <1>7 DEF Sort, StartWalk
<1>8. CASE (\E d \in Routes : Decide(d)) \/ ResumeDelay \/ Retry
  BY <1>8, NextWalkStaysOnSkips
<1> QED BY <1>3, <1>4, <1>5, <1>6, <1>7, <1>8 DEF Next, WalkStep

LEMMA SkipsInit == Init => SkipsInv
BY DEF Init, SkipsInv
(* Sets of numbers have a least element. *)
LEMMA LeastOfSet ==
  ASSUME NEW S, S \subseteq Nat, S # {}
  PROVE  \E m \in S : \A x \in S : m <= x
<1>0. PICK R : R = OpToRel(<, Nat)
  OBVIOUS
<1>1. \A x, y \in Nat : x < y => <<x, y>> \in R
  BY <1>0 DEF OpToRel
<1>2. IsWellFoundedOn(R, Nat)
  BY <1>0, NatLessThanWellFounded
<1>3. PICK m \in S : \A x \in S : <<x, m>> \notin R
  BY <1>2, WFMin
<1>4. ASSUME NEW x \in S PROVE m <= x
  <2>1. m \in Nat /\ x \in Nat /\ <<x, m>> \notin R
    BY <1>3
  <2>2. ~(x < m)
    BY <1>1, <2>1, Zenon
  <2> QED BY <2>1, <2>2
<1> QED BY <1>4

(* The places that are reached, as far as the m-th: a set is built up that *)
(* satisfies the recursion, so that Reached does.                          *)
FromReached(T, k) ==
  Earlier(sorted[k]) = {} \/ \E e \in Earlier(sorted[k]) : Place(e.from) \in T /\ Selected(e)
ReachedUpTo(T, m) == T \subseteq DOMAIN sorted /\ \A k \in 1..m : k \in T <=> FromReached(T, k)

LEMMA ReachedExists ==
  ASSUME SortInv, stage = "sorted"
  PROVE  \E T : ReachedUpTo(T, Len(sorted))
<1>1. DOMAIN sorted = 1..Len(sorted) /\ Len(sorted) \in Nat
  BY DEF SortInv, Shape
<1> DEFINE Bad == {m \in 0..Len(sorted) : ~\E T : ReachedUpTo(T, m)}
<1> SUFFICES Bad = {}
  BY <1>1
<1>2. ASSUME NEW m \in Bad, \A x \in Bad : m <= x PROVE FALSE
  <2>1. m \in Nat /\ m <= Len(sorted) /\ ~\E T : ReachedUpTo(T, m)
    BY <1>1
  <2>2. CASE m = 0
    <3>1. ReachedUpTo({}, 0)
      BY DEF ReachedUpTo
    <3> QED BY <2>1, <2>2, <3>1
  <2>3. CASE m # 0
    <3>1. m - 1 \in 0..Len(sorted) /\ m - 1 \notin Bad
      BY <1>1, <1>2, <2>1, <2>3
    <3>2. PICK T : ReachedUpTo(T, m - 1)
      BY <3>1
    <3>3. PICK U : U = (T \ {m}) \cup (IF FromReached(T, m) THEN {m} ELSE {})
      OBVIOUS
    <3>4. \A k \in 1..m : FromReached(U, k) <=> FromReached(T, k)
      <4> SUFFICES ASSUME NEW k \in 1..m PROVE FromReached(U, k) <=> FromReached(T, k)
        OBVIOUS
      <4>1. k \in DOMAIN sorted
        BY <1>1, <2>1
      <4>2. Place(sorted[k]) = k
        <5>1. sorted[k] \in Nodes
          BY <4>1 DEF SortInv, Shape
        <5> QED BY <4>1, <5>1, NodesArePlaced DEF SortInv, Once
      <4>3. \A e \in Earlier(sorted[k]) : Place(e.from) # m
        BY <1>1, <2>1, <4>2 DEF Earlier
      <4>4. \A e \in Earlier(sorted[k]) : Place(e.from) \in U <=> Place(e.from) \in T
        BY <3>3, <4>3
      <4> QED BY <4>4 DEF FromReached
    <3>5. ReachedUpTo(U, m)
      <4>1. U \subseteq DOMAIN sorted
        BY <1>1, <2>1, <2>3, <3>2, <3>3 DEF ReachedUpTo
      <4>2. ASSUME NEW k \in 1..m PROVE k \in U <=> FromReached(U, k)
        <5>1. CASE k = m
          BY <3>3, <3>4, <5>1
        <5>2. CASE k # m
          <6>1. k \in 1..(m - 1)
            BY <2>1, <5>2
          <6> QED BY <3>2, <3>3, <3>4, <5>2, <6>1 DEF ReachedUpTo
        <5> QED BY <5>1, <5>2
      <4> QED BY <4>1, <4>2 DEF ReachedUpTo
    <3> QED BY <2>1, <3>5
  <2> QED BY <2>2, <2>3
<1>3. Bad \subseteq Nat
  BY <1>1
<1> HIDE DEF Bad
<1> QED BY <1>2, <1>3, LeastOfSet

LEMMA ReachedUnfolds ==
  ASSUME SortInv, stage = "sorted"
  PROVE  \A k \in DOMAIN sorted :
           Reached[k] <=> \/ Earlier(sorted[k]) = {}
                          \/ \E e \in Earlier(sorted[k]) : Reached[Place(e.from)] /\ Selected(e)
<1> DEFINE Step(f) == [k \in DOMAIN sorted |->
                         \/ Earlier(sorted[k]) = {}
                         \/ \E e \in Earlier(sorted[k]) : f[Place(e.from)] /\ Selected(e)]
<1>1. DOMAIN sorted = 1..Len(sorted) /\ Len(sorted) \in Nat
  BY DEF SortInv, Shape
<1>2. PICK T : ReachedUpTo(T, Len(sorted))
  BY ReachedExists
<1>3. PICK f : f = [k \in DOMAIN sorted |-> k \in T]
  OBVIOUS
<1>4. f = Step(f)
  <2>1. \A k \in DOMAIN sorted : \A e \in Earlier(sorted[k]) : Place(e.from) \in DOMAIN sorted
    <3> SUFFICES ASSUME NEW k \in DOMAIN sorted, NEW e \in Earlier(sorted[k])
                 PROVE  Place(e.from) \in DOMAIN sorted
      OBVIOUS
    <3>1. PICK x \in DOMAIN flow.edges : e = flow.edges[x]
      BY DEF Earlier, Incoming, EdgesInto
    <3>2. e.from \in Nodes
      BY <3>1, FlowShape DEF SortInv
    <3> QED BY <3>2, NodesArePlaced
  <2>2. \A k \in DOMAIN sorted :
          f[k] = (\/ Earlier(sorted[k]) = {}
                  \/ \E e \in Earlier(sorted[k]) : f[Place(e.from)] /\ Selected(e))
    <3> SUFFICES ASSUME NEW k \in DOMAIN sorted
                 PROVE  f[k] = (\/ Earlier(sorted[k]) = {}
                                \/ \E e \in Earlier(sorted[k]) : f[Place(e.from)] /\ Selected(e))
      OBVIOUS
    <3> DEFINE Here == \/ Earlier(sorted[k]) = {}
                       \/ \E e \in Earlier(sorted[k]) : f[Place(e.from)] /\ Selected(e)
    <3>1. f[k] = (k \in T)
      BY <1>3
    <3>2. \A e \in Earlier(sorted[k]) : f[Place(e.from)] = (Place(e.from) \in T)
      BY <1>3, <2>1, Zenon
    <3>3. FromReached(T, k) <=> Here
      BY <3>2, Zenon DEF FromReached
    <3> HIDE DEF Here
    <3>4. k \in T <=> Here
      BY <1>1, <1>2, <3>3 DEF ReachedUpTo
    <3>5. (k \in T) = Here
      BY <3>4
    <3>6. f[k] = Here
      BY <3>1, <3>5, Zenon
    <3> QED BY <3>6 DEF Here
  <2> QED BY <1>3, <2>2, Zenon
<1>5. Reached = CHOOSE g : g = Step(g)
  BY DEF Reached
<1>6. Reached = Step(Reached)
  <2> HIDE DEF Step
  <2> QED BY <1>4, <1>5
<1> QED BY <1>6

(* In every flow that only leads forward, through its pauses, replays and   *)
(* retries: a node is skipped exactly when no selected edge leads to it.   *)
(* What else may happen where edges lead back or attach tools is finding   *)
(* untaken_is_skipped.                                                     *)
THEOREM UntakenBranchesAreSkipped ==
  Spec => [](Forward => UntakenIsSkipped)
<1>1. EngineInv /\ SkipsInv => (Forward => UntakenIsSkipped)
  <2> SUFFICES ASSUME EngineInv, SkipsInv, Forward, phase \in {"running", "paused", "completed"}
               PROVE  \A k \in 1..(i - 1) : outputs[sorted[k]] = "skipped" <=> ~Reached[k]
    BY DEF UntakenIsSkipped
  <2> USE DEF EngineInv
  <2>1. /\ stage = "sorted" /\ SkipsUpTo(outputs, i) /\ i \in 1..(Len(sorted) + 1)
        /\ DOMAIN sorted = 1..Len(sorted) /\ Len(sorted) \in Nat
    BY DEF Staged, SkipsInv, WalkTypeOK, SortInv, Shape
  <2> DEFINE Bad == {k \in 1..(i - 1) : ~(outputs[sorted[k]] = "skipped" <=> ~Reached[k])}
  <2>2. ASSUME NEW k \in Bad, \A x \in Bad : k <= x PROVE FALSE
    <3>1. k \in DOMAIN sorted /\ k \in 1..(i - 1)
      BY <2>1
    <3>2. ASSUME NEW e \in Incoming(sorted[k])
          PROVE  /\ e \in Earlier(sorted[k])
                 /\ outputs[e.from] # "skipped" <=> Reached[Place(e.from)]
                 /\ Selected(e) <=> ChosenIn(outputs, e)
      <4>1. PICK s \in 1..(k - 1) : s \in DOMAIN sorted /\ sorted[s] = e.from /\ s = Place(e.from)
        BY <2>1, <3>1, <3>2, EdgesComeFromBefore
      <4>2. s < k /\ s \in 1..(i - 1) /\ s \notin Bad
        BY <2>1, <2>2, <3>1
      <4>3. e.handle # "tool"
        BY <2>1, <3>1, <3>2, EdgesComeFromBefore
      <4>4. Place(sorted[k]) = k
        <5>1. sorted[k] \in Nodes
          BY <3>1 DEF SortInv, Shape
        <5> QED BY <2>1, <3>1, <5>1, NodesArePlaced DEF SortInv, Once
      <4>5. outputs[e.from] # "skipped" <=> Reached[Place(e.from)]
        BY <4>1, <4>2
      <4> QED BY <3>2, <4>1, <4>2, <4>3, <4>4, <4>5 DEF Earlier, Selected, ChosenIn
    <3>3. Earlier(sorted[k]) = Incoming(sorted[k])
      BY <3>2 DEF Earlier
    <3>4. Reached[k] <=> Led(outputs, sorted[k])
      BY <2>1, <3>1, <3>2, <3>3, ReachedUnfolds DEF Led
    <3>5. outputs[sorted[k]] = "skipped" <=> ~Led(outputs, sorted[k])
      BY <2>1, <3>1 DEF SkipsUpTo
    <3> QED BY <3>4, <3>5
  <2>3. Bad \subseteq Nat
    BY <2>1
  <2>4. Bad = {}
    <3> HIDE DEF Bad
    <3> QED BY <2>2, <2>3, LeastOfSet
  <2> QED BY <2>4
<1> QED BY <1>1, SkipsInit, SkipsKeep, EngineStarts, EngineKeeps, PTL DEF Spec

(* Sorted, a flow has as many places as nodes. *)
LEMMA PlacesAreNodes ==
  ASSUME SortInv, stage = "sorted"
  PROVE  Len(sorted) = Len(flow.nodes)
<1>1. /\ DOMAIN flow.nodes = 1..Len(flow.nodes) /\ Len(flow.nodes) \in Nat
      /\ \A j, k \in DOMAIN flow.nodes : flow.nodes[j] = flow.nodes[k] => j = k
      /\ \A k \in DOMAIN flow.nodes : flow.nodes[k] \in Nodes
      /\ \A n \in Nodes : \E k \in DOMAIN flow.nodes : flow.nodes[k] = n
  BY FlowShape DEF SortInv
<1>2. /\ DOMAIN sorted = 1..Len(sorted) /\ Len(sorted) \in Nat
      /\ \A j, k \in DOMAIN sorted : sorted[j] = sorted[k] => j = k
      /\ \A k \in DOMAIN sorted : sorted[k] \in Nodes
  BY DEF SortInv, Shape, Once
<1>3. \A n \in Nodes : \E k \in DOMAIN sorted : sorted[k] = n
  BY SortedIsEverything DEF ToSet
<1> DEFINE match == [j \in 1..Len(sorted) |-> CHOOSE k \in 1..Len(flow.nodes) : flow.nodes[k] = sorted[j]]
<1>4. \A j \in 1..Len(sorted) : match[j] \in 1..Len(flow.nodes) /\ flow.nodes[match[j]] = sorted[j]
  BY <1>1, <1>2
<1>5. match \in Bijection(1..Len(sorted), 1..Len(flow.nodes))
  <2>1. match \in Injection(1..Len(sorted), 1..Len(flow.nodes))
    <3>1. match \in [1..Len(sorted) -> 1..Len(flow.nodes)]
      BY <1>4
    <3>2. ASSUME NEW j \in 1..Len(sorted), NEW k \in 1..Len(sorted), match[j] = match[k] PROVE j = k
      <4>1. sorted[j] = sorted[k]
        BY <1>4, <3>2
      <4> QED BY <1>2, <4>1
    <3> QED BY <3>1, <3>2 DEF Injection, IsInjective
  <2>2. \A k \in 1..Len(flow.nodes) : \E j \in 1..Len(sorted) : match[j] = k
    <3> SUFFICES ASSUME NEW k \in 1..Len(flow.nodes) PROVE \E j \in 1..Len(sorted) : match[j] = k
      OBVIOUS
    <3>1. PICK j \in 1..Len(sorted) : sorted[j] = flow.nodes[k]
      BY <1>1, <1>2, <1>3
    <3> QED BY <1>1, <1>4, <3>1
  <2> QED BY <2>1, <2>2 DEF Bijection, Surjection, Injection
<1>6. ExistsBijection(1..Len(sorted), 1..Len(flow.nodes))
  BY <1>5 DEF ExistsBijection
<1>7. Cardinality(1..Len(flow.nodes)) = Cardinality(1..Len(sorted))
  BY <1>2, <1>6, FS_Interval, FS_Bijection
<1>8. Cardinality(1..Len(flow.nodes)) = Len(flow.nodes) /\ Cardinality(1..Len(sorted)) = Len(sorted)
  <2>1. \A m \in Nat : Cardinality(1..m) = m
    <3> SUFFICES ASSUME NEW m \in Nat PROVE Cardinality(1..m) = m
      OBVIOUS
    <3>1. Cardinality(1..m) = IF 1 > m THEN 0 ELSE m - 1 + 1
      BY FS_Interval
    <3> QED BY <3>1
  <2> QED BY <1>1, <1>2, <2>1
<1> QED BY <1>7, <1>8

(* The results before a place are as many as the places before it. *)
LEMMA ResultsAreInOrder ==
  ASSUME EngineInv, phase # "sorting", NEW outs \in [Nodes -> Outputs], NEW p \in 1..(Len(sorted) + 1)
  PROVE  /\ ResultsBefore(outs, p) \in Seq(Outputs) /\ Len(ResultsBefore(outs, p)) = p - 1
         /\ \A k \in 1..(p - 1) : ResultsBefore(outs, p)[k] = outs[sorted[k]]
<1>1. /\ Len(sorted) \in Nat /\ p \in Nat /\ p - 1 \in Nat
      /\ \A k \in 1..(p - 1) : sorted[k] \in Nodes
  BY DEF EngineInv, SortInv, Shape
<1>2. ResultsBefore(outs, p) \in [1..(p - 1) -> Outputs]
  BY <1>1 DEF ResultsBefore
<1>3. /\ ResultsBefore(outs, p) \in Seq(Outputs) /\ Len(ResultsBefore(outs, p)) = p - 1
  BY <1>1, <1>2
<1> QED BY <1>3 DEF ResultsBefore

LEMMA NothingBefore == \A outs : ResultsBefore(outs, 1) = <<>>
BY DEF ResultsBefore

(* Where a walk stands for its author: a replay where it will resume.      *)
Standing == IF beforeHitl THEN Place(job.from) ELSE i
LEMMA StandsInOrder ==
  ASSUME EngineInv, phase # "sorting"
  PROVE  /\ Standing \in 1..(Len(sorted) + 1) /\ Len(sorted) = Len(flow.nodes) /\ Len(sorted) \in Nat
         /\ Done = ResultsBefore(IF beforeHitl THEN job.outputs ELSE outputs, Standing)
         /\ beforeHitl => job # NoJob /\ job.outputs \in [Nodes -> Outputs]
         /\ Done \in Seq(Outputs) /\ Len(Done) = Standing - 1
<1> USE DEF EngineInv
<1>1. Len(sorted) = Len(flow.nodes) /\ Len(sorted) \in Nat /\ DOMAIN sorted = 1..Len(sorted)
  BY PlacesAreNodes DEF Staged, SortInv, Shape
<1>2. beforeHitl => job # NoJob /\ job.outputs \in [Nodes -> Outputs]
  BY DEF Replays, JobOK
<1>3. Standing \in 1..(Len(sorted) + 1)
  BY <1>1, ResumedIsAhead DEF Standing, WalkTypeOK
<1>4. Done = ResultsBefore(IF beforeHitl THEN job.outputs ELSE outputs, Standing)
  BY <1>2 DEF Done, Resumed, Standing
<1>5. (IF beforeHitl THEN job.outputs ELSE outputs) \in [Nodes -> Outputs]
  BY <1>2 DEF WalkTypeOK
<1> QED BY <1>1, <1>2, <1>3, <1>4, <1>5, ResultsAreInOrder

(* A walk that computes has the results the author sees, whether it replays *)
(* or not.                                                                 *)
LEMMA DoneAtNode ==
  ASSUME EngineInv, phase # "sorting", beforeHitl => i = Place(job.from)
  PROVE  Done = ResultsBefore(outputs, i) /\ Standing = i
<1>1. Standing = i
  BY DEF Standing
<1>2. CASE ~beforeHitl
  BY <1>1, <1>2 DEF Done
<1>3. CASE beforeHitl
  <2>1. \A k \in 1..(i - 1) : outputs[sorted[k]] = job.outputs[sorted[k]]
    BY <1>3 DEF EngineInv, Replays
  <2>2. ResultsBefore(job.outputs, i) = ResultsBefore(outputs, i)
    BY <2>1 DEF ResultsBefore
  <2> QED BY <1>1, <1>3, <2>2, StandsInOrder
<1> QED BY <1>1, <1>2, <1>3

LEMMA ResumesHere ==
  ASSUME EngineInv, phase # "sorting", i <= Len(sorted), beforeHitl => Node = job.from
  PROVE  beforeHitl => i = Place(job.from)
<1>1. i \in DOMAIN sorted
  BY DEF EngineInv, WalkTypeOK, SortInv, Shape
<1> QED BY <1>1, ResumedIsAhead DEF Node, EngineInv, SortInv, Once

(* Decisions are about HITL nodes. *)
DecisionsOfGates ==
  /\ job.decision # Absent => flow.kind[job.from] = "hitl"
  /\ approval # Absent => approval = job.decision
LEMMA GatesInit == Init => DecisionsOfGates
BY DEF Init, NoJob, DecisionsOfGates
LEMMA GatesKeep == EngineInv /\ DecisionsOfGates /\ [Next]_vars => DecisionsOfGates'
<1> SUFFICES ASSUME EngineInv, DecisionsOfGates, [Next]_vars PROVE DecisionsOfGates'
  OBVIOUS
<1>1. CASE Sort
  <2>1. flow' = flow /\ UNCHANGED <<job, approval>>
    BY <1>1 DEF Sort, SortNext, ScanNode, EndScan, TakeFromQueue, VisitEdge, PassEdge,
       EndVisit, EndTake, AppendRest, EndRest
  <2> QED BY <2>1 DEF DecisionsOfGates
<1>2. CASE StartWalk \/ UNCHANGED vars
  BY <1>2 DEF DecisionsOfGates, StartWalk, sortVars
<1>3. CASE WalkStep
  <2>1. flow' = flow /\ job' = job /\ (approval' = approval \/ approval' = Absent)
    BY <1>3 DEF WalkStep, CompileFails, LoadOutput, ProvideTool, SkipNode, Misroute, ComputeOutput,
       ChooseRoute, NodeThrows, PauseAtHitl, PauseAtDelay, PassDelay, PassHitl, ExitLoop, SendBack,
       Finish, sortVars
  <2> QED BY <2>1 DEF DecisionsOfGates
<1>4. CASE (\E d \in Routes : Decide(d)) \/ ResumeDelay \/ Retry
  <2>1. flow' = flow /\ approval' = job'.decision
    BY <1>4 DEF Decide, ResumeDelay, Retry, WalkFrom, sortVars
  <2>2. job'.decision # Absent => flow.kind[job'.from] = "hitl"
    BY <1>4 DEF Decide, ResumeDelay, Retry, WalkFrom, SavedWalk, DecisionsOfGates
  <2> QED BY <2>1, <2>2 DEF DecisionsOfGates
<1> QED BY <1>1, <1>2, <1>3, <1>4 DEF Next


(* What a step makes of what the author sees.                              *)
LEMMA ResumedKept ==
  ASSUME UNCHANGED sorted, UNCHANGED job
  PROVE  Resumed' = Resumed
BY DEF Resumed, ResultsBefore, Place

LEMMA AdvanceAdds ==
  ASSUME EngineInv, AtNode, NEW out \in Outputs, NEW stamp, Advance(out, stamp),
         UNCHANGED <<sortVars, phase, job>>, beforeHitl => Node = job.from
  PROVE  Done' = Append(Done, out) /\ Len(Done) < Len(flow.nodes)
<1> USE DEF EngineInv
<1>1. /\ phase # "sorting" /\ i <= Len(sorted) /\ i \in 1..(Len(sorted) + 1) /\ Len(sorted) \in Nat
      /\ outputs \in [Nodes -> Outputs] /\ DOMAIN sorted = 1..Len(sorted)
      /\ \A j, k \in DOMAIN sorted : sorted[j] = sorted[k] => j = k
      /\ \A k \in DOMAIN sorted : sorted[k] \in Nodes
      /\ sorted' = sorted
  <2>1. phase = "running" /\ i <= Len(sorted)
    BY DEF AtNode
  <2>2. i \in 1..(Len(sorted) + 1) /\ outputs \in [Nodes -> Outputs]
    BY DEF WalkTypeOK
  <2> QED BY <2>1, <2>2, SortVarsKept
<1>2. beforeHitl => i = Place(job.from)
  BY <1>1, ResumesHere
<1>3. Done = ResultsBefore(outputs, i) /\ Standing = i
  BY <1>1, <1>2, DoneAtNode
<1>4. Len(Done) < Len(flow.nodes) /\ Len(Done) = i - 1
  BY <1>1, <1>3, StandsInOrder
<1>5. /\ outputs' = [outputs EXCEPT ![Node] = out] /\ i' = i + 1 /\ beforeHitl' = FALSE
      /\ Node = sorted[i]
  BY DEF Advance, Node
<1>6. Done' = ResultsBefore(outputs', i')
  BY <1>1, <1>5 DEF Done, ResultsBefore
<1>7. \A k \in 1..(i - 1) : outputs'[sorted[k]] = outputs[sorted[k]]
  BY <1>1, <1>5
<1>8. outputs'[sorted[i]] = out
  BY <1>1, <1>5
<1>9. Done' = [k \in 1..i |-> IF k = i THEN out ELSE outputs[sorted[k]]]
  <2>1. i' - 1 = i
    BY <1>1, <1>5
  <2>2. Done' = [k \in 1..i |-> outputs'[sorted[k]]]
    BY <1>1, <1>6, <2>1 DEF ResultsBefore
  <2>3. \A k \in 1..i : outputs'[sorted[k]] = IF k = i THEN out ELSE outputs[sorted[k]]
    BY <1>1, <1>7, <1>8
  <2> QED BY <2>2, <2>3, Zenon
<1>10. Append(Done, out) = [k \in 1..i |-> IF k = i THEN out ELSE outputs[sorted[k]]]
  <2>1. /\ Done \in Seq(Outputs)
        /\ \A k \in 1..(i - 1) : Done[k] = outputs[sorted[k]]
    BY <1>1, <1>3, ResultsAreInOrder
  <2>2. /\ Append(Done, out) \in Seq(Outputs) /\ Len(Append(Done, out)) = i
        /\ Append(Done, out)[i] = out
        /\ \A k \in 1..(i - 1) : Append(Done, out)[k] = outputs[sorted[k]]
    BY <1>1, <1>4, <2>1, AppendProperties
  <2> DEFINE s == [k \in 1..i |-> IF k = i THEN out ELSE outputs[sorted[k]]]
  <2>3. s \in Seq(Outputs) /\ Len(s) = i
    <3>1. s \in [1..i -> Outputs] /\ i \in Nat
      BY <1>1
    <3> HIDE DEF s
    <3> QED BY <3>1
  <2>4. \A k \in 1..i : s[k] = Append(Done, out)[k]
    BY <1>1, <2>2
  <2> HIDE DEF s
  <2>5. Append(Done, out) = s
    BY <2>2, <2>3, <2>4, SeqEqual
  <2> QED BY <2>5 DEF s
<1> QED BY <1>4, <1>9, <1>10


LEMMA FlowIsKept == UNCHANGED sortVars => flow' = flow /\ sorted' = sorted
BY DEF sortVars

(* While a decision is still to be applied to what it is about, the walk   *)
(* stands at the HITL node that asked.                                     *)
LEMMA AnsweredStands ==
  ASSUME EngineInv, DecisionsOfGates, AtNode, ~Loads(Node), Durable!Answered
  PROVE  Node = job.from /\ flow.kind[Node] = "hitl"
<1> USE DEF EngineInv
<1>1. /\ approval # Absent /\ Done = Resumed.done /\ phase = "running" /\ i <= Len(sorted)
      /\ i \in 1..(Len(sorted) + 1) /\ Len(sorted) \in Nat /\ DOMAIN sorted = 1..Len(sorted)
  BY DEF Durable!Answered, AtNode, WalkTypeOK, SortInv, Shape
<1>2. job # NoJob /\ Replayable(job) /\ job.outputs \in [Nodes -> Outputs]
  BY <1>1 DEF JobOK
<1>3. job.from \in Nodes /\ stage = "sorted"
  BY <1>1, <1>2 DEF Replayable, Staged
<1>4. Place(job.from) \in DOMAIN sorted /\ sorted[Place(job.from)] = job.from
  BY <1>3, NodesArePlaced
<1>5. beforeHitl
  <2> SUFFICES ASSUME ~beforeHitl PROVE FALSE
    BY DEF WalkTypeOK
  <2>1. Len(Done) = i - 1
    BY <1>1, StandsInOrder DEF Standing
  <2>2. Resumed.done = ResultsBefore(job.outputs, Place(job.from))
    BY <1>2 DEF Resumed
  <2>3. Place(job.from) \in 1..(Len(sorted) + 1)
    BY <1>1, <1>4
  <2>4. Len(Resumed.done) = Place(job.from) - 1
    BY <1>1, <1>2, <2>2, <2>3, ResultsAreInOrder
  <2>5. i = Place(job.from)
    BY <1>1, <2>1, <2>3, <2>4
  <2> QED BY <1>1, <1>4, <2>5 DEF Replays
<1>6. Node = job.from
  BY <1>5, NotLoaded
<1> QED BY <1>1, <1>6 DEF DecisionsOfGates

LEMMA DoStep ==
  ASSUME EngineInv, DecisionsOfGates, AtNode, ~Loads(Node),
         NEW out \in Outputs \ {Absent}, NEW stamp, Advance(out, stamp),
         UNCHANGED <<sortVars, phase, job, approval>>,
         flow.kind[Node] # "hitl" \/ out = "skipped"
  PROVE  Durable!Next
<1>1. beforeHitl => Node = job.from
  BY NotLoaded
<1>2. Done' = Append(Done, out) /\ Len(Done) < Len(flow.nodes)
  BY <1>1, AdvanceAdds
<1>3. /\ UNCHANGED <<Len(flow.nodes), Status, approval, Resumed>> /\ Status = "walking"
  <2>1. UNCHANGED sortVars /\ UNCHANGED <<phase, job, approval>>
    OBVIOUS
  <2>2. flow' = flow /\ sorted' = sorted
    BY <2>1, FlowIsKept
  <2> QED BY <2>1, <2>2, ResumedKept DEF Status, AtNode
<1>4. Durable!Answered => out = "skipped"
  BY AnsweredStands
<1>5. Durable!Do(out)
  BY <1>2, <1>3, <1>4 DEF Durable!Do
<1> QED BY <1>5 DEF Durable!Next

LEMMA PassStep ==
  ASSUME EngineInv, DecisionsOfGates, PassHitl \/ ExitLoop
  PROVE  Durable!Next
<1> USE DEF EngineInv
<1>1. Decided /\ AtNode /\ Node = job.from /\ approval # Absent /\ phase = "running"
  BY DEF PassHitl, ExitLoop, Decided, AtNode
<1> DEFINE out == IF PassHitl THEN approval ELSE "exit"
<1>2. /\ Advance(out, clock + 1) /\ approval' = Absent /\ UNCHANGED <<sortVars, phase, job>>
      /\ out \in {approval, "exit"} /\ out \in Outputs \ {Absent}
  BY <1>1, OutputsAreDistinct DEF PassHitl, ExitLoop, Run, WalkTypeOK
<1> HIDE DEF out
<1>3. Done' = Append(Done, out) /\ Len(Done) < Len(flow.nodes)
  BY <1>1, <1>2, AdvanceAdds
<1>4. Done = Resumed.done
  <2>1. i \in DOMAIN sorted /\ sorted[i] = job.from /\ i >= i
    BY <1>1, AtSortedNode DEF AtNode, Node, WalkTypeOK
  <2>2. beforeHitl
    BY <1>1, <2>1 DEF Replays, WalkTypeOK
  <2> QED BY <2>2 DEF Done
<1>5. UNCHANGED <<Len(flow.nodes), Status, Resumed>> /\ Status = "walking"
  <2>1. UNCHANGED sortVars /\ UNCHANGED <<phase, job>>
    BY <1>2
  <2>2. flow' = flow /\ sorted' = sorted
    BY <2>1, FlowIsKept
  <2> QED BY <1>1, <2>1, <2>2, ResumedKept DEF Status
<1>6. Durable!Pass(out)
  BY <1>1, <1>2, <1>3, <1>4, <1>5 DEF Durable!Pass, Durable!Answered
<1> QED BY <1>2, <1>6 DEF Durable!Next

LEMMA SendBackStep == ASSUME EngineInv, DecisionsOfGates, SendBack PROVE Durable!Next
<1> USE DEF EngineInv
<1>1. /\ AtNode /\ Node = job.from /\ approval # Absent /\ phase = "running"
      /\ approval' = Absent /\ beforeHitl' = FALSE /\ UNCHANGED <<sortVars, phase, job>>
  BY DEF SendBack, Decided, AtNode
<1>2. /\ Nodes' = Nodes /\ sorted' = sorted /\ flow' = flow /\ Len(sorted) \in Nat
      /\ DOMAIN sorted = 1..Len(sorted) /\ \A j \in DOMAIN sorted : sorted[j] \in Nodes
      /\ \A j, k \in DOMAIN sorted : sorted[j] = sorted[k] => j = k
  BY <1>1, SortVarsKept
<1>3. /\ i \in DOMAIN sorted /\ i \in Nat /\ sorted[i] = job.from /\ stage = "sorted"
      /\ outputs \in [Nodes -> Outputs]
  BY <1>1, <1>2 DEF AtNode, Node, WalkTypeOK, Staged
<1>4. beforeHitl
  BY <1>1, <1>2, <1>3 DEF Replays, WalkTypeOK
<1>5. Done = Resumed.done
  BY <1>4 DEF Done
<1>6. Done = ResultsBefore(outputs, i) /\ Standing = i
  <2>1. i <= Len(sorted) /\ phase # "sorting"
    BY <1>1, <1>2, <1>3
  <2>2. beforeHitl => i = Place(job.from)
    BY <1>1, <2>1, ResumesHere
  <2> QED BY <2>1, <2>2, DoneAtNode
<1>7. Len(Done) = i - 1 /\ Done \in Seq(Outputs)
  BY <1>1, <1>6, StandsInOrder
<1>8. PICK k \in FeedbackEdges(approval) :
         LET target == Place(flow.edges[k].to) IN
         /\ i' = target
         /\ outputs' = [n \in Nodes |-> IF Place(n) \in target..(i - 1) THEN Absent
                                        ELSE IF n = Node THEN approval ELSE outputs[n]]
  BY DEF SendBack
<1>9. i' \in DOMAIN sorted /\ i' < i
  <2>1. k \in DOMAIN flow.edges /\ Place(flow.edges[k].to) < i
    BY DEF FeedbackEdges, EdgesFrom
  <2>2. flow.edges[k].to \in Nodes
    BY <2>1, FlowShape DEF SortInv
  <2> QED BY <1>3, <1>8, <2>1, <2>2, NodesArePlaced
<1>10. \A j \in 1..(i' - 1) : outputs'[sorted[j]] = outputs[sorted[j]]
  <2> SUFFICES ASSUME NEW j \in 1..(i' - 1) PROVE outputs'[sorted[j]] = outputs[sorted[j]]
    OBVIOUS
  <2>1. j \in DOMAIN sorted /\ sorted[j] \in Nodes /\ j # i /\ j \in Int /\ j < i'
    BY <1>2, <1>3, <1>9
  <2>2. Place(sorted[j]) = j
    BY <1>2, <1>3, <2>1, NodesArePlaced
  <2>3. sorted[j] # Node
    BY <1>1, <1>2, <1>3, <2>1
  <2>4. ~(j \in i'..(i - 1))
    BY <1>2, <1>3, <1>9, <2>1
  <2> QED BY <1>8, <2>1, <2>2, <2>3, <2>4
<1>11. Done' = SubSeq(Done, 1, i' - 1)
  <2>1. Done' = [j \in 1..(i' - 1) |-> outputs'[sorted[j]]]
    BY <1>1, <1>2 DEF Done, ResultsBefore
  <2>2. Done' = [j \in 1..(i' - 1) |-> outputs[sorted[j]]]
    BY <1>10, <2>1, Zenon
  <2>3. Done' \in Seq(Outputs) /\ Len(Done') = i' - 1
    <3>1. [j \in 1..(i' - 1) |-> outputs[sorted[j]]] \in [1..(i' - 1) -> Outputs] /\ i' - 1 \in Nat
      BY <1>2, <1>3, <1>9
    <3> QED BY <2>2, <3>1
  <2>4. /\ SubSeq(Done, 1, i' - 1) \in Seq(Outputs) /\ Len(SubSeq(Done, 1, i' - 1)) = i' - 1
        /\ \A j \in 1..(i' - 1) : SubSeq(Done, 1, i' - 1)[j] = Done[j]
    BY <1>2, <1>3, <1>7, <1>9, SubSeqProperties
  <2>5. \A j \in 1..(i' - 1) : Done[j] = outputs[sorted[j]]
    BY <1>2, <1>3, <1>6, <1>9 DEF ResultsBefore
  <2> QED BY <2>2, <2>3, <2>4, <2>5, SeqEqual
<1>12. Durable!SendBack(i' - 1)
  <2>1. UNCHANGED <<Len(flow.nodes), Status, Resumed>> /\ Status = "walking"
    BY <1>1, <1>2, ResumedKept DEF Status
  <2>2. i' - 1 < Len(Done)
    BY <1>2, <1>3, <1>7, <1>9
  <2> QED BY <1>1, <1>5, <1>11, <2>1, <2>2 DEF Durable!SendBack, Durable!Answered
<1>13. i' - 1 \in 0..Len(Done)
  BY <1>2, <1>3, <1>7, <1>9
<1> QED BY <1>12, <1>13 DEF Durable!Next


LEMMA LoadStep == ASSUME EngineInv, LoadOutput PROVE UNCHANGED Durable!walkVars
<1>1. /\ AtNode /\ beforeHitl /\ beforeHitl' = TRUE /\ UNCHANGED <<sortVars, phase, job, approval>>
  BY DEF LoadOutput, Loads, Advance, EngineInv, WalkTypeOK
<1>2. flow' = flow /\ sorted' = sorted
  BY <1>1, FlowIsKept
<1>3. Resumed' = Resumed
  BY <1>1, <1>2, ResumedKept
<1>4. Done' = Done /\ Status' = Status
  BY <1>1, <1>3 DEF Done, Status
<1> QED BY <1>1, <1>2, <1>3, <1>4 DEF Durable!walkVars

LEMMA StopStep ==
  ASSUME EngineInv, CompileFails \/ Misroute \/ NodeThrows \/ PauseAtHitl \/ PauseAtDelay \/ Finish
  PROVE  Durable!Next
<1> USE DEF EngineInv
<1>1. /\ phase = "running" /\ UNCHANGED <<sortVars, i, outputs, beforeHitl, job, approval>>
      /\ UNCHANGED sortVars
  BY DEF CompileFails, Misroute, NodeThrows, PauseAtHitl, PauseAtDelay, Finish, AtNode
<1>2. flow' = flow /\ sorted' = sorted /\ Status = "walking"
  BY <1>1, FlowIsKept DEF Status
<1>3. Resumed' = Resumed
  BY <1>1, <1>2, ResumedKept
<1>4. Done' = Done
  BY <1>1, <1>2, <1>3 DEF Done, ResultsBefore
<1>5. CASE CompileFails \/ Misroute \/ NodeThrows
  <2>1. Status' = "failed"
    BY <1>5 DEF CompileFails, Misroute, NodeThrows, Status
  <2>2. Durable!Fail
    BY <1>1, <1>2, <1>3, <1>4, <2>1 DEF Durable!Fail
  <2> QED BY <2>2 DEF Durable!Next
<1>6. CASE PauseAtHitl \/ PauseAtDelay
  <2>1. Status' = "waiting" /\ i <= Len(sorted) /\ ~Loads(Node) /\ AtNode
    BY <1>6 DEF PauseAtHitl, PauseAtDelay, Status, AtNode, Runs, Routed
  <2>2. beforeHitl => i = Place(job.from)
    BY <1>1, <2>1, NotLoaded, ResumesHere
  <2>3. Standing = i /\ Len(Done) = Standing - 1 /\ Len(sorted) = Len(flow.nodes) /\ Len(sorted) \in Nat
    BY <1>1, <2>2, DoneAtNode, StandsInOrder
  <2>4. Len(Done) < Len(flow.nodes)
    BY <2>1, <2>3 DEF WalkTypeOK
  <2>5. Durable!Pause
    BY <1>1, <1>2, <1>3, <1>4, <2>1, <2>4 DEF Durable!Pause
  <2> QED BY <2>5 DEF Durable!Next
<1>7. CASE Finish
  <2>1. Status' = "completed" /\ i > Len(sorted)
    BY <1>7 DEF Finish, Status
  <2>2. ~beforeHitl
    BY <1>1, <2>1, ResumedIsAhead DEF SortInv, Shape, WalkTypeOK
  <2>3. Standing = i /\ Len(Done) = Standing - 1 /\ Len(sorted) = Len(flow.nodes) /\ Len(sorted) \in Nat
    BY <1>1, <2>2, StandsInOrder DEF Standing
  <2>4. Len(Done) = Len(flow.nodes)
    BY <2>1, <2>3 DEF WalkTypeOK
  <2>5. Durable!Complete
    BY <1>1, <1>2, <1>3, <1>4, <2>1, <2>4 DEF Durable!Complete
  <2> QED BY <2>5 DEF Durable!Next
<1> QED BY <1>5, <1>6, <1>7

LEMMA ResumeStep ==
  ASSUME EngineInv, RunsInv, (\E d \in Routes : Decide(d)) \/ ResumeDelay
  PROVE  Durable!Next
<1> USE DEF EngineInv
<1>1. PICK d \in Routes \cup {Absent} : WalkFrom(SavedWalk(outputs, d))
  BY DEF Decide, ResumeDelay
<1>2. phase = "paused" /\ UNCHANGED sortVars
  BY DEF Decide, ResumeDelay
<1>3. /\ flow' = flow /\ sorted' = sorted /\ stage = "sorted"
      /\ DOMAIN sorted = 1..Len(sorted) /\ \A j \in DOMAIN sorted : sorted[j] \in Nodes
      /\ \A j, k \in DOMAIN sorted : sorted[j] = sorted[k] => j = k
  BY <1>2, SortVarsKept DEF Staged
<1>4. i \in DOMAIN sorted /\ Node = sorted[i] /\ Node \in Nodes /\ Node # Absent /\ i <= Len(sorted)
  BY <1>2, <1>3, AbsentIsNoNode DEF Staged, WalkTypeOK, Node
<1>5. Place(Node) = i
  BY <1>3, <1>4, NodesArePlaced
<1>6. beforeHitl => i = Place(job.from)
  <2>1. beforeHitl => Node = job.from
    BY <1>2 DEF RunsInv, Fresh
  <2> QED BY <1>5, <2>1
<1>7. Done = ResultsBefore(outputs, i)
  BY <1>2, <1>6, DoneAtNode
<1>8. /\ phase' = "running" /\ job' = SavedWalk(outputs, d) /\ approval' = d /\ beforeHitl' = TRUE
  BY <1>1, <1>4 DEF WalkFrom, SavedWalk
<1>9. job'.from = Node /\ job'.outputs = outputs /\ job'.decision = d /\ job' # NoJob
  <2>1. job'.from = Node /\ job'.outputs = outputs /\ job'.decision = d
    BY <1>8 DEF SavedWalk
  <2>2. NoJob.from = Absent
    BY DEF NoJob
  <2> QED BY <1>4, <2>1, <2>2
<1>10. Resumed' = [done |-> Done, decided |-> d]
  <2>1. Place(job.from)' = i
    BY <1>3, <1>5, <1>9 DEF Place
  <2>2. ResultsBefore(job.outputs, Place(job.from))' = ResultsBefore(outputs, i)
    BY <1>3, <1>9, <2>1 DEF ResultsBefore
  <2> QED BY <1>7, <1>9, <2>2 DEF Resumed
<1>11. Done' = Done
  BY <1>8, <1>10 DEF Done
<1>12. Status = "waiting" /\ Status' = "walking"
  BY <1>2, <1>8 DEF Status
<1>13. Durable!Resume(d)
  BY <1>3, <1>8, <1>10, <1>11, <1>12 DEF Durable!Resume
<1> QED BY <1>1, <1>13 DEF Durable!Next

LEMMA RetryStep == ASSUME EngineInv, Retry PROVE Durable!Next
<1> USE DEF EngineInv
<1>1. /\ phase # "completed" /\ phase \in {"running", "paused", "failed"} /\ UNCHANGED sortVars /\ phase' = "running"
      /\ job' = job /\ approval' = job.decision /\ beforeHitl' = (job.from # Absent)
      /\ i' = 1
  BY DEF Retry, WalkFrom
<1>2. flow' = flow /\ sorted' = sorted
  BY <1>1, FlowIsKept
<1>3. Resumed' = Resumed
  BY <1>1, <1>2, ResumedKept
<1>4. Done' = Resumed.done
  <2>1. CASE job.from # Absent
    BY <1>1, <1>3, <2>1 DEF Done
  <2>2. CASE job.from = Absent
    <3>1. job = NoJob
      BY <2>2, AbsentIsNoNode DEF JobOK, Replayable
    <3>2. Resumed.done = <<>>
      BY <3>1 DEF Resumed
    <3>3. Done' = ResultsBefore(outputs', 1)
      BY <1>1, <1>2, <2>2 DEF Done, ResultsBefore
    <3> QED BY <3>2, <3>3, NothingBefore
  <2> QED BY <2>1, <2>2
<1>5. Status # "completed" /\ Status' = "walking"
  BY <1>1 DEF Status
<1>6. Resumed.decided = job.decision
  BY DEF Resumed
<1>7. Durable!Retry
  BY <1>1, <1>2, <1>3, <1>4, <1>5, <1>6 DEF Durable!Retry
<1> QED BY <1>7 DEF Durable!Next


LEMMA WalkStepIsDurable ==
  ASSUME EngineInv, DecisionsOfGates, WalkStep
  PROVE  [Durable!Next]_(Durable!walkVars)
<1>1. CASE CompileFails \/ Misroute \/ NodeThrows \/ PauseAtHitl \/ PauseAtDelay \/ Finish
  BY <1>1, StopStep
<1>2. CASE LoadOutput
  BY <1>2, LoadStep
<1>3. CASE ProvideTool \/ SkipNode
  <2>1. flow.kind[Node] # "hitl" \/ SkipNode
    BY <1>3 DEF ProvideTool, IsToolProvider
  <2>2. CASE SkipNode
    BY <2>2, OutputsAreDistinct, DoStep DEF SkipNode, Routed
  <2>3. CASE ProvideTool /\ flow.kind[Node] # "hitl"
    BY <2>3, OutputsAreDistinct, DoStep DEF ProvideTool
  <2> QED BY <1>3, <2>1, <2>2, <2>3
<1>4. ASSUME NEW out \in Outputs \ {Absent}, AtNode, Runs(Node), Run(out), flow.kind[Node] # "hitl",
             UNCHANGED <<sortVars, phase, job, approval>>
      PROVE  Durable!Next
  BY <1>4, DoStep DEF Run, Runs, Routed
<1>5. CASE ComputeOutput \/ PassDelay
  BY <1>4, <1>5, OutputsAreDistinct DEF ComputeOutput, PassDelay
<1>6. CASE ChooseRoute
  BY <1>4, <1>6, OutputsAreDistinct DEF ChooseRoute
<1>7. CASE PassHitl \/ ExitLoop
  BY <1>7, PassStep
<1>8. CASE SendBack
  BY <1>8, SendBackStep
<1> QED BY <1>1, <1>2, <1>3, <1>5, <1>6, <1>7, <1>8 DEF WalkStep

LEMMA EngineStepIsDurable ==
  EngineInv /\ RunsInv /\ DecisionsOfGates /\ [Next]_vars => [Durable!Next]_(Durable!walkVars)
<1> SUFFICES ASSUME EngineInv, RunsInv, DecisionsOfGates, [Next]_vars
             PROVE  [Durable!Next]_(Durable!walkVars)
  OBVIOUS
<1>1. CASE Sort
  <2>1. flow' = flow /\ UNCHANGED <<job, approval, beforeHitl, outputs, i, phase>> /\ phase = "sorting"
    BY <1>1 DEF Sort, SortNext, ScanNode, EndScan, TakeFromQueue, VisitEdge, PassEdge,
       EndVisit, EndTake, AppendRest, EndRest
  <2>2. job = NoJob /\ ~beforeHitl /\ i = 1
    BY <2>1 DEF EngineInv, Staged, JobOK
  <2>3. Done = <<>> /\ Done' = <<>>
    BY <2>1, <2>2, NothingBefore DEF Done, ResultsBefore
  <2>4. Resumed' = Resumed /\ Status' = Status
    BY <2>1, <2>2 DEF Resumed, Status
  <2> QED BY <2>1, <2>3, <2>4 DEF Durable!walkVars
<1>2. CASE StartWalk \/ UNCHANGED vars
  <2>1. /\ UNCHANGED <<job, approval, beforeHitl, outputs, i>> /\ UNCHANGED sortVars
        /\ Status' = Status
    BY <1>2 DEF StartWalk, Status
  <2>2. flow' = flow /\ sorted' = sorted
    BY <2>1, FlowIsKept
  <2>3. Resumed' = Resumed
    BY <2>1, <2>2, ResumedKept
  <2>4. Done' = Done
    BY <2>1, <2>2, <2>3 DEF Done, ResultsBefore
  <2> QED BY <2>1, <2>2, <2>3, <2>4 DEF Durable!walkVars
<1>3. CASE WalkStep
  BY <1>3, WalkStepIsDurable
<1>4. CASE (\E d \in Routes : Decide(d)) \/ ResumeDelay
  BY <1>4, ResumeStep
<1>5. CASE Retry
  BY <1>5, RetryStep
<1> QED BY <1>1, <1>2, <1>3, <1>4, <1>5 DEF Next

LEMMA EngineStartsDurable == Init => Durable!Init
<1> SUFFICES ASSUME Init PROVE Durable!Init
  OBVIOUS
<1>1. Len(flow.nodes) \in Nat
  BY EngineStarts, FlowShape DEF EngineInv, SortInv
<1>2. Done = <<>> /\ Resumed = [done |-> <<>>, decided |-> Absent] /\ Status = "walking"
  BY NothingBefore DEF Init, Done, Resumed, Status, NoJob
<1> QED BY <1>1, <1>2 DEF Durable!Init, Init

(* In every flow, over any number of pauses, decisions, loops and retries, *)
(* the engine implements a walk that never forgets.                        *)
THEOREM ReplaysDoNotShow == Spec => WalkIsDurable
<1>1. Spec => []RunsInv
  BY RunsInit, RunsKeep, EngineAlwaysInv, PTL DEF Spec
<1>2. Spec => []DecisionsOfGates
  BY GatesInit, GatesKeep, EngineAlwaysInv, PTL DEF Spec
<1> QED
  BY <1>1, <1>2, EngineAlwaysInv, EngineStartsDurable, EngineStepIsDurable, PTL
     DEF Spec, WalkIsDurable, Durable!Spec
--------------------------------------------------------------------------------
(* That a walk comes to an end rests on a measure too: the loops back that *)
(* MAX_FEEDBACK_ITERS still allows, the nodes ahead, whether it runs.      *)
FeedbacksLeft == MaxFeedbackIters - feedbacks
NodesAhead == Len(sorted) + 1 - i
Running == IF phase = "running" THEN 1 ELSE 0
WalkLeft == <<FeedbacksLeft, NodesAhead, Running>>
WalkShortens == <<WalkLeft', WalkLeft>> \in Shorter(3)

LEMMA WalkLeftIsNumbers ==
  ASSUME EngineInv
  PROVE  /\ FeedbacksLeft \in Nat /\ NodesAhead \in Nat /\ Running \in Nat
         /\ WalkLeft \in [1..3 -> Nat]
<1>1. feedbacks \in 0..MaxFeedbackIters /\ i \in 1..(Len(sorted) + 1) /\ Len(sorted) \in Nat
  BY DEF EngineInv, WalkTypeOK, SortInv, Shape
<1>2. FeedbacksLeft \in Nat /\ NodesAhead \in Nat /\ Running \in Nat
  BY <1>1 DEF FeedbacksLeft, NodesAhead, Running, MaxFeedbackIters
<1> QED BY <1>2 DEF WalkLeft

(* A step of a walk goes back only by using up a loop; otherwise it passes *)
(* a node or stops.                                                        *)
LEMMA WalkStepShortens ==
  ASSUME EngineInv, WalkStep
  PROVE  \/ FeedbacksLeft' < FeedbacksLeft
         \/ FeedbacksLeft' = FeedbacksLeft /\ NodesAhead' < NodesAhead
         \/ FeedbacksLeft' = FeedbacksLeft /\ NodesAhead' = NodesAhead /\ Running' < Running
<1>1. feedbacks \in 0..MaxFeedbackIters /\ i \in 1..(Len(sorted) + 1) /\ Len(sorted) \in Nat
  BY DEF EngineInv, WalkTypeOK, SortInv, Shape
<1>2. phase = "running" /\ sorted' = sorted
  <2>1. CASE CompileFails \/ LoadOutput \/ ProvideTool \/ SkipNode \/ Misroute \/ Finish
    BY <2>1 DEF CompileFails, LoadOutput, ProvideTool, SkipNode, Misroute, Finish, AtNode, sortVars
  <2>2. CASE ComputeOutput \/ ChooseRoute \/ NodeThrows \/ PauseAtHitl \/ PauseAtDelay
    BY <2>2 DEF ComputeOutput, ChooseRoute, NodeThrows, PauseAtHitl, PauseAtDelay, AtNode, sortVars
  <2>3. CASE PassDelay \/ PassHitl \/ ExitLoop \/ SendBack
    BY <2>3 DEF PassDelay, PassHitl, ExitLoop, SendBack, Decided, AtNode, sortVars
  <2> QED BY <2>1, <2>2, <2>3 DEF WalkStep
<1>3. CASE feedbacks' = feedbacks /\ i' = i + 1
  BY <1>1, <1>2, <1>3 DEF FeedbacksLeft, NodesAhead, MaxFeedbackIters
<1>4. CASE feedbacks' = feedbacks + 1
  BY <1>1, <1>4 DEF FeedbacksLeft, MaxFeedbackIters
<1>5. CASE feedbacks' = feedbacks /\ i' = i /\ phase' # "running"
  BY <1>1, <1>2, <1>5 DEF FeedbacksLeft, NodesAhead, Running
<1>6. CASE CompileFails \/ Misroute \/ NodeThrows \/ PauseAtHitl \/ PauseAtDelay \/ Finish
  BY <1>5, <1>6 DEF CompileFails, Misroute, NodeThrows, PauseAtHitl, PauseAtDelay, Finish
<1>7. CASE LoadOutput \/ ProvideTool \/ SkipNode
  BY <1>3, <1>7 DEF LoadOutput, ProvideTool, SkipNode, Advance
<1>8. CASE ComputeOutput \/ ChooseRoute \/ PassDelay \/ ExitLoop
  BY <1>3, <1>8 DEF ComputeOutput, ChooseRoute, PassDelay, ExitLoop, Run, Advance
<1>9. CASE PassHitl
  <2>1. i' = i + 1 /\ (feedbacks' = feedbacks + 0 \/ feedbacks' = feedbacks + 1)
    BY <1>9 DEF PassHitl, Run, Advance
  <2> QED BY <1>1, <1>3, <1>4, <2>1
<1>10. CASE SendBack
  BY <1>4, <1>10 DEF SendBack
<1> QED BY <1>6, <1>7, <1>8, <1>9, <1>10 DEF WalkStep

LEMMA ThreeShorten ==
  ASSUME NEW a \in Nat, NEW b \in Nat, NEW c \in Nat, NEW p \in Nat, NEW q \in Nat, NEW r \in Nat,
         \/ p < a
         \/ p = a /\ q < b
         \/ p = a /\ q = b /\ r < c
  PROVE  <<(<<p, q, r>>), (<<a, b, c>>)>> \in Shorter(3)
<1> DEFINE after == <<p, q, r>>
           before == <<a, b, c>>
<1>1. after \in [1..3 -> Nat] /\ before \in [1..3 -> Nat]
  OBVIOUS
<1>2. \E j \in 1..3 : (\A k \in 1..(j - 1) : after[k] = before[k]) /\ <<after[j], before[j]>> \in NatLess
  <2>1. CASE p < a
    <3>1. <<after[1], before[1]>> \in NatLess
      BY <2>1 DEF NatLess
    <3> QED BY <3>1
  <2>2. CASE p = a /\ q < b
    <3>1. <<after[2], before[2]>> \in NatLess
      BY <2>2 DEF NatLess
    <3> QED BY <2>2, <3>1
  <2>3. CASE p = a /\ q = b /\ r < c
    <3>1. <<after[3], before[3]>> \in NatLess
      BY <2>3 DEF NatLess
    <3> QED BY <2>3, <3>1
  <2> QED BY <2>1, <2>2, <2>3
<1> HIDE DEF after, before
<1>3. <<after, before>> \in Shorter(3)
  BY <1>1, <1>2 DEF Shorter, LexProductOrdering
<1> QED BY <1>3 DEF after, before

(* In every flow, each step of a running walk other than its retry brings  *)
(* it closer to its end in a well-founded order, loops or not: between two *)
(* jobs a worker is held for finitely many steps, which is what WalksEnd   *)
(* rests on.                                                               *)
THEOREM WalksRunOut ==
  /\ IsWellFoundedOn(Shorter(3), [1..3 -> Nat])
  /\ Spec => /\ [](WalkLeft \in [1..3 -> Nat])
             /\ [][phase = "running" /\ attempt' = attempt => WalkShortens]_vars
<1>1. IsWellFoundedOn(Shorter(3), [1..3 -> Nat])
  BY ShorterIsWellFounded
<1>2. EngineInv => WalkLeft \in [1..3 -> Nat]
  BY WalkLeftIsNumbers
<1>3. EngineInv /\ EngineInv' /\ [Next]_vars =>
        [phase = "running" /\ attempt' = attempt => WalkShortens]_vars
  <2> SUFFICES ASSUME EngineInv, EngineInv', Next, phase = "running", attempt' = attempt
               PROVE  WalkShortens
    OBVIOUS
  <2>1. ~Retry
    BY DEF Retry, EngineInv, WalkTypeOK
  <2>2. WalkStep
    BY <2>1 DEF Next, Sort, StartWalk, Decide, ResumeDelay
  <2>3. FeedbacksLeft \in Nat /\ NodesAhead \in Nat /\ Running \in Nat
    BY WalkLeftIsNumbers
  <2>4. (FeedbacksLeft \in Nat /\ NodesAhead \in Nat /\ Running \in Nat)'
    BY WalkLeftIsNumbers, PTL
  <2>5. <<(<<FeedbacksLeft', NodesAhead', Running'>>), (<<FeedbacksLeft, NodesAhead, Running>>)>>
          \in Shorter(3)
    BY <2>2, <2>3, <2>4, WalkStepShortens, ThreeShorten
  <2> QED BY <2>5 DEF WalkLeft, WalkShortens
<1> QED BY <1>1, <1>2, <1>3, EngineAlwaysInv, PTL DEF Spec
================================================================================
