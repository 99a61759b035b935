---------------------------- MODULE TopologicalSort ----------------------------
(***************************************************************************)
(* topologicalSort of the worker's engine: Kahn's algorithm over the nodes *)
(* and edges of a flow.  It tolerates cycles, which HITL feedback edges    *)
(* make: what the queue never reaches is appended in the order in which    *)
(* the author's editor stored the nodes.  One step per iteration of each   *)
(* of its loops.                                                           *)
(***************************************************************************)
EXTENDS Integers, Sequences, FiniteSets, SequencesExt

CONSTANT Flows   \* the flows that may be executed

(* Node ids are distinct and every edge joins two nodes of its flow. *)
ASSUME FlowsAreGraphs ==
  \A f \in Flows :
    /\ f.nodes \in Seq(ToSet(f.nodes)) /\ f.edges \in Seq(ToSet(f.edges))
    /\ \A j, k \in DOMAIN f.nodes : f.nodes[j] = f.nodes[k] => j = k
    /\ \A k \in DOMAIN f.edges :
         f.edges[k].from \in ToSet(f.nodes) /\ f.edges[k].to \in ToSet(f.nodes)

VARIABLES
  flow,    \* the flow that is sorted, fixed from the start
  degree,  \* inDegree: edges into a node that are not yet visited
  queue,   \* nodes of in-degree 0 still to be taken
  sorted,  \* the order so far
  looped,  \* cycles[0]: the nodes the queue never reached
  stage,   \* which of the loops is running
  at       \* its index

sortVars == <<flow, degree, queue, sorted, looped, stage, at>>

Nodes == ToSet(flow.nodes)
EdgesInto(n) == {k \in DOMAIN flow.edges : flow.edges[k].to = n}
EdgesFrom(n) == {k \in DOMAIN flow.edges : flow.edges[k].from = n}

SortInit ==
  /\ flow \in Flows
  /\ degree = [n \in Nodes |-> Cardinality(EdgesInto(n))]
  /\ queue = <<>> /\ sorted = <<>> /\ looped = {}
  /\ stage = "scan" /\ at = 1

(* The nodes nothing leads to. *)
ScanNode ==
  /\ stage = "scan" /\ at <= Len(flow.nodes)
  /\ queue' = IF degree[flow.nodes[at]] = 0 THEN Append(queue, flow.nodes[at]) ELSE queue
  /\ at' = at + 1
  /\ UNCHANGED <<flow, degree, sorted, looped, stage>>
EndScan ==
  /\ stage = "scan" /\ at > Len(flow.nodes)
  /\ stage' = "take"
  /\ UNCHANGED <<flow, degree, queue, sorted, looped, at>>

TakeFromQueue ==
  /\ stage = "take" /\ queue # <<>>
  /\ sorted' = Append(sorted, Head(queue))
  /\ queue' = Tail(queue)
  /\ stage' = "visit" /\ at' = 1
  /\ UNCHANGED <<flow, degree, looped>>

(* The edges of the node just taken, in the order adj.get(id) has them. *)
Taken == sorted[Len(sorted)]
Target == flow.edges[at].to
(* Mutation: a target is pushed while one of its edges is still open. *)
FreesEarly == degree[Target] = 2 \/ degree[Target] = 1
Frees == degree[Target] = 1
VisitEdge ==
  /\ stage = "visit" /\ at <= Len(flow.edges) /\ flow.edges[at].from = Taken
  /\ degree' = [degree EXCEPT ![Target] = @ - 1]
  /\ queue' = IF Frees THEN Append(queue, Target) ELSE queue
  /\ at' = at + 1
  /\ UNCHANGED <<flow, sorted, looped, stage>>
PassEdge ==
  /\ stage = "visit" /\ at <= Len(flow.edges) /\ flow.edges[at].from # Taken
  /\ at' = at + 1
  /\ UNCHANGED <<flow, degree, queue, sorted, looped, stage>>
EndVisit ==
  /\ stage = "visit" /\ at > Len(flow.edges)
  /\ stage' = "take"
  /\ UNCHANGED <<flow, degree, queue, sorted, looped, at>>

(* "Add remaining nodes to sorted order anyway." *)
EndTake ==
  /\ stage = "take" /\ queue = <<>>
  /\ looped' = Nodes \ ToSet(sorted)
  /\ stage' = "rest" /\ at' = 1
  /\ UNCHANGED <<flow, degree, queue, sorted>>
(* Mutation: the nodes left over are reported but not added. *)
DropRest ==
  /\ stage = "rest" /\ at <= Len(flow.nodes)
  /\ at' = at + 1
  /\ UNCHANGED <<flow, degree, queue, sorted, looped, stage>>
AppendRest ==
  /\ stage = "rest" /\ at <= Len(flow.nodes)
  /\ sorted' = IF flow.nodes[at] \in looped THEN Append(sorted, flow.nodes[at]) ELSE sorted
  /\ at' = at + 1
  /\ UNCHANGED <<flow, degree, queue, looped, stage>>
EndRest ==
  /\ stage = "rest" /\ at > Len(flow.nodes)
  /\ stage' = "sorted"
  /\ UNCHANGED <<flow, degree, queue, sorted, looped, at>>

SortNext == ScanNode \/ EndScan \/ TakeFromQueue \/ VisitEdge \/ PassEdge \/ EndVisit
            \/ EndTake \/ AppendRest \/ EndRest
SortSpec == SortInit /\ [][SortNext]_sortVars /\ WF_sortVars(SortNext)

--------------------------------------------------------------------------------
(* The position of a node in the order, 0 if it has none yet. *)
Place(n) == IF \E k \in DOMAIN sorted : sorted[k] = n
            THEN CHOOSE k \in DOMAIN sorted : sorted[k] = n ELSE 0

(* The algorithm's variables keep their types, and no node is taken or     *)
(* queued twice.                                                           *)
SortTypeOK ==
  /\ degree \in [Nodes -> Nat]
  /\ queue \in Seq(Nodes) /\ sorted \in Seq(Nodes) /\ looped \subseteq Nodes
  /\ stage \in {"scan", "take", "visit", "rest", "sorted"} /\ at \in Nat \ {0}
  /\ \A j, k \in DOMAIN sorted : sorted[j] = sorted[k] => j = k
  /\ \A j, k \in DOMAIN queue : queue[j] = queue[k] => j = k
  /\ ToSet(queue) \cap ToSet(sorted) = {}

(* What engine.ts relies on when it walks the order once: a node the queue *)
(* reached comes after every node with an edge to it.                      *)
SourcesComeFirst ==
  \A j \in DOMAIN sorted : sorted[j] \notin looped =>
    \A k \in EdgesInto(sorted[j]) : \E s \in 1..(j - 1) : sorted[s] = flow.edges[k].from

(* The nodes reported as cycles really are on, or behind, one: each has an *)
(* edge from another of them, so following edges back never ends.          *)
LoopedHaveLoopedSource ==
  \A n \in looped : \E k \in EdgesInto(n) : flow.edges[k].from \in looped

(* The sort ends with every node in the order, whatever the graph. *)
EveryNodeIsPlaced == <>(stage = "sorted" /\ ToSet(sorted) = Nodes)
================================================================================
