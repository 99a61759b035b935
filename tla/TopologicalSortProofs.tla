------------------------- MODULE TopologicalSortProofs -------------------------
(***************************************************************************)
(* What topologicalSort promises, for every flow of every size.  The       *)
(* argument is Kahn's: the in-degree the code counts down is the number of *)
(* edges into a node whose source has not been taken and visited, so a     *)
(* node of in-degree 0 may follow, and a node that never gets there has an *)
(* edge from another one that does not either.                             *)
(***************************************************************************)
EXTENDS TopologicalSort, FiniteSetTheorems, WellFoundedInduction, TLAPS

USE DEF sortVars, ToSet

Numbering == {"scan", "take", "visit"}   \* the stages in which degrees matter

(* The edges out of a node already taken, but for those the loop over the  *)
(* node taken last has still to reach.                                     *)
Visited(k) ==
  \E j \in DOMAIN sorted :
    /\ sorted[j] = flow.edges[k].from
    /\ stage = "visit" /\ j = Len(sorted) => k < at
Open(n) == {k \in EdgesInto(n) : ~Visited(k)}

(* The flow is one of those given, its fields are sequences. *)
FlowOK == flow \in Flows

Shape ==
  /\ degree \in [Nodes -> Nat]
  /\ queue \in Seq(Nodes) /\ sorted \in Seq(Nodes) /\ looped \subseteq Nodes
  /\ stage \in Numbering \cup {"rest", "sorted"} /\ at \in Nat \ {0}
  /\ stage = "scan" => sorted = <<>>
  /\ stage = "visit" => sorted # <<>>
  /\ stage \in Numbering => looped = {}
  /\ stage \in {"rest", "sorted"} => queue = <<>>

Once ==
  /\ \A j, k \in DOMAIN sorted : sorted[j] = sorted[k] => j = k
  /\ \A j, k \in DOMAIN queue : queue[j] = queue[k] => j = k
  /\ \A j \in DOMAIN queue, k \in DOMAIN sorted : queue[j] # sorted[k]

(* In-degrees count the open edges; those of taken and queued nodes are 0. *)
Counted ==
  stage \in Numbering =>
    /\ \A n \in Nodes : degree[n] = Cardinality(Open(n))
    /\ \A j \in DOMAIN queue : degree[queue[j]] = 0
    /\ \A j \in DOMAIN sorted : degree[sorted[j]] = 0

(* No node of in-degree 0 is forgotten. *)
NoneForgotten ==
  /\ stage = "scan" =>
       /\ \A j \in DOMAIN queue : \E i \in DOMAIN flow.nodes : i < at /\ flow.nodes[i] = queue[j]
       /\ \A i \in DOMAIN flow.nodes :
            i < at /\ degree[flow.nodes[i]] = 0 => \E j \in DOMAIN queue : queue[j] = flow.nodes[i]
  /\ stage \in {"take", "visit"} =>
       \A n \in Nodes : degree[n] = 0 =>
         \/ \E j \in DOMAIN queue : queue[j] = n
         \/ \E j \in DOMAIN sorted : sorted[j] = n

(* The nodes left over are appended once each. *)
Appended ==
  stage \in {"rest", "sorted"} =>
    /\ \A j \in DOMAIN sorted : sorted[j] \in looped =>
         \E i \in DOMAIN flow.nodes : i < at /\ flow.nodes[i] = sorted[j]
    /\ \A n \in Nodes \ looped : \E j \in DOMAIN sorted : sorted[j] = n
    /\ \A i \in DOMAIN flow.nodes : i < at /\ flow.nodes[i] \in looped =>
         \E j \in DOMAIN sorted : sorted[j] = flow.nodes[i]
    /\ stage = "sorted" => at > Len(flow.nodes)

SortInv == /\ FlowOK /\ Shape /\ Once /\ Counted /\ NoneForgotten /\ Appended
           /\ SourcesComeFirst /\ LoopedHaveLoopedSource

(* A flow is two finite sequences, of distinct nodes and of edges between  *)
(* them.                                                                   *)
LEMMA FlowShape ==
  ASSUME FlowOK
  PROVE  /\ flow.nodes \in Seq(Nodes) /\ Len(flow.nodes) \in Nat
         /\ DOMAIN flow.nodes = 1..Len(flow.nodes)
         /\ \A j, k \in DOMAIN flow.nodes : flow.nodes[j] = flow.nodes[k] => j = k
         /\ \A i \in DOMAIN flow.nodes : flow.nodes[i] \in Nodes
         /\ \A n \in Nodes : \E i \in DOMAIN flow.nodes : flow.nodes[i] = n
         /\ Len(flow.edges) \in Nat /\ DOMAIN flow.edges = 1..Len(flow.edges)
         /\ \A k \in DOMAIN flow.edges : flow.edges[k].from \in Nodes /\ flow.edges[k].to \in Nodes
<1>1. /\ flow.nodes \in Seq(ToSet(flow.nodes)) /\ flow.edges \in Seq(ToSet(flow.edges))
      /\ \A j, k \in DOMAIN flow.nodes : flow.nodes[j] = flow.nodes[k] => j = k
      /\ \A k \in DOMAIN flow.edges :
           flow.edges[k].from \in ToSet(flow.nodes) /\ flow.edges[k].to \in ToSet(flow.nodes)
  BY FlowsAreGraphs DEF FlowOK
<1> QED BY <1>1 DEF Nodes

(* Every set of edges into a node is finite, and counts 0 only if empty. *)
LEMMA EdgesAreFinite ==
  ASSUME FlowOK, NEW n, NEW S \in SUBSET EdgesInto(n)
  PROVE  IsFiniteSet(S) /\ Cardinality(S) \in Nat /\ (Cardinality(S) = 0 <=> S = {})
<1>1. IsFiniteSet(1..Len(flow.edges))
  BY FlowShape, FS_Interval
<1>2. S \in SUBSET (1..Len(flow.edges))
  BY FlowShape DEF EdgesInto
<1>3. IsFiniteSet(S)
  BY <1>1, <1>2, FS_Subset
<1> QED BY <1>3, FS_CardinalityType, FS_EmptySet

(* The start: no node is taken, so every edge is open. *)
LEMMA SortStarts == SortInit => SortInv
<1> SUFFICES ASSUME SortInit PROVE SortInv
  OBVIOUS
<1>1. FlowOK
  BY DEF SortInit, FlowOK
<1>2. \A n : Open(n) = EdgesInto(n)
  BY DEF SortInit, Open, Visited
<1>3. \A n \in Nodes : degree[n] = Cardinality(Open(n)) /\ Cardinality(Open(n)) \in Nat
  BY <1>1, <1>2, EdgesAreFinite DEF SortInit
<1>4. Shape
  BY <1>3 DEF SortInit, Shape, Numbering
<1>5. Once /\ Counted /\ NoneForgotten /\ Appended
  BY <1>1, <1>3, FlowShape DEF SortInit, Once, Counted, NoneForgotten, Appended, Numbering
<1>6. SourcesComeFirst /\ LoopedHaveLoopedSource
  BY DEF SortInit, SourcesComeFirst, LoopedHaveLoopedSource
<1> QED BY <1>1, <1>4, <1>5, <1>6 DEF SortInv

(* Scanning changes neither what is open nor what is taken. *)
LEMMA ScanNodeKeeps == SortInv /\ ScanNode => SortInv'
<1> SUFFICES ASSUME SortInv, ScanNode PROVE SortInv'
  OBVIOUS
<1> USE DEF SortInv
<1> DEFINE n == flow.nodes[at]
<1>1. /\ n \in Nodes /\ at \in DOMAIN flow.nodes /\ sorted = <<>> /\ stage = "scan"
      /\ at \in Nat /\ DOMAIN flow.nodes \subseteq Nat /\ queue \in Seq(Nodes)
      /\ at' = at + 1 /\ flow' = flow /\ degree' = degree /\ sorted' = sorted
      /\ queue' = IF degree[n] = 0 THEN Append(queue, n) ELSE queue
  BY FlowShape DEF ScanNode, Shape
<1>2. FlowOK'
  BY DEF FlowOK, ScanNode
<1>3. \A m : Open(m)' = Open(m)
  BY DEF ScanNode, Open, Visited, EdgesInto
<1>4. queue' \in Seq(Nodes)
  BY <1>1 DEF ScanNode, Shape
<1>5. Shape'
  BY <1>1, <1>4 DEF ScanNode, Shape, Numbering, Nodes
<1>6. \A j \in DOMAIN queue : queue[j] # n
  <2> SUFFICES ASSUME NEW j \in DOMAIN queue PROVE queue[j] # n
    OBVIOUS
  <2>1. PICK i \in DOMAIN flow.nodes : i < at /\ flow.nodes[i] = queue[j]
    BY <1>1 DEF NoneForgotten
  <2>2. i \in Nat /\ i # at
    BY <1>1, <2>1
  <2> QED BY <1>1, <2>1, <2>2, FlowShape
<1>7. Once'
  BY <1>1, <1>4, <1>6 DEF ScanNode, Once, Shape
<1>8. Counted'
  BY <1>1, <1>3, <1>4 DEF ScanNode, Counted, Shape, Nodes, Numbering
<1>9. NoneForgotten'
  <2>1. \A j \in DOMAIN queue' : \E i \in DOMAIN flow.nodes : i < at' /\ flow.nodes[i] = queue'[j]
    <3> SUFFICES ASSUME NEW j \in DOMAIN queue'
                 PROVE  \E i \in DOMAIN flow.nodes : i < at' /\ flow.nodes[i] = queue'[j]
      OBVIOUS
    <3>1. CASE j \in DOMAIN queue
      <4>1. PICK i \in DOMAIN flow.nodes : i < at /\ flow.nodes[i] = queue[j]
        BY <1>1, <3>1 DEF NoneForgotten
      <4>2. queue'[j] = queue[j] /\ i < at'
        BY <1>1, <3>1, <4>1
      <4> QED BY <4>1, <4>2
    <3>2. CASE j \notin DOMAIN queue
      <4>1. queue' = Append(queue, n)
        BY <1>1, <3>2
      <4>2. j = Len(queue) + 1
        BY <4>1, <3>2, <1>1
      <4>3. queue'[j] = n /\ at < at'
        BY <4>1, <4>2, <1>1
      <4> QED BY <4>3, <1>1
    <3> QED BY <3>1, <3>2
  <2>2. \A i \in DOMAIN flow.nodes :
          i < at' /\ degree[flow.nodes[i]] = 0 => \E j \in DOMAIN queue' : queue'[j] = flow.nodes[i]
    <3> SUFFICES ASSUME NEW i \in DOMAIN flow.nodes, i < at', degree[flow.nodes[i]] = 0
                 PROVE  \E j \in DOMAIN queue' : queue'[j] = flow.nodes[i]
      OBVIOUS
    <3>1. CASE i = at
      <4>1. queue' = Append(queue, n)
        BY <3>1, <1>1
      <4>2. /\ DOMAIN queue' = 1..(Len(queue) + 1) /\ Len(queue) \in Nat
            /\ queue'[Len(queue) + 1] = n
        <5>1. \A m \in Nodes : /\ DOMAIN Append(queue, m) = 1..(Len(queue) + 1)
                               /\ Append(queue, m)[Len(queue) + 1] = m
          BY <1>1
        <5>2. n \in Nodes /\ Len(queue) \in Nat
          BY <1>1
        <5> HIDE DEF n
        <5>3. /\ DOMAIN Append(queue, n) = 1..(Len(queue) + 1)
              /\ Append(queue, n)[Len(queue) + 1] = n
          BY <5>1, <5>2
        <5> QED BY <4>1, <5>2, <5>3
      <4>3. Len(queue) + 1 \in DOMAIN queue'
        BY <4>2
      <4> QED BY <4>2, <4>3, <3>1
    <3>2. CASE i < at
      <4>1. PICK j \in DOMAIN queue : queue[j] = flow.nodes[i]
        BY <3>2, <1>1 DEF NoneForgotten
      <4>2. j \in DOMAIN queue' /\ queue'[j] = queue[j]
        BY <1>1 DEF ScanNode, Shape
      <4> QED BY <4>1, <4>2
    <3>3. i = at \/ i < at
      BY <1>1
    <3> QED BY <3>1, <3>2, <3>3
  <2> QED BY <1>1, <2>1, <2>2 DEF ScanNode, NoneForgotten
<1>10. Appended' /\ SourcesComeFirst' /\ LoopedHaveLoopedSource'
  BY <1>1 DEF ScanNode, Appended, SourcesComeFirst, LoopedHaveLoopedSource, Shape, Numbering
<1> QED BY <1>2, <1>5, <1>7, <1>8, <1>9, <1>10

(* The scan has seen every node, so every node of in-degree 0 is queued. *)
LEMMA EndScanKeeps == SortInv /\ EndScan => SortInv'
<1> SUFFICES ASSUME SortInv, EndScan PROVE SortInv'
  OBVIOUS
<1> USE DEF SortInv
<1>1. FlowOK' /\ Once'
  BY DEF FlowOK, Once, EndScan
<1>2. \A m : Open(m)' = Open(m)
  BY DEF EndScan, Open, Visited, EdgesInto
<1>3. Shape'
  BY DEF EndScan, Shape, Numbering, Nodes
<1>4. Counted'
  BY <1>2 DEF EndScan, Counted, Nodes, Numbering
<1>5. NoneForgotten'
  <2> SUFFICES ASSUME NEW n \in Nodes, degree[n] = 0
               PROVE  \E j \in DOMAIN queue : queue[j] = n
    BY DEF EndScan, NoneForgotten, Nodes
  <2>1. PICK i \in DOMAIN flow.nodes : flow.nodes[i] = n
    BY FlowShape
  <2>2. i < at
    BY FlowShape DEF EndScan, Shape
  <2> QED BY <2>1, <2>2 DEF NoneForgotten, EndScan
<1>6. Appended' /\ SourcesComeFirst' /\ LoopedHaveLoopedSource'
  BY DEF EndScan, Appended, SourcesComeFirst, LoopedHaveLoopedSource, EdgesInto
<1> QED BY <1>1, <1>3, <1>4, <1>5, <1>6

(* A node of in-degree 0 is taken: its sources are all taken before it. *)
LEMMA TakeKeeps == SortInv /\ TakeFromQueue => SortInv'
<1> SUFFICES ASSUME SortInv, TakeFromQueue PROVE SortInv'
  OBVIOUS
<1> USE DEF SortInv
<1> DEFINE n == Head(queue)
<1>1. /\ stage = "take" /\ queue # <<>> /\ queue \in Seq(Nodes) /\ sorted \in Seq(Nodes)
      /\ n = queue[1] /\ 1 \in DOMAIN queue /\ n \in Nodes
  BY DEF TakeFromQueue, Shape
<1>2. /\ sorted' = Append(sorted, n) /\ sorted' \in Seq(Nodes) /\ Len(sorted') = Len(sorted) + 1
      /\ DOMAIN sorted' = 1..(Len(sorted) + 1) /\ DOMAIN sorted = 1..Len(sorted)
      /\ Len(sorted) \in Nat
      /\ sorted'[Len(sorted) + 1] = n
      /\ \A j \in DOMAIN sorted : sorted'[j] = sorted[j]
  BY <1>1 DEF TakeFromQueue
<1>3. /\ queue' = Tail(queue) /\ queue' \in Seq(Nodes) /\ Len(queue) \in Nat
      /\ DOMAIN queue = 1..Len(queue) /\ DOMAIN queue' = 1..(Len(queue) - 1)
      /\ \A j \in DOMAIN queue' : j + 1 \in DOMAIN queue /\ queue'[j] = queue[j + 1]
      /\ \A j \in DOMAIN queue : j # 1 => j - 1 \in DOMAIN queue' /\ queue'[j - 1] = queue[j]
  BY <1>1 DEF TakeFromQueue
<1>4. FlowOK'
  BY DEF FlowOK, TakeFromQueue
<1>5. \A m : Open(m)' = Open(m)
  <2>1. \A k \in DOMAIN flow.edges : Visited(k)' <=> Visited(k)
    <3> SUFFICES ASSUME NEW k \in DOMAIN flow.edges PROVE Visited(k)' <=> Visited(k)
      OBVIOUS
    <3>1. Visited(k) <=> \E j \in DOMAIN sorted : sorted[j] = flow.edges[k].from
      BY <1>1 DEF Visited
    <3>2. Visited(k)' <=> \E j \in DOMAIN sorted' :
                            /\ sorted'[j] = flow.edges[k].from
                            /\ j = Len(sorted) + 1 => k < 1
      BY <1>2 DEF Visited, TakeFromQueue
    <3>3. ~(k < 1)
      BY FlowShape
    <3> QED BY <3>1, <3>2, <3>3, <1>2
  <2> QED BY <2>1 DEF Open, EdgesInto, TakeFromQueue
<1>6. Shape'
  BY <1>1, <1>2, <1>3 DEF TakeFromQueue, Shape, Numbering, Nodes
<1>7. Once'
  <2>1. \A j \in DOMAIN sorted : sorted[j] # n
    BY <1>1 DEF Once
  <2>2. \A j, k \in DOMAIN sorted' : sorted'[j] = sorted'[k] => j = k
    BY <1>2, <2>1 DEF Once
  <2>3. \A j, k \in DOMAIN queue' : queue'[j] = queue'[k] => j = k
    BY <1>3 DEF Once
  <2>4. \A j \in DOMAIN queue' : queue'[j] # n
    BY <1>1, <1>3 DEF Once
  <2>5. \A j \in DOMAIN queue', k \in DOMAIN sorted' : queue'[j] # sorted'[k]
    BY <1>2, <1>3, <2>4 DEF Once
  <2> QED BY <2>2, <2>3, <2>5 DEF Once
<1>8. Counted'
  <2>1. \A m \in Nodes : degree[m] = Cardinality(Open(m)')
    BY <1>1, <1>5 DEF Counted, Numbering
  <2>2. \A j \in DOMAIN queue' : degree[queue'[j]] = 0
    BY <1>1, <1>3 DEF Counted, Numbering
  <2>3. \A j \in DOMAIN sorted' : degree[sorted'[j]] = 0
    BY <1>1, <1>2 DEF Counted, Numbering
  <2> QED BY <2>1, <2>2, <2>3 DEF TakeFromQueue, Counted, Nodes
<1>9. NoneForgotten'
  <2> SUFFICES ASSUME NEW m \in Nodes, degree[m] = 0
               PROVE  \/ \E j \in DOMAIN queue' : queue'[j] = m
                      \/ \E j \in DOMAIN sorted' : sorted'[j] = m
    <3>1. Nodes' = Nodes /\ degree' = degree /\ stage' = "visit"
      BY DEF TakeFromQueue, Nodes
    <3> QED BY <3>1 DEF NoneForgotten
  <2>1. CASE \E j \in DOMAIN queue : queue[j] = m
    <3>1. PICK j \in DOMAIN queue : queue[j] = m
      BY <2>1
    <3>2. CASE j = 1
      BY <3>1, <3>2, <1>1, <1>2
    <3>3. CASE j # 1
      BY <3>1, <3>3, <1>3
    <3> QED BY <3>2, <3>3
  <2>2. CASE \E j \in DOMAIN sorted : sorted[j] = m
    BY <2>2, <1>2
  <2> QED BY <1>1, <2>1, <2>2 DEF NoneForgotten
<1>10. SourcesComeFirst'
  <2> SUFFICES ASSUME NEW j \in DOMAIN sorted', NEW k \in EdgesInto(sorted'[j])
               PROVE  \E s \in 1..(j - 1) : sorted'[s] = flow.edges[k].from
    BY DEF SourcesComeFirst, EdgesInto, TakeFromQueue
  <2>1. CASE j \in DOMAIN sorted
    <3>1. sorted[j] \notin looped /\ sorted'[j] = sorted[j]
      BY <1>1, <1>2, <2>1 DEF Shape, Numbering
    <3>2. PICK s \in 1..(j - 1) : sorted[s] = flow.edges[k].from
      BY <2>1, <3>1 DEF SourcesComeFirst
    <3>3. s \in DOMAIN sorted
      BY <1>2, <2>1
    <3> QED BY <1>2, <3>2, <3>3
  <2>2. CASE j = Len(sorted) + 1
    <3>1. degree[n] = 0 /\ degree[n] = Cardinality(Open(n))
      BY <1>1 DEF Counted, Numbering
    <3>2. Open(n) = {}
      BY <3>1, EdgesAreFinite DEF Open
    <3>3. Visited(k)
      BY <3>2, <1>2, <2>2 DEF Open
    <3>4. PICK s \in DOMAIN sorted : sorted[s] = flow.edges[k].from
      BY <3>3 DEF Visited
    <3> QED BY <3>4, <1>2, <2>2
  <2> QED BY <1>2, <2>1, <2>2
<1>11. Appended' /\ LoopedHaveLoopedSource'
  BY DEF TakeFromQueue, Appended, LoopedHaveLoopedSource, EdgesInto
<1> QED BY <1>4, <1>6, <1>7, <1>8, <1>9, <1>10, <1>11

(* An edge is visited: it is closed, and the node it leads to, which was   *)
(* neither taken nor queued, is queued if it was its last.                 *)
LEMMA VisitEdgeKeeps == SortInv /\ VisitEdge => SortInv'
<1> SUFFICES ASSUME SortInv, VisitEdge PROVE SortInv'
  OBVIOUS
<1> USE DEF SortInv
<1> PICK t : t = flow.edges[at].to
  OBVIOUS
<1>1. /\ stage = "visit" /\ at \in DOMAIN flow.edges /\ t \in Nodes /\ Target = t
      /\ Len(sorted) \in DOMAIN sorted /\ sorted \in Seq(Nodes) /\ queue \in Seq(Nodes)
      /\ flow.edges[at].from = sorted[Len(sorted)] /\ at \in Nat /\ degree \in [Nodes -> Nat]
      /\ DOMAIN sorted = 1..Len(sorted)
  <2>1. stage = "visit" /\ at \in DOMAIN flow.edges /\ flow.edges[at].from = sorted[Len(sorted)]
    <3>1. at \in Nat \ {0} /\ DOMAIN flow.edges = 1..Len(flow.edges) /\ Len(flow.edges) \in Nat
      BY FlowShape DEF Shape
    <3> QED BY <3>1 DEF VisitEdge, Taken
  <2>2. t \in Nodes /\ Target = t
    BY <2>1, FlowShape DEF Target
  <2>3. /\ sorted \in Seq(Nodes) /\ sorted # <<>> /\ queue \in Seq(Nodes)
        /\ at \in Nat /\ degree \in [Nodes -> Nat]
    BY <2>1 DEF Shape
  <2>4. Len(sorted) \in DOMAIN sorted /\ DOMAIN sorted = 1..Len(sorted)
    BY <2>3
  <2> QED BY <2>1, <2>2, <2>3, <2>4
<1>2. FlowOK'
  BY DEF FlowOK, VisitEdge
<1>3. at \in Open(t)
  <2>1. \A j \in DOMAIN sorted : sorted[j] = flow.edges[at].from => j = Len(sorted)
    BY <1>1 DEF Once
  <2>2. ~Visited(at)
    BY <1>1, <2>1 DEF Visited
  <2> QED BY <1>1, <2>2 DEF Open, EdgesInto, Target
<1>4. \A k \in DOMAIN flow.edges : Visited(k)' <=> Visited(k) \/ k = at
  <2> SUFFICES ASSUME NEW k \in DOMAIN flow.edges PROVE Visited(k)' <=> Visited(k) \/ k = at
    OBVIOUS
  <2>1. k \in Nat
    BY FlowShape
  <2>2. Visited(k)' <=> \E j \in DOMAIN sorted :
                          sorted[j] = flow.edges[k].from /\ (j = Len(sorted) => k < at + 1)
    BY <1>1 DEF VisitEdge, Visited
  <2>3. Visited(k) <=> \E j \in DOMAIN sorted :
                          sorted[j] = flow.edges[k].from /\ (j = Len(sorted) => k < at)
    BY <1>1 DEF Visited
  <2>4. CASE k = at
    <3>1. at < at + 1
      BY <1>1
    <3> QED BY <2>2, <2>4, <3>1, <1>1
  <2>5. CASE k # at
    <3>1. k < at + 1 <=> k < at
      BY <2>5, <2>1, <1>1
    <3> QED BY <2>2, <2>3, <2>5, <3>1
  <2> QED BY <2>4, <2>5
<1>5. /\ Open(t)' = Open(t) \ {at}
      /\ \A m \in Nodes : m # t => Open(m)' = Open(m)
  <2>1. \A m : EdgesInto(m)' = EdgesInto(m) /\ EdgesInto(m) \subseteq DOMAIN flow.edges
    BY DEF EdgesInto, VisitEdge
  <2>2. \A m : Open(m)' = {k \in EdgesInto(m) : ~Visited(k) /\ k # at}
    BY <2>1, <1>4 DEF Open
  <2>3. \A m \in Nodes : m # t => at \notin EdgesInto(m)
    BY DEF EdgesInto, Target
  <2> QED BY <2>2, <2>3 DEF Open
<1>6. /\ degree[t] = Cardinality(Open(t)) /\ degree[t] \in Nat /\ degree[t] # 0
      /\ Cardinality(Open(t)') = degree[t] - 1
  <2>1. degree[t] = Cardinality(Open(t))
    BY <1>1 DEF Counted, Numbering
  <2>2. IsFiniteSet(Open(t)) /\ (Cardinality(Open(t)) = 0 <=> Open(t) = {})
    BY EdgesAreFinite DEF Open
  <2> QED BY <1>1, <1>3, <1>5, <2>1, <2>2, FS_RemoveElement
<1>7. /\ degree' \in [Nodes -> Nat] /\ degree'[t] = degree[t] - 1
      /\ \A m \in Nodes : m # t => degree'[m] = degree[m]
  BY <1>1, <1>6 DEF VisitEdge
<1>8. /\ \A j \in DOMAIN queue : queue[j] # t
      /\ \A j \in DOMAIN sorted : sorted[j] # t
  BY <1>1, <1>6 DEF Counted, Numbering
<1>9. /\ queue' = IF degree[t] = 1 THEN Append(queue, t) ELSE queue
      /\ queue' \in Seq(Nodes) /\ sorted' = sorted /\ stage' = stage /\ flow' = flow
      /\ looped' = looped /\ at' = at + 1
  BY <1>1 DEF VisitEdge, Frees
<1>10. /\ \A j \in DOMAIN queue' : \/ j \in DOMAIN queue /\ queue'[j] = queue[j]
                                   \/ degree[t] = 1 /\ j = Len(queue) + 1 /\ queue'[j] = t
       /\ \A j \in DOMAIN queue : j \in DOMAIN queue' /\ queue'[j] = queue[j]
       /\ degree[t] = 1 => \E j \in DOMAIN queue' : queue'[j] = t
  <2>1. CASE degree[t] = 1
    <3>1. /\ queue' = Append(queue, t)
          /\ DOMAIN queue' = 1..(Len(queue) + 1) /\ DOMAIN queue = 1..Len(queue)
          /\ Len(queue) \in Nat
          /\ queue'[Len(queue) + 1] = t
      BY <2>1, <1>1, <1>9
    <3> QED BY <2>1, <3>1, <1>1
  <2>2. CASE degree[t] # 1
    BY <2>2, <1>9
  <2> QED BY <2>1, <2>2
<1>11. Shape'
  BY <1>1, <1>7, <1>9 DEF Shape, Nodes, Numbering
<1>12. Once'
  <2>1. \A j, k \in DOMAIN queue' : queue'[j] = queue'[k] => j = k
    BY <1>8, <1>10 DEF Once
  <2>2. \A j \in DOMAIN queue', k \in DOMAIN sorted : queue'[j] # sorted[k]
    BY <1>8, <1>10 DEF Once
  <2> QED BY <1>9, <2>1, <2>2 DEF Once
<1>13. Counted'
  <2>1. \A m \in Nodes : degree'[m] = Cardinality(Open(m)')
    <3> SUFFICES ASSUME NEW m \in Nodes PROVE degree'[m] = Cardinality(Open(m)')
      OBVIOUS
    <3>1. CASE m = t
      BY <3>1, <1>6, <1>7
    <3>2. CASE m # t
      BY <3>2, <1>1, <1>5, <1>7 DEF Counted, Numbering
    <3> QED BY <3>1, <3>2
  <2>2. \A j \in DOMAIN queue' : degree'[queue'[j]] = 0
    <3> SUFFICES ASSUME NEW j \in DOMAIN queue' PROVE degree'[queue'[j]] = 0
      OBVIOUS
    <3>1. CASE j \in DOMAIN queue /\ queue'[j] = queue[j]
      <4>1. queue[j] \in Nodes /\ queue[j] # t /\ degree[queue[j]] = 0
        BY <3>1, <1>1, <1>8 DEF Counted, Numbering
      <4> QED BY <3>1, <4>1, <1>7
    <3>2. CASE degree[t] = 1 /\ queue'[j] = t
      BY <3>2, <1>7
    <3> QED BY <3>1, <3>2, <1>10
  <2>3. \A j \in DOMAIN sorted : degree'[sorted[j]] = 0
    <3> SUFFICES ASSUME NEW j \in DOMAIN sorted PROVE degree'[sorted[j]] = 0
      OBVIOUS
    <3>1. sorted[j] \in Nodes /\ sorted[j] # t /\ degree[sorted[j]] = 0
      BY <1>1, <1>8 DEF Counted, Numbering
    <3> QED BY <3>1, <1>7
  <2> QED BY <1>9, <2>1, <2>2, <2>3 DEF Counted, Nodes
<1>14. NoneForgotten'
  <2> SUFFICES ASSUME NEW m \in Nodes, degree'[m] = 0
               PROVE  \/ \E j \in DOMAIN queue' : queue'[j] = m
                      \/ \E j \in DOMAIN sorted : sorted[j] = m
    <3>1. Nodes' = Nodes /\ stage' = "visit"
      BY <1>1, <1>9 DEF Nodes
    <3> QED BY <1>9, <3>1 DEF NoneForgotten
  <2>1. CASE m = t
    BY <2>1, <1>6, <1>7, <1>10
  <2>2. CASE m # t
    <3>1. \/ \E j \in DOMAIN queue : queue[j] = m
          \/ \E j \in DOMAIN sorted : sorted[j] = m
      BY <2>2, <1>1, <1>7 DEF NoneForgotten
    <3> QED BY <3>1, <1>10
  <2> QED BY <2>1, <2>2
<1>15. Appended' /\ SourcesComeFirst' /\ LoopedHaveLoopedSource'
  BY <1>1, <1>9 DEF Appended, SourcesComeFirst, LoopedHaveLoopedSource, EdgesInto
<1> QED BY <1>2, <1>11, <1>12, <1>13, <1>14, <1>15

(* The loop passes an edge of another node, or ends: nothing opens or      *)
(* closes.                                                                 *)
LEMMA PassEdgeKeeps == SortInv /\ PassEdge => SortInv'
<1> SUFFICES ASSUME SortInv, PassEdge PROVE SortInv'
  OBVIOUS
<1> USE DEF SortInv
<1>1. /\ stage = "visit" /\ at \in DOMAIN flow.edges /\ at \in Nat /\ at' = at + 1
      /\ flow.edges[at].from # sorted[Len(sorted)]
      /\ UNCHANGED <<flow, degree, queue, sorted, looped, stage>>
  BY FlowShape DEF PassEdge, Shape, Taken
<1>2. \A k \in DOMAIN flow.edges : Visited(k)' <=> Visited(k)
  <2> SUFFICES ASSUME NEW k \in DOMAIN flow.edges, NEW j \in DOMAIN sorted,
                      sorted[j] = flow.edges[k].from, j = Len(sorted)
               PROVE  k < at + 1 <=> k < at
    BY <1>1 DEF Visited
  <2>1. k # at /\ k \in Nat
    BY <1>1, FlowShape
  <2> QED BY <2>1, <1>1
<1>3. \A m : Open(m)' = Open(m)
  BY <1>1, <1>2 DEF Open, EdgesInto
<1>4. FlowOK' /\ Once' /\ Appended' /\ SourcesComeFirst' /\ LoopedHaveLoopedSource'
  BY <1>1 DEF FlowOK, Once, Appended, SourcesComeFirst, LoopedHaveLoopedSource, EdgesInto
<1>5. Shape'
  BY <1>1 DEF Shape, Nodes
<1>6. Counted' /\ NoneForgotten'
  BY <1>1, <1>3 DEF Counted, NoneForgotten, Nodes
<1> QED BY <1>4, <1>5, <1>6

LEMMA EndVisitKeeps == SortInv /\ EndVisit => SortInv'
<1> SUFFICES ASSUME SortInv, EndVisit PROVE SortInv'
  OBVIOUS
<1> USE DEF SortInv
<1>1. /\ stage = "visit" /\ stage' = "take" /\ at \in Nat /\ at > Len(flow.edges)
      /\ UNCHANGED <<flow, degree, queue, sorted, looped, at>>
  BY DEF EndVisit, Shape
<1>2. \A k \in DOMAIN flow.edges : k < at
  BY <1>1, FlowShape
<1>3. \A k \in DOMAIN flow.edges : Visited(k)' <=> Visited(k)
  BY <1>1, <1>2 DEF Visited
<1>4. \A m : Open(m)' = Open(m)
  BY <1>1, <1>3 DEF Open, EdgesInto
<1>5. FlowOK' /\ Once' /\ Appended' /\ SourcesComeFirst' /\ LoopedHaveLoopedSource'
  BY <1>1 DEF FlowOK, Once, Appended, SourcesComeFirst, LoopedHaveLoopedSource, EdgesInto
<1>6. Shape'
  BY <1>1 DEF Shape, Nodes, Numbering
<1>7. Counted' /\ NoneForgotten'
  BY <1>1, <1>4 DEF Counted, NoneForgotten, Nodes, Numbering
<1> QED BY <1>5, <1>6, <1>7

(* The queue is empty: a node not taken has an open edge, and the source   *)
(* of that edge is not taken either.                                       *)
LEMMA EndTakeKeeps == SortInv /\ EndTake => SortInv'
<1> SUFFICES ASSUME SortInv, EndTake PROVE SortInv'
  OBVIOUS
<1> USE DEF SortInv
<1>1. /\ stage = "take" /\ stage' = "rest" /\ at' = 1 /\ queue = <<>>
      /\ UNCHANGED <<flow, degree, queue, sorted>>
      /\ looped' = {n \in Nodes : ~\E j \in DOMAIN sorted : sorted[j] = n}
  BY DEF EndTake
<1>2. FlowOK' /\ Once'
  BY <1>1 DEF FlowOK, Once
<1>3. Shape'
  BY <1>1 DEF Shape, Nodes, Numbering
<1>4. Counted' /\ NoneForgotten'
  BY <1>1 DEF Counted, NoneForgotten, Numbering
<1>5. \A i \in DOMAIN flow.nodes : ~(i < 1)
  BY FlowShape
<1>6. Appended'
  BY <1>1, <1>5 DEF Appended, Nodes
<1>7. SourcesComeFirst'
  BY <1>1 DEF SourcesComeFirst, EdgesInto, Shape, Numbering
<1>8. LoopedHaveLoopedSource'
  <2> SUFFICES ASSUME NEW n \in Nodes, ~\E j \in DOMAIN sorted : sorted[j] = n
               PROVE  \E k \in EdgesInto(n) : flow.edges[k].from \in looped'
    BY <1>1 DEF LoopedHaveLoopedSource, EdgesInto
  <2>1. degree[n] # 0 /\ degree[n] = Cardinality(Open(n))
    BY <1>1 DEF NoneForgotten, Counted, Numbering
  <2>2. PICK k \in EdgesInto(n) : ~Visited(k)
    BY <2>1, EdgesAreFinite DEF Open
  <2>3. ~\E j \in DOMAIN sorted : sorted[j] = flow.edges[k].from
    BY <2>2, <1>1 DEF Visited
  <2>4. flow.edges[k].from \in Nodes
    BY FlowShape DEF EdgesInto
  <2> QED BY <1>1, <2>2, <2>3, <2>4
<1> QED BY <1>2, <1>3, <1>4, <1>6, <1>7, <1>8

(* Each node left over is appended when its turn comes, and only then. *)
LEMMA AppendRestKeeps == SortInv /\ AppendRest => SortInv'
<1> SUFFICES ASSUME SortInv, AppendRest PROVE SortInv'
  OBVIOUS
<1> USE DEF SortInv
<1> PICK n : n = flow.nodes[at]
  OBVIOUS
<1>1. /\ stage = "rest" /\ at \in DOMAIN flow.nodes /\ at \in Nat /\ n \in Nodes
      /\ DOMAIN flow.nodes \subseteq Nat /\ queue = <<>> /\ sorted \in Seq(Nodes)
      /\ at' = at + 1 /\ UNCHANGED <<flow, degree, queue, looped, stage>>
      /\ sorted' = IF n \in looped THEN Append(sorted, n) ELSE sorted
  BY FlowShape DEF AppendRest, Shape
<1>2. n \in looped => \A j \in DOMAIN sorted : sorted[j] # n
  <2> SUFFICES ASSUME n \in looped, NEW j \in DOMAIN sorted, sorted[j] = n PROVE FALSE
    OBVIOUS
  <2>1. PICK i \in DOMAIN flow.nodes : i < at /\ flow.nodes[i] = n
    BY <1>1 DEF Appended
  <2>2. i # at
    BY <1>1, <2>1
  <2> QED BY <1>1, <2>1, <2>2, FlowShape
<1>3. /\ sorted' \in Seq(Nodes)
      /\ \A j \in DOMAIN sorted' : \/ j \in DOMAIN sorted /\ sorted'[j] = sorted[j]
                                   \/ n \in looped /\ j = Len(sorted) + 1 /\ sorted'[j] = n
      /\ \A j \in DOMAIN sorted : j \in DOMAIN sorted' /\ sorted'[j] = sorted[j]
      /\ n \in looped => \E j \in DOMAIN sorted' : sorted'[j] = n
  <2>1. CASE n \in looped
    <3>1. /\ sorted' = Append(sorted, n)
          /\ DOMAIN sorted' = 1..(Len(sorted) + 1) /\ DOMAIN sorted = 1..Len(sorted)
          /\ Len(sorted) \in Nat
          /\ sorted'[Len(sorted) + 1] = n
      BY <2>1, <1>1
    <3> QED BY <2>1, <3>1, <1>1
  <2>2. CASE n \notin looped
    BY <2>2, <1>1
  <2> QED BY <2>1, <2>2
<1>4. FlowOK'
  BY <1>1 DEF FlowOK
<1>5. Shape'
  BY <1>1, <1>3 DEF Shape, Nodes, Numbering
<1>6. Once'
  <2>1. \A j, k \in DOMAIN sorted' : sorted'[j] = sorted'[k] => j = k
    BY <1>2, <1>3 DEF Once
  <2> QED BY <1>1, <2>1 DEF Once
<1>7. Counted' /\ NoneForgotten'
  BY <1>1 DEF Counted, NoneForgotten, Numbering
<1>8. Appended'
  <2>1. \A j \in DOMAIN sorted' : sorted'[j] \in looped =>
          \E i \in DOMAIN flow.nodes : i < at + 1 /\ flow.nodes[i] = sorted'[j]
    <3> SUFFICES ASSUME NEW j \in DOMAIN sorted', sorted'[j] \in looped
                 PROVE  \E i \in DOMAIN flow.nodes : i < at + 1 /\ flow.nodes[i] = sorted'[j]
      OBVIOUS
    <3>1. CASE j \in DOMAIN sorted /\ sorted'[j] = sorted[j]
      <4>1. PICK i \in DOMAIN flow.nodes : i < at /\ flow.nodes[i] = sorted[j]
        BY <1>1, <3>1 DEF Appended
      <4>2. i < at + 1
        BY <1>1, <4>1
      <4> QED BY <3>1, <4>1, <4>2
    <3>2. CASE sorted'[j] = n
      <4>1. at < at + 1
        BY <1>1
      <4> QED BY <1>1, <3>2, <4>1
    <3> QED BY <1>3, <3>1, <3>2
  <2>2. \A m \in Nodes \ looped : \E j \in DOMAIN sorted' : sorted'[j] = m
    <3> SUFFICES ASSUME NEW m \in Nodes \ looped PROVE \E j \in DOMAIN sorted' : sorted'[j] = m
      OBVIOUS
    <3>1. PICK j \in DOMAIN sorted : sorted[j] = m
      BY <1>1 DEF Appended
    <3> QED BY <1>3, <3>1
  <2>3. \A i \in DOMAIN flow.nodes : i < at + 1 /\ flow.nodes[i] \in looped =>
          \E j \in DOMAIN sorted' : sorted'[j] = flow.nodes[i]
    <3> SUFFICES ASSUME NEW i \in DOMAIN flow.nodes, i < at + 1, flow.nodes[i] \in looped
                 PROVE  \E j \in DOMAIN sorted' : sorted'[j] = flow.nodes[i]
      OBVIOUS
    <3>1. i = at \/ i < at
      BY <1>1
    <3>2. CASE i = at
      <4>1. n = flow.nodes[i] /\ n \in looped
        BY <3>2
      <4>2. PICK j \in DOMAIN sorted' : sorted'[j] = n
        BY <1>3, <4>1
      <4> QED BY <4>1, <4>2
    <3>3. CASE i < at
      <4>1. PICK j \in DOMAIN sorted : sorted[j] = flow.nodes[i]
        BY <1>1, <3>3 DEF Appended
      <4> QED BY <1>3, <4>1
    <3> QED BY <3>1, <3>2, <3>3
  <2>4. Nodes' = Nodes
    BY <1>1 DEF Nodes
  <2>5. stage' = "rest" /\ flow' = flow /\ looped' = looped /\ at' = at + 1
    BY <1>1
  <2> QED BY <2>1, <2>2, <2>3, <2>4, <2>5 DEF Appended
<1>9. SourcesComeFirst'
  <2> SUFFICES ASSUME NEW j \in DOMAIN sorted', sorted'[j] \notin looped,
                      NEW k \in EdgesInto(sorted'[j])
               PROVE  \E s \in 1..(j - 1) : sorted'[s] = flow.edges[k].from
    BY <1>1 DEF SourcesComeFirst, EdgesInto
  <2>1. j \in DOMAIN sorted /\ sorted'[j] = sorted[j]
    BY <1>3
  <2>2. PICK s \in 1..(j - 1) : sorted[s] = flow.edges[k].from
    BY <2>1 DEF SourcesComeFirst
  <2>3. s \in DOMAIN sorted
    BY <1>1, <2>1
  <2> QED BY <1>3, <2>2, <2>3
<1>10. LoopedHaveLoopedSource'
  BY <1>1 DEF LoopedHaveLoopedSource, EdgesInto
<1> QED BY <1>4, <1>5, <1>6, <1>7, <1>8, <1>9, <1>10

LEMMA EndRestKeeps == SortInv /\ EndRest => SortInv'
<1> SUFFICES ASSUME SortInv, EndRest PROVE SortInv'
  OBVIOUS
<1> USE DEF SortInv
<1>1. /\ stage = "rest" /\ stage' = "sorted" /\ at > Len(flow.nodes)
      /\ UNCHANGED <<flow, degree, queue, sorted, looped, at>>
  BY DEF EndRest
<1>2. FlowOK' /\ Once' /\ SourcesComeFirst' /\ LoopedHaveLoopedSource'
  BY <1>1 DEF FlowOK, Once, SourcesComeFirst, LoopedHaveLoopedSource, EdgesInto
<1>3. Shape' /\ Counted' /\ NoneForgotten'
  BY <1>1 DEF Shape, Counted, NoneForgotten, Nodes, Numbering
<1>4. Appended'
  BY <1>1 DEF Appended, Nodes
<1> QED BY <1>2, <1>3, <1>4

LEMMA SortKeeps == SortInv /\ [SortNext]_sortVars => SortInv'
<1> SUFFICES ASSUME SortInv, [SortNext]_sortVars PROVE SortInv'
  OBVIOUS
<1>1. CASE UNCHANGED sortVars
  BY <1>1 DEF SortInv, FlowOK, Shape, Once, Counted, Open, Visited, NoneForgotten, Appended, Nodes,
              EdgesInto, SourcesComeFirst, LoopedHaveLoopedSource
<1>2. CASE SortNext
  BY <1>2, ScanNodeKeeps, EndScanKeeps, TakeKeeps, VisitEdgeKeeps, PassEdgeKeeps, EndVisitKeeps,
     EndTakeKeeps, AppendRestKeeps, EndRestKeeps DEF SortNext
<1> QED BY <1>1, <1>2

LEMMA SortAlwaysInv == SortSpec => []SortInv
<1> QED BY SortStarts, SortKeeps, PTL DEF SortSpec

LEMMA SortInvImpliesType == SortInv => SortTypeOK
<1> SUFFICES ASSUME SortInv PROVE SortTypeOK
  OBVIOUS
<1>1. ToSet(queue) \cap ToSet(sorted) = {}
  BY DEF SortInv, Once
<1> QED BY <1>1 DEF SortInv, Shape, Once, SortTypeOK, Numbering

(* In every flow, no node is taken or queued twice, and in-degrees never   *)
(* go below zero.                                                          *)
THEOREM SortTypeCorrect == SortSpec => []SortTypeOK
<1> QED BY SortInvImpliesType, SortAlwaysInv, PTL

(* In every flow, a node outside cycles comes after all that feed it. *)
THEOREM SortRespectsEdges == SortSpec => []SourcesComeFirst
<1>1. SortInv => SourcesComeFirst
  BY DEF SortInv
<1> QED BY <1>1, SortAlwaysInv, PTL

(* In every flow, what is reported as a cycle is on or behind one. *)
THEOREM LoopedAreLooped == SortSpec => []LoopedHaveLoopedSource
<1>1. SortInv => LoopedHaveLoopedSource
  BY DEF SortInv
<1> QED BY <1>1, SortAlwaysInv, PTL

(* Once the sort has ended, every node is in the order. *)
LEMMA SortedIsEverything == SortInv /\ stage = "sorted" => ToSet(sorted) = Nodes
<1> SUFFICES ASSUME SortInv, stage = "sorted" PROVE ToSet(sorted) = Nodes
  OBVIOUS
<1> USE DEF SortInv
<1>1. \A n \in Nodes : \E j \in DOMAIN sorted : sorted[j] = n
  <2> SUFFICES ASSUME NEW n \in looped PROVE \E j \in DOMAIN sorted : sorted[j] = n
    BY DEF Appended
  <2>1. n \in Nodes
    BY DEF Shape
  <2>2. PICK i \in DOMAIN flow.nodes : flow.nodes[i] = n
    BY <2>1, FlowShape
  <2>3. i < at
    BY FlowShape DEF Appended, Shape
  <2> QED BY <2>2, <2>3 DEF Appended
<1>2. \A j \in DOMAIN sorted : sorted[j] \in Nodes
  BY DEF Shape
<1> QED BY <1>1, <1>2

(* In every flow, the order the sort ends with is a permutation of the     *)
(* nodes: the safety half of EveryNodeIsPlaced.                            *)
THEOREM SortIsPermutation ==
  SortSpec => [](stage = "sorted" =>
                   /\ ToSet(sorted) = Nodes
                   /\ \A j, k \in DOMAIN sorted : sorted[j] = sorted[k] => j = k)
<1>1. SortInv => (stage = "sorted" =>
                    /\ ToSet(sorted) = Nodes
                    /\ \A j, k \in DOMAIN sorted : sorted[j] = sorted[k] => j = k)
  BY SortedIsEverything DEF SortInv, Once
<1> QED BY <1>1, SortAlwaysInv, PTL
--------------------------------------------------------------------------------
(* That the sort comes to an end rests on a measure its steps lower: the   *)
(* stages ahead, the places to fill, whether a taken node is being         *)
(* visited, and what is left of the loop in hand, in that order.           *)
NatLess == {ss \in Nat \X Nat : ss[1] < ss[2]}
Shorter(n) == LexProductOrdering(NatLess, Nat, n)

StagesLeft == CASE stage = "scan" -> 3
                [] stage \in {"take", "visit"} -> 2
                [] stage = "rest" -> 1
                [] OTHER -> 0
PlacesLeft == Len(flow.nodes) - Len(sorted)
Visiting == IF stage = "visit" THEN 1 ELSE 0
LoopEnd == IF stage = "visit" THEN Len(flow.edges) ELSE Len(flow.nodes)
LoopLeft == IF at > LoopEnd THEN 0 ELSE LoopEnd + 1 - at
SortLeft == <<StagesLeft, PlacesLeft, Visiting, LoopLeft>>
SortShortens == <<SortLeft', SortLeft>> \in Shorter(4)

(* No chain of ever shorter tuples of numbers is infinite. *)
LEMMA ShorterIsWellFounded == \A n \in Nat : IsWellFoundedOn(Shorter(n), [1..n -> Nat])
<1>1. NatLess = OpToRel(<, Nat)
  BY DEF NatLess, OpToRel
<1>2. IsWellFoundedOn(NatLess, Nat)
  BY <1>1, NatLessThanWellFounded
<1> QED BY <1>2, WFLexProductOrdering DEF Shorter

(* Being distinct nodes of the flow, those in the order are no more than   *)
(* the flow has.                                                           *)
LEMMA OrderFits ==
  ASSUME SortInv
  PROVE  Len(sorted) \in Nat /\ Len(flow.nodes) \in Nat /\ Len(sorted) <= Len(flow.nodes)
<1>1. /\ DOMAIN flow.nodes = 1..Len(flow.nodes) /\ Len(flow.nodes) \in Nat
      /\ \A n \in Nodes : \E k \in DOMAIN flow.nodes : flow.nodes[k] = n
  BY FlowShape DEF SortInv
<1>2. /\ DOMAIN sorted = 1..Len(sorted) /\ Len(sorted) \in Nat
      /\ \A j, k \in DOMAIN sorted : sorted[j] = sorted[k] => j = k
      /\ \A k \in DOMAIN sorted : sorted[k] \in Nodes
  BY DEF SortInv, Shape, Once
<1> DEFINE slot == [j \in 1..Len(sorted) |-> CHOOSE k \in 1..Len(flow.nodes) : flow.nodes[k] = sorted[j]]
<1>3. \A j \in 1..Len(sorted) : slot[j] \in 1..Len(flow.nodes) /\ flow.nodes[slot[j]] = sorted[j]
  BY <1>1, <1>2
<1>4. slot \in Injection(1..Len(sorted), 1..Len(flow.nodes))
  <2>1. slot \in [1..Len(sorted) -> 1..Len(flow.nodes)]
    BY <1>3
  <2>2. ASSUME NEW j \in 1..Len(sorted), NEW k \in 1..Len(sorted), slot[j] = slot[k] PROVE j = k
    <3>1. sorted[j] = sorted[k]
      BY <1>3, <2>2
    <3> QED BY <1>2, <3>1
  <2> QED BY <2>1, <2>2 DEF Injection, IsInjective
<1> HIDE DEF slot
<1>5. \A m \in Nat : IsFiniteSet(1..m) /\ Cardinality(1..m) = m
  <2> SUFFICES ASSUME NEW m \in Nat PROVE IsFiniteSet(1..m) /\ Cardinality(1..m) = m
    OBVIOUS
  <2>1. IsFiniteSet(1..m) /\ Cardinality(1..m) = IF 1 > m THEN 0 ELSE m - 1 + 1
    BY FS_Interval
  <2> QED BY <2>1
<1>6. Cardinality(1..Len(sorted)) <= Cardinality(1..Len(flow.nodes))
  BY <1>1, <1>4, <1>5, FS_Injection
<1> QED BY <1>1, <1>2, <1>5, <1>6

LEMMA SortLeftIsNumbers ==
  ASSUME SortInv
  PROVE  /\ StagesLeft \in Nat /\ PlacesLeft \in Nat /\ Visiting \in Nat /\ LoopLeft \in Nat
         /\ SortLeft \in [1..4 -> Nat]
<1>1. StagesLeft \in Nat /\ Visiting \in Nat
  BY DEF StagesLeft, Visiting
<1>2. PlacesLeft \in Nat
  BY OrderFits DEF PlacesLeft
<1>3. LoopLeft \in Nat
  <2>1. LoopEnd \in Nat /\ at \in Nat
    BY FlowShape DEF SortInv, Shape, LoopEnd
  <2> QED BY <2>1 DEF LoopLeft
<1> QED BY <1>1, <1>2, <1>3 DEF SortLeft

LEMMA LoopStepShortens ==
  ASSUME SortInv, at <= LoopEnd, at' = at + 1, LoopEnd' = LoopEnd
  PROVE  LoopLeft' < LoopLeft
<1>1. LoopEnd \in Nat /\ at \in Nat
  BY FlowShape DEF SortInv, Shape, LoopEnd
<1> QED BY <1>1 DEF LoopLeft

(* Every step of the sort lowers one part and keeps those before it. *)
LEMMA SortStepShortens ==
  ASSUME SortInv, SortNext
  PROVE  \/ StagesLeft' < StagesLeft
         \/ StagesLeft' = StagesLeft /\ PlacesLeft' < PlacesLeft
         \/ StagesLeft' = StagesLeft /\ PlacesLeft' = PlacesLeft /\ Visiting' < Visiting
         \/ /\ StagesLeft' = StagesLeft /\ PlacesLeft' = PlacesLeft /\ Visiting' = Visiting
            /\ LoopLeft' < LoopLeft
<1>1. CASE ScanNode
  <2>1. at <= LoopEnd /\ at' = at + 1 /\ LoopEnd' = LoopEnd
    BY <1>1 DEF ScanNode, LoopEnd
  <2>2. StagesLeft' = StagesLeft /\ PlacesLeft' = PlacesLeft /\ Visiting' = Visiting
    BY <1>1 DEF ScanNode, StagesLeft, PlacesLeft, Visiting
  <2> QED BY <2>1, <2>2, LoopStepShortens
<1>2. CASE EndScan
  BY <1>2 DEF EndScan, StagesLeft
<1>3. CASE TakeFromQueue
  <2>1. StagesLeft' = StagesLeft
    BY <1>3 DEF TakeFromQueue, StagesLeft
  <2>2. flow' = flow /\ Len(sorted') = Len(sorted) + 1
    BY <1>3 DEF TakeFromQueue, SortInv, Shape
  <2>3. PlacesLeft' < PlacesLeft
    BY <2>2, OrderFits DEF PlacesLeft
  <2> QED BY <2>1, <2>3
<1>4. CASE VisitEdge
  <2>1. at <= LoopEnd /\ at' = at + 1 /\ LoopEnd' = LoopEnd
    BY <1>4 DEF VisitEdge, LoopEnd
  <2>2. StagesLeft' = StagesLeft /\ PlacesLeft' = PlacesLeft /\ Visiting' = Visiting
    BY <1>4 DEF VisitEdge, StagesLeft, PlacesLeft, Visiting
  <2> QED BY <2>1, <2>2, LoopStepShortens
<1>5. CASE PassEdge
  <2>1. at <= LoopEnd /\ at' = at + 1 /\ LoopEnd' = LoopEnd
    BY <1>5 DEF PassEdge, LoopEnd
  <2>2. StagesLeft' = StagesLeft /\ PlacesLeft' = PlacesLeft /\ Visiting' = Visiting
    BY <1>5 DEF PassEdge, StagesLeft, PlacesLeft, Visiting
  <2> QED BY <2>1, <2>2, LoopStepShortens
<1>6. CASE EndVisit
  BY <1>6 DEF EndVisit, StagesLeft, PlacesLeft, Visiting
<1>7. CASE EndTake
  BY <1>7 DEF EndTake, StagesLeft
<1>8. CASE AppendRest
  <2>1. at <= LoopEnd /\ at' = at + 1 /\ LoopEnd' = LoopEnd
    BY <1>8 DEF AppendRest, LoopEnd
  <2>2. StagesLeft' = StagesLeft /\ Visiting' = Visiting /\ flow' = flow
    BY <1>8 DEF AppendRest, StagesLeft, Visiting
  <2>3. PlacesLeft' = PlacesLeft \/ PlacesLeft' < PlacesLeft
    <3>1. CASE sorted' = sorted
      BY <2>2, <3>1 DEF PlacesLeft
    <3>2. CASE sorted' # sorted
      <4>1. Len(sorted') = Len(sorted) + 1
        BY <1>8, <3>2 DEF AppendRest, SortInv, Shape
      <4> QED BY <2>2, <4>1, OrderFits DEF PlacesLeft
    <3> QED BY <3>1, <3>2
  <2> QED BY <2>1, <2>2, <2>3, LoopStepShortens
<1>9. CASE EndRest
  BY <1>9 DEF EndRest, StagesLeft
<1> QED BY <1>1, <1>2, <1>3, <1>4, <1>5, <1>6, <1>7, <1>8, <1>9 DEF SortNext

(* Components that compare like this make a shorter tuple. *)
LEMMA FourShorten ==
  ASSUME NEW a \in Nat, NEW b \in Nat, NEW c \in Nat, NEW d \in Nat,
         NEW p \in Nat, NEW q \in Nat, NEW r \in Nat, NEW s \in Nat,
         \/ p < a
         \/ p = a /\ q < b
         \/ p = a /\ q = b /\ r < c
         \/ p = a /\ q = b /\ r = c /\ s < d
  PROVE  <<(<<p, q, r, s>>), (<<a, b, c, d>>)>> \in Shorter(4)
<1> DEFINE after == <<p, q, r, s>>
           before == <<a, b, c, d>>
<1>1. after \in [1..4 -> Nat] /\ before \in [1..4 -> Nat]
  OBVIOUS
<1>2. \E j \in 1..4 : (\A k \in 1..(j - 1) : after[k] = before[k]) /\ <<after[j], before[j]>> \in NatLess
  <2>1. CASE p < a
    <3>1. <<after[1], before[1]>> \in NatLess
      BY <2>1 DEF NatLess
    <3> QED BY <3>1
  <2>2. CASE p = a /\ q < b
    <3>1. <<after[2], before[2]>> \in NatLess
      BY <2>2 DEF NatLess
    <3> QED BY <2>2, <3>1
  <2>3. CASE p = a /\ q = b /\ r < c
    <3>1. <<after[3], before[3]>> \in NatLess
      BY <2>3 DEF NatLess
    <3> QED BY <2>3, <3>1
  <2>4. CASE p = a /\ q = b /\ r = c /\ s < d
    <3>1. <<after[4], before[4]>> \in NatLess
      BY <2>4 DEF NatLess
    <3> QED BY <2>4, <3>1
  <2> QED BY <2>1, <2>2, <2>3, <2>4
<1> HIDE DEF after, before
<1>3. <<after, before>> \in Shorter(4)
  BY <1>1, <1>2 DEF Shorter, LexProductOrdering
<1> QED BY <1>3 DEF after, before

(* In every flow, each step of the sort brings it closer to its end in a   *)
(* well-founded order, so it cannot run forever, whatever its cycles: with *)
(* the fairness of SortSpec, what EveryNodeIsPlaced rests on.              *)
THEOREM SortRunsOut ==
  /\ IsWellFoundedOn(Shorter(4), [1..4 -> Nat])
  /\ SortSpec => /\ [](SortLeft \in [1..4 -> Nat])
                 /\ [][SortShortens]_sortVars
<1>1. IsWellFoundedOn(Shorter(4), [1..4 -> Nat])
  BY ShorterIsWellFounded
<1>2. SortInv => SortLeft \in [1..4 -> Nat]
  BY SortLeftIsNumbers
<1>3. SortInv /\ SortInv' /\ [SortNext]_sortVars => [SortShortens]_sortVars
  <2> SUFFICES ASSUME SortInv, SortInv', SortNext PROVE SortShortens
    OBVIOUS
  <2>1. StagesLeft \in Nat /\ PlacesLeft \in Nat /\ Visiting \in Nat /\ LoopLeft \in Nat
    BY SortLeftIsNumbers
  <2>2. (StagesLeft \in Nat /\ PlacesLeft \in Nat /\ Visiting \in Nat /\ LoopLeft \in Nat)'
    BY SortLeftIsNumbers, PTL
  <2>3. <<(<<StagesLeft', PlacesLeft', Visiting', LoopLeft'>>),
          (<<StagesLeft, PlacesLeft, Visiting, LoopLeft>>)>> \in Shorter(4)
    BY <2>1, <2>2, SortStepShortens, FourShorten
  <2> QED BY <2>3 DEF SortLeft, SortShortens
<1> QED BY <1>1, <1>2, <1>3, SortAlwaysInv, PTL DEF SortSpec
================================================================================
