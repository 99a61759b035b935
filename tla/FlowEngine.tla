------------------------------- MODULE FlowEngine -------------------------------
(***************************************************************************)
(* FlowExecutor.execute: one walk over the sorted nodes of a flow, and the *)
(* walks that follow it when it pauses at a HITL or delay node and is      *)
(* replayed from there with the outputs saved so far.  The runner and the  *)
(* approve handler are present as far as they choose what the next walk is *)
(* given; when they run and how they fail is module ExecutionLifecycle.    *)
(*                                                                         *)
(* A node's output is abstracted to what routing looks at: the handle a    *)
(* condition, a switch or a HITL decision selects.                         *)
(***************************************************************************)
EXTENDS TopologicalSort

CONSTANTS
  MaxAttempts,   \* attempts of one job: 3 on every enqueue
  MaxDecisions   \* bound: decisions people make in one execution

Absent == "absent"                     \* undefined
Kinds == {"work", "tool", "condition", "switch", "hitl", "delay"}
Routes == {"out0", "out1"}             \* a label, a case, a button
Handles == Routes \cup {"exit", "tool", "none"}

(* kind: the node's type; "tool" stands for mcp-tool, retriever, flow-tool  *)
(* and "work" for every type that only computes an output.  default: the   *)
(* handle a condition's defaultPath names, "none" without one.  limit:     *)
(* maxIterations, 0 for no limit.  An edge is labelled when it carries an  *)
(* explicit condition.                                                     *)
ASSUME FlowsAreRoutable ==
  \A f \in Flows :
    /\ Absent \notin ToSet(f.nodes)
    /\ f.kind \in [ToSet(f.nodes) -> Kinds]
    /\ f.default \in [ToSet(f.nodes) -> Routes \cup {"none"}]
    /\ f.limit \in [ToSet(f.nodes) -> Nat]
    /\ \A k \in DOMAIN f.edges : f.edges[k].handle \in Handles
                              /\ f.edges[k].labelled \in BOOLEAN
ASSUME BoundsAreNumbers == MaxAttempts \in Nat \ {0} /\ MaxDecisions \in Nat

Outputs == {Absent, "skipped", "noted", "done", "exit"} \cup Routes
MaxFeedbackIters == 10                 \* MAX_FEEDBACK_ITERS

VARIABLES
  phase,      \* "sorting", "running", "paused", "completed" or "failed"
  error,      \* why it failed: "compile", "node" or "misrouted"
  i,          \* the loop's index into sorted
  outputs,    \* nodeOutputs
  job,        \* replayFrom, replayOutputs and decision of the job in hand
  beforeHitl, \* outputs are still being loaded, not computed
  approval,   \* the '<node>:__approved' entry, deleted once consumed
  iteration,  \* currentIteration
  feedbacks,  \* feedbackLoopCount
  stored,     \* output._nextIteration of the execution's row, 0 if undefined
  attempt, decisions,
  clock, made, runs, sentBack   \* history, see below

(* made[n]: which run of n, numbered by the clock, computed its output.    *)
(* runs[n]: how often n ran since the flow was sent back over it or its    *)
(* job was retried.  sentBack[n]: the decisions at n that led back.        *)
history == <<clock, made, runs, sentBack>>
walk == <<i, outputs, beforeHitl, approval, feedbacks>>
control == <<job, iteration, stored, attempt, decisions>>
vars == <<sortVars, phase, error, walk, control, history>>

NoJob == [from |-> Absent, outputs |-> <<>>, made |-> <<>>, decision |-> Absent]
All(x) == [n \in Nodes |-> x]

Init ==
  /\ SortInit
  /\ phase = "sorting" /\ error = "none"
  /\ i = 1 /\ outputs = All(Absent)
  /\ job = NoJob /\ beforeHitl = FALSE /\ approval = Absent
  /\ iteration = 0 /\ feedbacks = 0 /\ stored = 0
  /\ attempt = 1 /\ decisions = 0
  /\ clock = 0 /\ made = All(0) /\ runs = All(0) /\ sentBack = All({})

(* Every walk sorts again and gets the same order: it is computed once. *)
Sort ==
  /\ phase = "sorting" /\ SortNext
  /\ UNCHANGED <<phase, error, walk, control, history>>
StartWalk ==
  /\ phase = "sorting" /\ stage = "sorted"
  /\ phase' = "running"
  /\ UNCHANGED <<sortVars, error, walk, control, history>>

(* compileFlow checks references to earlier nodes; flows with a cycle are *)
(* not checked.                                                            *)
CompileFails ==
  /\ phase = "running" /\ i = 1 /\ looped = {}
  /\ phase' = "failed" /\ error' = "compile"
  /\ UNCHANGED <<sortVars, walk, control, history>>

--------------------------------------------------------------------------------
(* Which edges carry control.                                              *)
Node == sorted[i]
AtNode == phase = "running" /\ i <= Len(sorted)

(* An edge without a condition is followed or not by the handle it leaves  *)
(* its source from.  A source that has no output yet, as behind a feedback *)
(* edge, blocks a switch and the first handle of a condition only.         *)
Unmatched(e) ==
  LET out == outputs[e.from] IN
  CASE flow.kind[e.from] = "condition" ->
         IF out = Absent THEN e.handle = "out0" ELSE out # e.handle
    [] flow.kind[e.from] = "switch" -> out # e.handle
    [] flow.kind[e.from] = "hitl" ->
         IF e.handle = "exit" THEN out # "exit" ELSE out \notin {Absent, e.handle}
    [] OTHER -> FALSE

(* Mutation: skipping is not propagated. *)
FilteredHereOnly(e) ==
  \/ e.labelled /\ outputs[e.from] # e.handle
  \/ ~e.labelled /\ e.handle \in Routes \cup {"exit"} /\ Unmatched(e)

Filtered(e) ==
  \/ outputs[e.from] = "skipped"
  \/ e.labelled /\ outputs[e.from] # e.handle
  \/ ~e.labelled /\ e.handle \in Routes \cup {"exit"} /\ Unmatched(e)

Incoming(n) == {flow.edges[k] : k \in EdgesInto(n)}
AllFiltered(n) == Incoming(n) # {} /\ \A e \in Incoming(n) : Filtered(e)
UpstreamSkipped(n) == \E e \in Incoming(n) : outputs[e.from] = "skipped"
HasDefaultEdge(n) == \E e \in Incoming(n) :
  flow.kind[e.from] = "condition" /\ e.handle \in Routes /\ e.handle = flow.default[e.from]

IsToolProvider(n) ==
  flow.kind[n] = "tool" /\ \E k \in EdgesFrom(n) : flow.edges[k].handle = "tool"

(* Mutation: conditions are evaluated again on a replay. *)
LoadsUnlessCondition(n) ==
  beforeHitl /\ n # job.from /\ job.outputs[n] # Absent /\ flow.kind[n] # "condition"

(* Replaying: a node before the one the job resumes is loaded. *)
Loads(n) == beforeHitl /\ n # job.from /\ job.outputs[n] # Absent
Routed(n) == AtNode /\ n = Node /\ ~Loads(n) /\ ~IsToolProvider(n)
Runs(n) == Routed(n) /\ ~AllFiltered(n)

Advance(out, stamp) ==
  /\ outputs' = [outputs EXCEPT ![Node] = out]
  /\ made' = [made EXCEPT ![Node] = stamp]
  /\ i' = i + 1
  /\ beforeHitl' = (beforeHitl /\ Node # job.from)

Run(out) ==
  /\ Advance(out, clock + 1)
  /\ clock' = clock + 1
  /\ runs' = [runs EXCEPT ![Node] = @ + 1]

(* Mutation: the loop is not advanced past a loaded node. *)
LoadOutputAndStay ==
  /\ AtNode /\ Loads(Node)
  /\ outputs' = [outputs EXCEPT ![Node] = job.outputs[Node]]
  /\ made' = [made EXCEPT ![Node] = job.made[Node]]
  /\ UNCHANGED <<sortVars, phase, error, i, beforeHitl, approval, feedbacks, control,
                 clock, runs, sentBack>>
LoadOutput ==
  /\ AtNode /\ Loads(Node)
  /\ Advance(job.outputs[Node], job.made[Node])
  /\ UNCHANGED <<sortVars, phase, error, approval, feedbacks, control, clock, runs, sentBack>>

ProvideTool ==
  /\ AtNode /\ ~Loads(Node) /\ IsToolProvider(Node)
  /\ Advance("noted", 0)
  /\ UNCHANGED <<sortVars, phase, error, approval, feedbacks, control, clock, runs, sentBack>>

SkipNode ==
  /\ AtNode /\ Routed(Node) /\ AllFiltered(Node)
  /\ UpstreamSkipped(Node) \/ ~HasDefaultEdge(Node)
  /\ Advance("skipped", 0)
  /\ UNCHANGED <<sortVars, phase, error, approval, feedbacks, control, clock, runs, sentBack>>

(* "Default path matched — continue processing instead of skipping" is     *)
(* followed by the throw for flows without routing conditions.             *)
Misroute ==
  /\ AtNode /\ Routed(Node) /\ AllFiltered(Node)
  /\ ~UpstreamSkipped(Node) /\ HasDefaultEdge(Node)
  /\ phase' = "failed" /\ error' = "misrouted"
  /\ UNCHANGED <<sortVars, walk, control, history>>

--------------------------------------------------------------------------------
(* executeNode, by node type.                                              *)
ComputeOutput ==
  /\ AtNode /\ Runs(Node) /\ flow.kind[Node] \in {"work", "tool"}
  /\ Run("done")
  /\ UNCHANGED <<sortVars, phase, error, approval, feedbacks, control, sentBack>>

(* A condition evaluates to one of its labels, a switch to one of its      *)
(* cases, both after their default has been applied.                       *)
ChooseRoute ==
  /\ AtNode /\ Runs(Node) /\ flow.kind[Node] \in {"condition", "switch"}
  /\ \E route \in Routes : Run(route)
  /\ UNCHANGED <<sortVars, phase, error, approval, feedbacks, control, sentBack>>

NodeThrows ==
  /\ AtNode /\ Runs(Node)
  /\ phase' = "failed" /\ error' = "node"
  /\ UNCHANGED <<sortVars, walk, control, history>>

(* HitlPauseError: the runner stores the outputs and counts an iteration. *)
NextIteration(stored_) == (IF stored_ = 0 THEN 1 ELSE stored_) + 1
PauseAtHitl ==
  /\ AtNode /\ Runs(Node) /\ flow.kind[Node] = "hitl"
  /\ ~(job.from = Node /\ approval # Absent)
  /\ phase' = "paused"
  /\ stored' = NextIteration(stored)
  /\ UNCHANGED <<sortVars, error, walk, job, iteration, attempt, decisions, history>>

(* PauseExecutionError: the runner's new output has no _nextIteration. *)
PauseAtDelay ==
  /\ AtNode /\ Runs(Node) /\ flow.kind[Node] = "delay" /\ job.from # Node
  /\ phase' = "paused"
  /\ stored' = 0
  /\ UNCHANGED <<sortVars, error, walk, job, iteration, attempt, decisions, history>>

(* A delay that has elapsed: it is being replayed, or its time is past. *)
PassDelay ==
  /\ AtNode /\ Runs(Node) /\ flow.kind[Node] = "delay"
  /\ Run("done")
  /\ UNCHANGED <<sortVars, phase, error, approval, feedbacks, control, sentBack>>

(* The edges of the decided button that lead back; the first one is taken. *)
FeedbackEdges(d) ==
  {k \in EdgesFrom(Node) :
     /\ flow.edges[k].handle = d \/ (flow.edges[k].handle = "none" /\ d = "out0")
     /\ Place(flow.edges[k].to) < i}
Decided == AtNode /\ Runs(Node) /\ flow.kind[Node] = "hitl"
           /\ job.from = Node /\ approval # Absent
(* Mutation: the loops of this walk are counted. *)
LimitReachedThisWalk == flow.limit[Node] > 0 /\ feedbacks >= flow.limit[Node]
LimitReached == flow.limit[Node] > 0 /\ iteration >= flow.limit[Node]

PassHitl ==
  /\ Decided
  /\ FeedbackEdges(approval) = {} \/ (~LimitReached /\ feedbacks + 1 >= MaxFeedbackIters)
  /\ Run(approval)
  /\ approval' = Absent
  /\ feedbacks' = feedbacks + (IF FeedbackEdges(approval) = {} THEN 0 ELSE 1)
  /\ UNCHANGED <<sortVars, phase, error, control, sentBack>>

ExitLoop ==
  /\ Decided /\ FeedbackEdges(approval) # {} /\ LimitReached
  /\ Run("exit")
  /\ approval' = Absent
  /\ UNCHANGED <<sortVars, phase, error, feedbacks, control, sentBack>>

(* Mutation: the decision is not consumed. *)
SendBackKeepingApproval ==
  /\ Decided /\ ~LimitReached /\ feedbacks + 1 < MaxFeedbackIters
  /\ \E k \in FeedbackEdges(approval) :
       LET target == Place(flow.edges[k].to) IN
       /\ \A l \in FeedbackEdges(approval) : k <= l
       /\ i' = target
       /\ outputs' = [n \in Nodes |-> IF Place(n) \in target..(i - 1) THEN Absent
                                      ELSE IF n = Node THEN approval ELSE outputs[n]]
       /\ runs' = [n \in Nodes |-> IF Place(n) \in target..i THEN 0 ELSE runs[n]]
  /\ beforeHitl' = FALSE /\ feedbacks' = feedbacks + 1
  /\ clock' = clock + 1 /\ made' = [made EXCEPT ![Node] = clock + 1]
  /\ sentBack' = [sentBack EXCEPT ![Node] = @ \cup {decisions}]
  /\ UNCHANGED <<approval, sortVars, phase, error, control>>

(* Back to the target: outputs from it up to this node are deleted, this   *)
(* node's own is kept.                                                     *)
SendBack ==
  /\ Decided /\ ~LimitReached /\ feedbacks + 1 < MaxFeedbackIters
  /\ \E k \in FeedbackEdges(approval) :
       LET target == Place(flow.edges[k].to) IN
       /\ \A l \in FeedbackEdges(approval) : k <= l
       /\ i' = target
       /\ outputs' = [n \in Nodes |-> IF Place(n) \in target..(i - 1) THEN Absent
                                      ELSE IF n = Node THEN approval ELSE outputs[n]]
       /\ runs' = [n \in Nodes |-> IF Place(n) \in target..i THEN 0 ELSE runs[n]]
  /\ approval' = Absent /\ beforeHitl' = FALSE /\ feedbacks' = feedbacks + 1
  /\ clock' = clock + 1 /\ made' = [made EXCEPT ![Node] = clock + 1]
  /\ sentBack' = [sentBack EXCEPT ![Node] = @ \cup {decisions}]
  /\ UNCHANGED <<sortVars, phase, error, control>>

Finish ==
  /\ phase = "running" /\ i > Len(sorted)
  /\ phase' = "completed"
  /\ UNCHANGED <<sortVars, error, walk, control, history>>

--------------------------------------------------------------------------------
(* The next walk.                                                          *)
WalkFrom(j) ==
  /\ phase' = "running" /\ error' = "none"
  /\ i' = 1 /\ outputs' = All(Absent) /\ feedbacks' = 0
  /\ job' = j /\ approval' = j.decision
  /\ beforeHitl' = (j.from # Absent)

(* The replay of a paused node, with what was saved when it threw. *)
SavedWalk(saved, d) == [from |-> Node, outputs |-> saved, made |-> made, decision |-> d]

(* Somebody decides: POST approve enqueues the replay of the paused node. *)
Decide(d) ==
  /\ phase = "paused" /\ flow.kind[Node] = "hitl" /\ decisions < MaxDecisions
  /\ WalkFrom(SavedWalk(outputs, d))
  /\ iteration' = IF stored = 0 THEN 1 ELSE stored
  /\ decisions' = decisions + 1 /\ attempt' = 1
  /\ UNCHANGED <<sortVars, stored, history>>

(* Mutation: the delayed job is added without the saved outputs. *)
ResumeDelayWithoutOutputs ==
  /\ phase = "paused" /\ flow.kind[Node] = "delay"
  /\ WalkFrom(SavedWalk(All(Absent), Absent))
  /\ iteration' = 0 /\ attempt' = 1
  /\ UNCHANGED <<sortVars, stored, decisions, history>>

(* The delayed job the runner added comes due; it has no __initialIteration. *)
ResumeDelay ==
  /\ phase = "paused" /\ flow.kind[Node] = "delay"
  /\ WalkFrom(SavedWalk(outputs, Absent))
  /\ iteration' = 0 /\ attempt' = 1
  /\ UNCHANGED <<sortVars, stored, decisions, history>>

(* The worker was killed before it acknowledged the job, or could not      *)
(* store how the walk ended: BullMQ hands out the same job again, with its *)
(* replay data as enqueued.  A stored pause stays stored.                  *)
Retry ==
  /\ phase \in {"running", "paused", "failed"} /\ attempt < MaxAttempts
  /\ WalkFrom(job)
  /\ attempt' = attempt + 1
  /\ runs' = [n \in Nodes |-> IF Place(n) >= Place(job.from) THEN 0 ELSE runs[n]]
  /\ UNCHANGED <<sortVars, iteration, stored, decisions, clock, made, sentBack>>

WalkStep ==
  \/ CompileFails \/ LoadOutput \/ ProvideTool \/ SkipNode \/ Misroute
  \/ ComputeOutput \/ ChooseRoute \/ NodeThrows
  \/ PauseAtHitl \/ PauseAtDelay \/ PassDelay
  \/ PassHitl \/ ExitLoop \/ SendBack \/ Finish

Next == Sort \/ StartWalk \/ WalkStep \/ (\E d \in Routes : Decide(d)) \/ ResumeDelay \/ Retry

(* A process that walks keeps walking, and Redis keeps its promises; that  *)
(* people decide is not assumed.                                           *)
Spec == Init /\ [][Next]_vars
FairSpec == Spec /\ WF_vars(Sort) /\ WF_vars(StartWalk) /\ WF_vars(WalkStep) /\ WF_vars(ResumeDelay)

--------------------------------------------------------------------------------
(* Every variable keeps its type. *)
TypeOK ==
  /\ SortTypeOK
  /\ phase \in {"sorting", "running", "paused", "completed", "failed"}
  /\ error \in {"none", "compile", "node", "misrouted"}
  /\ i \in 1..(Len(sorted) + 1)
  /\ outputs \in [Nodes -> Outputs]
  /\ job = NoJob \/ job \in [from : Nodes, outputs : [Nodes -> Outputs],
                              made : [Nodes -> Nat], decision : Routes \cup {Absent}]
  /\ beforeHitl \in BOOLEAN /\ approval \in Routes \cup {Absent}
  /\ iteration \in Nat /\ feedbacks \in 0..MaxFeedbackIters /\ stored \in Nat
  /\ attempt \in 1..MaxAttempts /\ decisions \in 0..MaxDecisions
  /\ clock \in Nat /\ made \in [Nodes -> 0..clock] /\ runs \in [Nodes -> Nat]
  /\ sentBack \in [Nodes -> SUBSET (1..MaxDecisions)]

(* What the edges say, read declaratively: a node is to run when it has no *)
(* edge from an earlier node, or one from an earlier node that is to run   *)
(* and has selected that edge.  Edges that attach a tool, and edges back,  *)
(* do not count.                                                           *)
Earlier(n) == {e \in Incoming(n) : e.handle # "tool" /\ Place(e.from) < Place(n)}
Selected(e) == IF e.labelled \/ (e.handle \in Routes \cup {"exit"}
                                  /\ flow.kind[e.from] \in {"condition", "switch", "hitl"})
               THEN outputs[e.from] = e.handle ELSE TRUE
Reached ==
  LET R[k \in DOMAIN sorted] ==
        \/ Earlier(sorted[k]) = {}
        \/ \E e \in Earlier(sorted[k]) : R[Place(e.from)] /\ Selected(e)
  IN  R

(* A node is skipped exactly when no selected edge leads to it, through    *)
(* pauses, replays and loops ("no route, no default: mark skipped").       *)
UntakenIsSkipped ==
  phase \in {"running", "paused", "completed"} =>
    \A k \in 1..(i - 1) : ~IsToolProvider(sorted[k]) =>
      (outputs[sorted[k]] = "skipped" <=> ~Reached[k])

(* A replay does not repeat what its saved outputs stand for: between two  *)
(* decisions that send the flow back, a node runs once, however often the  *)
(* flow pauses, and again only if the attempt that ran it is retried.      *)
NeverRepeats == \A n \in Nodes : runs[n] <= 1

(* A decision is applied to what the person was shown: when a HITL node     *)
(* passes, every output before it is the one saved when it asked, neither  *)
(* computed again nor lost nor rerouted on the way.                        *)
DecidesOnWhatWasShown ==
  Decided => \A k \in 1..(i - 1) :
    /\ outputs[sorted[k]] = job.outputs[sorted[k]]
    /\ made[sorted[k]] = job.made[sorted[k]]

(* One decision is consumed once: a HITL node that is reached again after  *)
(* it sent the flow back asks again ("Consume the approval ...").          *)
OneSendBackPerWalk == feedbacks <= 1

(* "maxIterations is evaluated against the accumulated count": the author's *)
(* limit bounds how often a HITL node sends the flow back.                 *)
SentBackWithinLimit ==
  \A n \in Nodes : flow.limit[n] > 0 => Cardinality(sentBack[n]) <= flow.limit[n]

(* A default path is somewhere to go, never a reason to fail. *)
DefaultPathIsFollowed == error # "misrouted"

(* What the walk has so far, as its author sees it: a replay stands where  *)
(* it will resume, with the results it is loading.                         *)
ResultsBefore(outs, place) == [k \in 1..(place - 1) |-> outs[sorted[k]]]
Resumed ==
  [done |-> IF job = NoJob THEN <<>> ELSE ResultsBefore(job.outputs, Place(job.from)),
   decided |-> job.decision]
Done == IF beforeHitl THEN Resumed.done ELSE ResultsBefore(outputs, i)
Status == CASE phase \in {"sorting", "running"} -> "walking"
            [] phase = "paused" -> "waiting"
            [] OTHER -> phase
Durable == INSTANCE DurableWalk WITH
  Results <- Outputs \ {Absent}, Decisions <- Routes,
  NoDecision <- Absent, Exit <- "exit", Skipped <- "skipped",
  length <- Len(flow.nodes), done <- Done, status <- Status,
  decided <- approval, resumed <- Resumed

(* Pauses, replays and retries do not show: the engine, which forgets       *)
(* everything at a pause and walks again from the first node with what was *)
(* saved, implements a walk that waits where it is and never forgets.      *)
WalkIsDurable == Durable!Spec

(* A walk comes to an end: a loop of the flow never holds a worker. *)
WalksEnd == phase = "running" ~> phase # "running"
================================================================================
