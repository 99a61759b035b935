------------------------------ MODULE NestedRuns ------------------------------
(***************************************************************************)
(* Flows inside flows (src/worker/src/executor/engine.ts): the executors   *)
(* of subflow nodes, loop bodies and parallel nodes, the pauses thrown     *)
(* through them, and the replay that has to find its way back.             *)
(*                                                                         *)
(* The stack of executors is explicit. A flow is a tree: body[c] are the   *)
(* nodes of container c in order, c being Top or a node of it. Labels are  *)
(* node ids. An id with colons is a sequence of ids. What FlowEngine       *)
(* models (routing, feedback loops) is left out here.                      *)
(***************************************************************************)
EXTENDS Integers, Sequences, FiniteSets, NoValue

CONSTANTS
  Top,          \* the flow the job names
  TreeNodes,
  Trees,        \* [kind, body, items]: what editors draw
  MaxDepth,     \* how deep flows nest in flows
  MaxKills,     \* bound: worker processes killed
  MaxThrows     \* bound: nodes that fail

NodeKinds == {"step", "gate", "delay", "subflow", "loop", "parallel"}
Containers == {"subflow", "loop", "parallel"}

(* Every node is drawn in one place, and a parallel node holds no flows.   *)
ASSUME TreesAssumption ==
  \A t \in Trees :
    /\ t.kind \in [TreeNodes -> NodeKinds]
    /\ t.body \in [TreeNodes \cup {Top} -> Seq(TreeNodes)]
    /\ t.items \in Nat
    /\ \A n \in TreeNodes : t.kind[n] = "parallel" =>
         \A i \in DOMAIN t.body[n] : t.kind[t.body[n][i]] \notin Containers
    /\ \A c, d \in TreeNodes \cup {Top} : \A i \in DOMAIN t.body[c], j \in DOMAIN t.body[d] :
         t.body[c][i] = t.body[d][j] => c = d /\ i = j
(* A flow is kept inside the node it is drawn in, so none contains itself. *)
ASSUME NestingAssumption ==
  /\ MaxDepth \in Nat
  /\ \A t \in Trees : \E depth \in [TreeNodes \cup {Top} -> 0..MaxDepth] :
       \A c \in TreeNodes \cup {Top} : \A i \in DOMAIN t.body[c] : depth[c] < depth[t.body[c][i]]
ASSUME NestedBoundsAssumption == MaxKills \in Nat /\ MaxThrows \in Nat

VARIABLES
  tree,     \* the flow of this execution
  stack,    \* the executors, outermost first; <<>> between walks
  mode,     \* "queued", "walking", "awaiting", "delayed", "completed" or "failed"
  treeJob,  \* replayFrom, replayOutputs and replayOverride of the job
  stray,    \* nodes a rejected Promise.all no longer waits for
  openRows, \* rows of sub-executions that are 'running', and under which worker
  effects,  \* history: how often each step ran
  kills, throws

nestedVars == <<tree, stack, mode, treeJob, stray, openRows, effects, kills, throws>>

NoJob == [from |-> <<>>, outputs |-> {}, approval |-> <<>>, approved |-> FALSE]

NestedInit ==
  /\ tree \in Trees
  /\ stack = <<>> /\ mode = "queued" /\ treeJob = NoJob
  /\ stray = {} /\ openRows = {}
  /\ effects = [n \in TreeNodes |-> 0]
  /\ kills = 0 /\ throws = 0

-------------------------------------------------------------------------------
(* An executor: its flow, its options, and how far it is. For a loop it is  *)
(* the executor of one item; a parallel node runs its nodes in `waiting` on *)
(* the executor it belongs to.                                             *)
Executor(c, options) ==
  [flow |-> c, at |-> 1, before |-> options.from # <<>>, from |-> options.from,
   outputs |-> options.outputs, approval |-> options.approval, approved |-> options.approved,
   done |-> {}, item |-> 1, waiting |-> {}]

Inner == stack[Len(stack)]
Walking == mode = "walking" /\ Inner.at <= Len(tree.body[Inner.flow])
Here == tree.body[Inner.flow][Inner.at]
InParallel == Inner.waiting # {}

Update(e) == stack' = [stack EXCEPT ![Len(stack)] = e]
Arrived == [Inner EXCEPT !.before = @ /\ Inner.from # <<Here>>]
Passed(e) == [e EXCEPT !.at = @ + 1, !.done = @ \cup {Here}]

(* A node of a replay that is loaded instead of run. *)
LoadsNode == Inner.before /\ Inner.from # <<Here>> /\ <<Here>> \in Inner.outputs

Runs(kind) == Walking /\ ~InParallel /\ ~LoadsNode /\ tree.kind[Here] = kind

Load ==
  /\ Walking /\ ~InParallel /\ LoadsNode
  /\ Update(Passed(Inner))
  /\ UNCHANGED <<tree, mode, treeJob, stray, openRows, effects, kills, throws>>

RunNode ==
  /\ Runs("step")
  /\ effects' = [effects EXCEPT ![Here] = @ + 1]
  /\ Update(Passed(Arrived))
  /\ UNCHANGED <<tree, mode, treeJob, stray, openRows, kills, throws>>

-------------------------------------------------------------------------------
(* A pause or an error is thrown out of the innermost executor. A loop      *)
(* catches either and goes on to its next item; rows of subflows thrown    *)
(* through are closed.                                                     *)

(* The flow of executor i is over: the one around it goes on.               *)
Return(i) ==
  Append(SubSeq(stack, 1, i - 2),
         [stack[i - 1] EXCEPT !.at = @ + 1, !.done = @ \cup {stack[i].flow}])

Loops == {i \in 2..Len(stack) : tree.kind[stack[i].flow] = "loop"}
Catching == IF Loops = {} THEN 0 ELSE CHOOSE i \in Loops : \A j \in Loops : j <= i

NextItem(i) ==
  LET e == stack[i]
      fresh == [Executor(e.flow, NoJob) EXCEPT !.approved = e.approved, !.item = e.item + 1]
  IN  IF e.item < tree.items THEN Append(SubSeq(stack, 1, i - 1), fresh) ELSE Return(i)

(* Mutation: only a failure closes the rows of subflows, not a pause. *)
NoneThrownThrough(i) == {}

ThrownThrough(i) == {<<stack[j].flow, kills>> : j \in (i + 1)..Len(stack)}
Abandoned(n) == {m \in Inner.waiting \ {n} : tree.kind[m] = "step"}

(* Labels of the subflows around the executor at depth i, and the outputs   *)
(* saved in all of them, each under its labels.                            *)
Labels(i) == [j \in 1..(i - 1) |-> stack[j + 1].flow]
SavedOutputs == UNION {{Append(Labels(i), n) : n \in stack[i].done} : i \in DOMAIN stack}

Caught ==
  /\ Catching # 0
  /\ stack' = NextItem(Catching)
  /\ openRows' = openRows \ ThrownThrough(Catching)
  /\ UNCHANGED <<mode, treeJob>>

Pause(n, as) ==
  /\ stray' = stray \cup Abandoned(n)
  /\ \/ Caught
     \/ /\ Catching = 0
        /\ mode' = as
        /\ treeJob' = [from |-> Append(Labels(Len(stack)), n), outputs |-> SavedOutputs,
                   approval |-> <<>>, approved |-> FALSE]
        /\ stack' = <<>> /\ openRows' = openRows \ ThrownThrough(1)

Throw(n) ==
  /\ tree.kind[n] = "step"
  /\ (Runs("step") /\ n = Here) \/ (Walking /\ n \in Inner.waiting)
  /\ throws < MaxThrows /\ throws' = throws + 1
  /\ stray' = stray \cup Abandoned(n)
  /\ \/ Caught
     \/ /\ Catching = 0
        /\ mode' = "failed" /\ treeJob' = NoJob /\ stack' = <<>>
        /\ openRows' = openRows \ ThrownThrough(1)
  /\ UNCHANGED <<tree, effects, kills>>

(* A gate resumes on the decision stored under its own id; with no replay   *)
(* at all the approval in the input will do, which loop bodies inherit.    *)
Resumes(n) == Inner.from = <<n>> /\ Inner.approval = <<n>>
Inherits == Inner.approved /\ Inner.from = <<>>
Elapsed(n) == Inner.from = <<n>>

Passes(n) ==
  CASE tree.kind[n] = "gate" -> Resumes(n) \/ Inherits
    [] tree.kind[n] = "delay" -> Elapsed(n)
    [] OTHER -> TRUE

Consumed(n, e) == IF Resumes(n) THEN [e EXCEPT !.approval = <<>>] ELSE e
PausedAs(n) == IF tree.kind[n] = "gate" THEN "awaiting" ELSE "delayed"

PassPoint ==
  /\ Runs("gate") \/ Runs("delay")
  /\ Passes(Here)
  /\ Update(Consumed(Here, Passed(Arrived)))
  /\ UNCHANGED <<tree, mode, treeJob, stray, openRows, effects, kills, throws>>

PauseAt ==
  /\ Runs("gate") \/ Runs("delay")
  /\ ~Passes(Here)
  /\ Pause(Here, PausedAs(Here))
  /\ UNCHANGED <<tree, effects, kills, throws>>

-------------------------------------------------------------------------------
(* Parallel nodes: all sub-nodes start, and end in any order.              *)

EnterParallel ==
  /\ Runs("parallel")
  /\ Update(IF tree.body[Here] = <<>> THEN Passed(Arrived)
            ELSE [Arrived EXCEPT !.waiting = {tree.body[Here][i] : i \in DOMAIN tree.body[Here]}])
  /\ UNCHANGED <<tree, mode, treeJob, stray, openRows, effects, kills, throws>>

EndSubNode(n) ==
  LET left == Inner.waiting \ {n}
      e == Consumed(n, [Inner EXCEPT !.waiting = left])
  IN  Update(IF left = {} THEN Passed(e) ELSE e)

RunSubNode(n) ==
  /\ Walking /\ n \in Inner.waiting
  /\ Passes(n)
  /\ effects' = IF tree.kind[n] = "step" THEN [effects EXCEPT ![n] = @ + 1] ELSE effects
  /\ EndSubNode(n)
  /\ UNCHANGED <<tree, mode, treeJob, stray, openRows, kills, throws>>

PauseSubNode(n) ==
  /\ Walking /\ n \in Inner.waiting
  /\ ~Passes(n)
  /\ Pause(n, PausedAs(n))
  /\ UNCHANGED <<tree, effects, kills, throws>>

(* Nothing stops the siblings of a sub-node that threw. *)
RunStray ==
  /\ \E n \in stray : effects' = [effects EXCEPT ![n] = @ + 1] /\ stray' = stray \ {n}
  /\ UNCHANGED <<tree, stack, mode, treeJob, openRows, kills, throws>>

-------------------------------------------------------------------------------
(* Subflows: the id of the pause is split at its colons and two parts of    *)
(* it are kept.                                                            *)
(* Mutation: the outputs of the subflow are not handed on. *)
SubOptionsWithoutOutputs(n) ==
  IF Len(Inner.from) > 1 /\ Head(Inner.from) = n
  THEN [from |-> <<Inner.from[2]>>, outputs |-> {},
        approval |-> IF Inner.approval # <<>> /\ Head(Inner.approval) = n
                     THEN Tail(Inner.approval) ELSE <<>>,
        approved |-> FALSE]
  ELSE NoJob

SubOptions(n) ==
  IF Len(Inner.from) > 1 /\ Head(Inner.from) = n
  THEN [from |-> <<Inner.from[2]>>,
        outputs |-> {Tail(p) : p \in {q \in Inner.outputs : Len(q) > 1 /\ Head(q) = n}},
        approval |-> IF Inner.approval # <<>> /\ Head(Inner.approval) = n
                     THEN Tail(Inner.approval) ELSE <<>>,
        approved |-> FALSE]
  ELSE NoJob

EnterSubflow ==
  /\ Runs("subflow")
  /\ stack' = Append([stack EXCEPT ![Len(stack)] = Arrived], Executor(Here, SubOptions(Here)))
  /\ openRows' = openRows \cup {<<Here, kills>>}
  /\ UNCHANGED <<tree, mode, treeJob, stray, effects, kills, throws>>

Ended == mode = "walking" /\ Inner.at > Len(tree.body[Inner.flow])

LeaveSubflow ==
  /\ Ended /\ Len(stack) > 1 /\ tree.kind[Inner.flow] = "subflow"
  /\ stack' = Return(Len(stack))
  /\ openRows' = openRows \ {<<Inner.flow, kills>>}
  /\ UNCHANGED <<tree, mode, treeJob, stray, effects, kills, throws>>

(* Loops: an executor without options per item, with the input of the node. *)
EnterLoop ==
  /\ Runs("loop")
  /\ stack' = IF tree.items = 0 THEN [stack EXCEPT ![Len(stack)] = Passed(Arrived)]
              ELSE Append([stack EXCEPT ![Len(stack)] = Arrived],
                          [Executor(Here, NoJob) EXCEPT !.approved = Inner.approved])
  /\ UNCHANGED <<tree, mode, treeJob, stray, openRows, effects, kills, throws>>

EndItem ==
  /\ Ended /\ Len(stack) > 1 /\ tree.kind[Inner.flow] = "loop"
  /\ stack' = NextItem(Len(stack))
  /\ UNCHANGED <<tree, mode, treeJob, stray, openRows, effects, kills, throws>>

-------------------------------------------------------------------------------
(* The job: taken, lost with its worker and taken again, ended.            *)

StartJob ==
  /\ mode = "queued" /\ mode' = "walking"
  /\ stack' = <<Executor(Top, treeJob)>>
  /\ UNCHANGED <<tree, treeJob, stray, openRows, effects, kills, throws>>

Kill ==
  /\ mode = "walking" /\ mode' = "queued"
  /\ kills < MaxKills /\ kills' = kills + 1
  /\ stack' = <<>> /\ stray' = {}
  /\ UNCHANGED <<tree, treeJob, openRows, effects, throws>>

EndJob ==
  /\ Ended /\ Len(stack) = 1
  /\ mode' = "completed" /\ stack' = <<>> /\ treeJob' = NoJob
  /\ UNCHANGED <<tree, stray, openRows, effects, kills, throws>>

(* POST approve: the decision is stored under the id of the pause.         *)
ApprovePause ==
  /\ mode = "awaiting" /\ mode' = "queued"
  /\ treeJob' = [treeJob EXCEPT !.approval = treeJob.from, !.approved = TRUE]
  /\ UNCHANGED <<tree, stack, stray, openRows, effects, kills, throws>>

(* The delayed job the runner added. *)
Elapse ==
  /\ mode = "delayed" /\ mode' = "queued"
  /\ UNCHANGED <<tree, stack, treeJob, stray, openRows, effects, kills, throws>>

NestedNext ==
  \/ StartJob \/ Kill \/ EndJob \/ ApprovePause \/ Elapse
  \/ Load \/ RunNode \/ PassPoint \/ PauseAt
  \/ EnterParallel \/ RunStray
  \/ \E n \in TreeNodes : RunSubNode(n) \/ PauseSubNode(n) \/ Throw(n)
  \/ EnterSubflow \/ LeaveSubflow \/ EnterLoop \/ EndItem

NestedSpec == NestedInit /\ [][NestedNext]_nestedVars

-------------------------------------------------------------------------------
(* Types of the variables. *)
NestedTypeOK ==
  /\ mode \in {"queued", "walking", "awaiting", "delayed", "completed", "failed"}
  /\ (mode = "walking") = (stack # <<>>)
  /\ \A i \in DOMAIN stack :
       /\ stack[i].flow \in TreeNodes \cup {Top}
       /\ stack[i].done \subseteq TreeNodes /\ stack[i].waiting \subseteq TreeNodes
  /\ openRows \subseteq TreeNodes \X (0..kills) /\ stray \subseteq TreeNodes
  /\ treeJob.from \in Seq(TreeNodes)

(* Without parallel nodes, loops, killed workers and subflows in subflows,  *)
(* no step of a flow or of a subflow runs twice, however many pauses       *)
(* interrupt it.                                                           *)
Plain ==
  /\ kills = 0 /\ \A n \in TreeNodes : tree.kind[n] \notin {"parallel", "loop"}
  /\ \A n \in TreeNodes : tree.kind[n] = "subflow" =>
       \A i \in DOMAIN tree.body[n] : tree.kind[tree.body[n][i]] # "subflow"
StepsRunOnce == Plain => \A n \in TreeNodes : effects[n] <= 1

(* A sub-execution row is 'running' only while its executor is on the       *)
(* stack: pauses and errors close all they pass. Only the rows of workers  *)
(* that were killed stay behind.                                           *)
SubExecutionsEnd ==
  {r \in openRows : r[2] = kills} =
    {<<stack[i].flow, kills>> : i \in {j \in 2..Len(stack) :
                                          tree.kind[stack[j].flow] = "subflow"}}
===============================================================================
