---------------------------- MODULE ExecutionSteps ----------------------------
(***************************************************************************)
(* What an execution leaves in other tables: its step rows                 *)
(* (makeStepPersister in src/worker/src/executor/runner.ts), the           *)
(* assignments that mirror its pauses (routes/assignments.ts and the       *)
(* approve and reject routes), and what DELETE removes.                    *)
(*                                                                         *)
(* The flow is a line of nodes 1..Line; each walk over it is a run, a      *)
(* replay or a retry of one execution, and two of them may overlap. Every  *)
(* await of the persister is a step, and a statement that fails ends the   *)
(* handling of its event, no more.                                         *)
(***************************************************************************)
EXTENDS Integers, Sequences, FiniteSets, NoValue

CONSTANTS
  Line,          \* number of nodes
  GateNode,      \* the node that pauses, or None
  Walks,         \* workers that may walk over this execution
  Deciders,      \* calls of the assignment and execution routes
  MaxWalks,      \* bound: jobs taken
  MaxLost,       \* bound: failed statements
  MaxBreaks      \* bound: killed workers, failed nodes

ASSUME StepsAssumption ==
  /\ Line \in Nat \ {0} /\ GateNode \in (1..Line) \cup {None}
  /\ MaxWalks \in Nat /\ MaxLost \in Nat /\ MaxBreaks \in Nat /\ None \notin Nat

VARIABLES
  stepRows,     \* rows of execution_steps by id; deleted ones are None
  walk,         \* walk[w]: the event being handled, or Resting
  waitingJobs,  \* jobs of this execution: where they start, their iteration
  execRow,      \* the row: "there" or "deleted"
  assignments,  \* status of the assignments, in order of their pauses
  deciding,     \* deciding[d]: a call in progress, or None
  started,      \* walks so far
  lost,         \* statements that failed so far
  breaks,       \* workers killed and nodes failed so far
  overlapped,   \* history: two walks were under way at once
  stranded      \* history: a job taken again after a kill ended in a failure

stepsVars == <<stepRows, walk, waitingJobs, execRow, assignments, deciding,
               started, lost, breaks, overlapped, stranded>>

Resting == [pc |-> "resting"]
RowStatuses == {"running", "completed", "failed"}

StepsInit ==
  /\ stepRows = <<>>
  /\ walk = [w \in Walks |-> Resting]
  /\ waitingJobs = {[start |-> 1, iter |-> 0, decided |-> FALSE, killed |-> FALSE]}
  /\ execRow = "there" /\ assignments = <<>>
  /\ deciding = [d \in Deciders |-> None]
  /\ started = 0 /\ lost = 0 /\ breaks = 0 /\ overlapped = FALSE /\ stranded = FALSE

-------------------------------------------------------------------------------
(* A walk *)

TakeWalk(w) ==
  /\ walk[w] = Resting /\ started < MaxWalks
  /\ \E j \in waitingJobs :
       /\ waitingJobs' = waitingJobs \ {j}
       /\ walk' = [walk EXCEPT ![w] =
            [pc |-> "close", at |-> j.start, iter |-> j.iter, decided |-> j.decided,
             job |-> j, found |-> None]]
  /\ overlapped' = (overlapped \/ \E v \in Walks : walk[v] # Resting)
  /\ started' = started + 1
  /\ UNCHANGED <<stepRows, execRow, assignments, deciding, lost, breaks, stranded>>

On(w, pc) == walk[w] # Resting /\ walk[w].pc = pc
Go(w, pc) == walk' = [walk EXCEPT ![w].pc = pc]
OfNode(row, w) == row # None /\ row.node = walk[w].at
OfEvent(row, w) == OfNode(row, w) /\ row.iter = walk[w].iter
SetStatus(rows, status) ==
  stepRows' = [i \in DOMAIN stepRows |->
                 IF i \in rows THEN [stepRows[i] EXCEPT !.status = status] ELSE stepRows[i]]

(* step.started closes whatever runs for this node, in any iteration; then *)
(* it looks for the row of this iteration; then it updates or inserts it.  *)
CloseRows(w) ==
  /\ On(w, "close") /\ Go(w, "find")
  /\ SetStatus({i \in DOMAIN stepRows : OfNode(stepRows[i], w) /\ stepRows[i].status = "running"},
               "completed")
  /\ UNCHANGED <<waitingJobs, execRow, assignments, deciding, started, lost, breaks, overlapped, stranded>>

(* Mutation: only a row that is running is taken for this step's. *)
FindRunningRow(w) ==
  /\ On(w, "find")
  /\ LET rows == {i \in DOMAIN stepRows : OfEvent(stepRows[i], w) /\ stepRows[i].status = "running"} IN
     \/ \E i \in rows : walk' = [walk EXCEPT ![w].pc = "store", ![w].found = i]
     \/ rows = {} /\ walk' = [walk EXCEPT ![w].pc = "store", ![w].found = None]
  /\ UNCHANGED <<stepRows, waitingJobs, execRow, assignments, deciding, started, lost, breaks,
                 overlapped, stranded>>

FindRow(w) ==
  /\ On(w, "find")
  /\ LET rows == {i \in DOMAIN stepRows : OfEvent(stepRows[i], w)} IN
     \/ \E i \in rows : walk' = [walk EXCEPT ![w].pc = "store", ![w].found = i]
     \/ rows = {} /\ walk' = [walk EXCEPT ![w].pc = "store", ![w].found = None]
  /\ UNCHANGED <<stepRows, waitingJobs, execRow, assignments, deciding, started, lost, breaks,
                 overlapped, stranded>>

StoreRow(w) ==
  /\ On(w, "store") /\ Go(w, "node")
  /\ LET i == walk[w].found IN
     \/ i # None /\ stepRows[i] # None /\ SetStatus({i}, "running")
     \/ i # None /\ stepRows[i] = None /\ UNCHANGED stepRows
     \/ /\ i = None /\ execRow = "there"
        /\ stepRows' = Append(stepRows, [node |-> walk[w].at, iter |-> walk[w].iter, status |-> "running"])
     \/ i = None /\ execRow = "deleted" /\ UNCHANGED stepRows
  /\ UNCHANGED <<waitingJobs, execRow, assignments, deciding, started, lost, breaks, overlapped, stranded>>

(* The node runs: it completes, fails, or pauses without an event.         *)
RunsThrough(w) ==
  /\ On(w, "node")
  /\ walk[w].at = GateNode => walk[w].decided
  /\ Go(w, "complete")
  /\ UNCHANGED <<stepRows, waitingJobs, execRow, assignments, deciding, started, lost, breaks,
                 overlapped, stranded>>

NodeFailed(w) ==
  /\ On(w, "node") /\ Go(w, "fail")
  /\ breaks < MaxBreaks /\ breaks' = breaks + 1
  /\ UNCHANGED <<stepRows, waitingJobs, execRow, assignments, deciding, started, lost,
                 overlapped, stranded>>

(* The pause and its mirror; an insert for a deleted row fails and is logged. *)
NodePauses(w) ==
  /\ On(w, "node") /\ walk[w].at = GateNode /\ ~walk[w].decided
  /\ walk' = [walk EXCEPT ![w] = Resting]
  /\ assignments' = IF execRow = "there" THEN Append(assignments, "pending") ELSE assignments
  /\ UNCHANGED <<stepRows, waitingJobs, execRow, deciding, started, lost, breaks, overlapped, stranded>>

(* The walk goes on to the next node, or is at its end. *)
Onward(w) ==
  IF walk[w].at = Line THEN Resting
  ELSE [walk[w] EXCEPT !.at = @ + 1, !.pc = "close", !.found = None]

(* step.completed, step.failed: the rows of this node and iteration.        *)
(* Mutation: only the newest row of the step is completed. *)
CompleteNewest(w) ==
  /\ On(w, "complete")
  /\ LET rows == {i \in DOMAIN stepRows : OfEvent(stepRows[i], w)} IN
     SetStatus({i \in rows : \A j \in rows : j <= i}, "completed")
  /\ walk' = [walk EXCEPT ![w] = Onward(w)]
  /\ UNCHANGED <<waitingJobs, execRow, assignments, deciding, started, lost, breaks, overlapped, stranded>>

CompleteStep(w) ==
  /\ On(w, "complete")
  /\ SetStatus({i \in DOMAIN stepRows : OfEvent(stepRows[i], w)}, "completed")
  /\ walk' = [walk EXCEPT ![w] = Onward(w)]
  /\ UNCHANGED <<waitingJobs, execRow, assignments, deciding, started, lost, breaks, overlapped, stranded>>

FailStep(w) ==
  /\ On(w, "fail")
  /\ SetStatus({i \in DOMAIN stepRows : OfEvent(stepRows[i], w)}, "failed")
  /\ walk' = [walk EXCEPT ![w] = Resting]
  /\ stranded' = (stranded \/ walk[w].job.killed)
  /\ UNCHANGED <<waitingJobs, execRow, assignments, deciding, started, lost, breaks, overlapped>>

(* Logged: the event is over and the node goes on as if it were stored.    *)
LoseStatement(w) ==
  /\ walk[w] # Resting /\ walk[w].pc \in {"close", "find", "store", "complete"}
  /\ lost < MaxLost /\ lost' = lost + 1
  /\ walk' = [walk EXCEPT ![w] =
       IF walk[w].pc = "complete" THEN Onward(w) ELSE [walk[w] EXCEPT !.pc = "node"]]
  /\ UNCHANGED <<stepRows, waitingJobs, execRow, assignments, deciding, started, breaks, overlapped, stranded>>

(* A killed worker's job is taken again as it was. *)
KillWalk(w) ==
  /\ walk[w] # Resting
  /\ breaks < MaxBreaks /\ breaks' = breaks + 1
  /\ walk' = [walk EXCEPT ![w] = Resting]
  /\ waitingJobs' = waitingJobs \cup {[walk[w].job EXCEPT !.killed = TRUE]}
  /\ UNCHANGED <<stepRows, execRow, assignments, deciding, started, lost, overlapped, stranded>>

-------------------------------------------------------------------------------
(* The routes *)

(* POST approve, whole: which calls get so far is ExecutionLifecycle's      *)
(* concern; the row still awaits, so it can be done twice.                 *)
ApproveExecution ==
  /\ execRow = "there" /\ assignments # <<>>
  /\ assignments' = [i \in DOMAIN assignments |->
                       IF assignments[i] = "pending" THEN "approved" ELSE assignments[i]]
  /\ waitingJobs' = waitingJobs \cup
       {[start |-> GateNode, iter |-> Len(assignments) + 1, decided |-> TRUE, killed |-> FALSE]}
  /\ UNCHANGED <<stepRows, walk, execRow, deciding, started, lost, breaks, overlapped, stranded>>

(* POST /api/assignments/:id/decide reads one assignment...                *)
ReadAssignment(d) ==
  /\ deciding[d] = None
  /\ \E i \in DOMAIN assignments, decision \in {"approved", "rejected"} :
       /\ assignments[i] = "pending"
       /\ deciding' = [deciding EXCEPT ![d] = [pc |-> "decide", id |-> i, as |-> decision]]
  /\ UNCHANGED <<stepRows, walk, waitingJobs, execRow, assignments, started, lost, breaks,
                 overlapped, stranded>>

(* ... and writes it whatever it has become. *)
DecideAssignment(d) ==
  /\ deciding[d] # None /\ deciding[d].pc = "decide"
  /\ assignments' = [assignments EXCEPT ![deciding[d].id] = deciding[d].as]
  /\ deciding' = [deciding EXCEPT ![d] = None]
  /\ UNCHANGED <<stepRows, walk, waitingJobs, execRow, started, lost, breaks, overlapped, stranded>>

(* DELETE /api/executions/:id: the steps, then the row, which its           *)
(* assignments and steps written meanwhile still refer to.                 *)
DeleteSteps(d) ==
  /\ deciding[d] = None /\ execRow = "there"
  /\ stepRows' = [i \in DOMAIN stepRows |-> None]
  /\ deciding' = [deciding EXCEPT ![d] = [pc |-> "deleteRow"]]
  /\ UNCHANGED <<walk, waitingJobs, execRow, assignments, started, lost, breaks, overlapped, stranded>>

DeleteRow(d) ==
  /\ deciding[d] # None /\ deciding[d].pc = "deleteRow"
  /\ deciding' = [deciding EXCEPT ![d] = None]
  /\ LET referred == assignments # <<>> \/ \E i \in DOMAIN stepRows : stepRows[i] # None IN
     execRow' = IF referred THEN execRow ELSE "deleted"
  /\ UNCHANGED <<stepRows, walk, waitingJobs, assignments, started, lost, breaks, overlapped, stranded>>

StepsNext ==
  \/ \E w \in Walks :
       \/ TakeWalk(w) \/ CloseRows(w) \/ FindRow(w) \/ StoreRow(w)
       \/ RunsThrough(w) \/ NodeFailed(w) \/ NodePauses(w)
       \/ CompleteStep(w) \/ FailStep(w) \/ LoseStatement(w) \/ KillWalk(w)
  \/ ApproveExecution
  \/ \E d \in Deciders :
       ReadAssignment(d) \/ DecideAssignment(d) \/ DeleteSteps(d) \/ DeleteRow(d)

StepsSpec == StepsInit /\ [][StepsNext]_stepsVars

-------------------------------------------------------------------------------
(* Types of the variables. *)
StepsTypeOK ==
  /\ \A i \in DOMAIN stepRows : stepRows[i] # None =>
       stepRows[i].node \in 1..Line /\ stepRows[i].status \in RowStatuses
  /\ \A w \in Walks : walk[w].pc \in
       {"resting", "close", "find", "store", "node", "complete", "fail"}
  /\ execRow \in {"there", "deleted"}
  /\ \A i \in DOMAIN assignments : assignments[i] \in {"pending", "approved", "rejected"}

Rows == {i \in DOMAIN stepRows : stepRows[i] # None}
AtRest == waitingJobs = {} /\ \A w \in Walks : walk[w] = Resting

(* When no walk is under way and none is waiting, only the node at a gate   *)
(* that nobody has approved still shows as running: whichever walks        *)
(* overlapped, closed each other's rows or were killed and started again   *)
(* in between, as long as every statement went through. The one exception  *)
(* is a job taken again after a kill whose walk then fails: it closes the   *)
(* rows of the nodes it comes to, not of those the killed walk had reached. *)
RestLeavesNoStepRunning ==
  AtRest /\ lost = 0 /\ ~stranded =>
    \A i \in Rows : stepRows[i].status = "running" => stepRows[i].node = GateNode

(* A replay or a retry finds the row of its own iteration again: without    *)
(* overlapping walks there is one row per node and iteration.              *)
OneRowPerIteration ==
  ~overlapped =>
    \A i, j \in Rows :
      stepRows[i].node = stepRows[j].node /\ stepRows[i].iter = stepRows[j].iter => i = j
===============================================================================
