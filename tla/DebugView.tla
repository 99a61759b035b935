------------------------------- MODULE DebugView -------------------------------
(***************************************************************************)
(* The debug overlay of the flow editor (components/flow/DebugOverlay.tsx): *)
(* the rows it shows for the steps of a run, which the events of the run's  *)
(* stream change one after the other, and the approval it asks for. Run,    *)
(* Stop, Approve and Reject only replace what the overlay shows: a request  *)
(* that is under way goes on, and its answer changes whatever is shown by   *)
(* then. Only Stop ends the stream of the latest run.                       *)
(*                                                                         *)
(* The engine's side of a stream is external here: the nodes it has started *)
(* and not finished. A subflow has a row of its own beside its node's, once *)
(* for every time it runs, and rows for its nodes.                          *)
(***************************************************************************)
EXTENDS Integers, Sequences, FiniteSets, NoValue

CONSTANTS
  CanvasNodes,             \* nodes that may be on the canvas
  SubflowOwner,            \* the node that runs a subflow, maybe in a loop
  SubflowPath, SubflowNode,  \* rows of the subflow and of the node in it
  MaxPresses, MaxSubflows  \* bounds: clicks, runs of the subflow in a run

ASSUME OverlayAssumption ==
  /\ SubflowOwner \in CanvasNodes /\ {SubflowPath, SubflowNode} \cap CanvasNodes = {}
  /\ IsFiniteSet(CanvasNodes) /\ SubflowPath # SubflowNode
  /\ MaxPresses \in Nat /\ MaxSubflows \in Nat

VARIABLES
  canvasNow,    \* the nodes on the canvas
  canvasSeen,   \* those run closed over
  rows,         \* steps: [id, status]
  runStatus,    \* status
  pauseShown,   \* hitlPause is set
  streams,      \* streams that are read: [run, running, subflows]
  replies,      \* requests under way: "approve", "reject"
  latest,       \* number of the latest run
  mixed,        \* history: a run began while an earlier one was being heard of
  swallowed,    \* history: a loop has swallowed a pause in its subflow
  presses

overlay == <<rows, runStatus, pauseShown>>
debugViewVars == <<canvasNow, canvasSeen, overlay, streams, replies, latest, mixed, swallowed,
                   presses>>

RowOf(id, status) == [id |-> id, status |-> status]

DebugViewInit ==
  /\ canvasNow \in SUBSET CanvasNodes /\ canvasSeen = canvasNow
  /\ rows = <<>> /\ runStatus = "idle" /\ pauseShown = FALSE
  /\ streams = {} /\ replies = {} /\ latest = 0
  /\ mixed = FALSE /\ swallowed = FALSE /\ presses = 0

Press == presses < MaxPresses /\ presses' = presses + 1

-------------------------------------------------------------------------------
(* Rows *)

(* All rows of the node, for a subflow those of its earlier runs too.       *)
(* Mutation: the first row of the node. *)
FirstSettled(id, status) ==
  LET own == {i \in DOMAIN rows : rows[i].id = id}
  IN rows' = IF own = {} THEN rows
             ELSE [rows EXCEPT ![CHOOSE i \in own : \A j \in own : i <= j] = RowOf(id, status)]

Settled(id, status) ==
  rows' = [i \in DOMAIN rows |-> IF rows[i].id = id THEN RowOf(id, status) ELSE rows[i]]

(* The first row of the node begins again, or there is a new one.           *)
Begun(id) ==
  LET own == {i \in DOMAIN rows : rows[i].id = id}
  IN rows' = IF own = {} THEN Append(rows, RowOf(id, "running"))
             ELSE [rows EXCEPT ![CHOOSE i \in own : \A j \in own : i <= j] = RowOf(id, "running")]

RowsOf(ids, status) ==
  {s \in [1..Cardinality(ids) -> {RowOf(id, status) : id \in ids}] :
     \A i, j \in DOMAIN s : i # j => s[i] # s[j]}

-------------------------------------------------------------------------------
(* The user *)

(* The canvas changes under the overlay. run goes on using the nodes it saw *)
(* when the input or the overrides last changed.                            *)
EditCanvas ==
  /\ Press /\ canvasNow' \in SUBSET CanvasNodes
  /\ UNCHANGED <<canvasSeen, overlay, streams, replies, latest, mixed, swallowed>>

ChangeInput ==
  /\ Press /\ canvasSeen' = canvasNow
  /\ UNCHANGED <<canvasNow, overlay, streams, replies, latest, mixed, swallowed>>

RunDebug ==
  /\ Press /\ runStatus # "running"
  /\ IF canvasSeen = {}
     THEN runStatus' = "failed" /\ UNCHANGED <<rows, pauseShown, streams, latest, mixed, swallowed>>
     ELSE /\ rows' \in RowsOf(canvasSeen, "pending")
          /\ runStatus' = "running" /\ pauseShown' = FALSE /\ latest' = latest + 1
          /\ streams' = streams \cup {[run |-> latest + 1, running |-> <<>>, subflows |-> 0]}
          /\ mixed' = (mixed \/ streams # {} \/ replies # {}) /\ swallowed' = FALSE
  /\ UNCHANGED <<canvasNow, canvasSeen, replies>>

StopDebug ==
  /\ Press /\ runStatus = "running"
  /\ runStatus' = "failed" /\ streams' = {s \in streams : s.run # latest}
  /\ UNCHANGED <<canvasNow, canvasSeen, rows, pauseShown, replies, latest, mixed, swallowed>>

HandleHitlApprove ==
  /\ Press /\ pauseShown
  /\ pauseShown' = FALSE /\ runStatus' = "running" /\ replies' = replies \cup {"approve"}
  /\ UNCHANGED <<canvasNow, canvasSeen, rows, streams, latest, mixed, swallowed>>

HandleHitlReject ==
  /\ Press /\ pauseShown
  /\ pauseShown' = FALSE /\ replies' = replies \cup {"reject"}
  /\ UNCHANGED <<canvasNow, canvasSeen, rows, runStatus, streams, latest, mixed, swallowed>>

-------------------------------------------------------------------------------
(* Events of a stream *)

LastOpen(s) == s.running[Len(s.running)]
Become(s, t) == streams' = (streams \ {s}) \cup {t}
Heard == UNCHANGED <<canvasNow, canvasSeen, replies, latest, mixed, presses>>
Outcomes == {"completed", "failed"}

(* step.started *)
StepStarted(s, id) ==
  /\ \/ s.running = <<>> /\ id \in CanvasNodes
     \/ s.running # <<>> /\ LastOpen(s) = SubflowPath /\ id = SubflowNode
  /\ Begun(id) /\ Become(s, [s EXCEPT !.running = Append(@, id)])
  /\ Heard /\ UNCHANGED <<runStatus, pauseShown, swallowed>>

(* step.completed, step.failed *)
StepEnded(s) ==
  /\ s.running # <<>> /\ LastOpen(s) # SubflowPath
  /\ \E status \in Outcomes : Settled(LastOpen(s), status)
  /\ Become(s, [s EXCEPT !.running = SubSeq(@, 1, Len(@) - 1)])
  /\ Heard /\ UNCHANGED <<runStatus, pauseShown, swallowed>>

(* step.skipped *)
StepSkipped(s, id) ==
  /\ s.running = <<>> /\ id \in CanvasNodes /\ Settled(id, "skipped")
  /\ Heard /\ UNCHANGED <<runStatus, pauseShown, streams, swallowed>>

(* subflow.started adds a row whatever rows there are.                      *)
SubflowStarted(s) ==
  /\ s.running # <<>> /\ LastOpen(s) = SubflowOwner /\ s.subflows < MaxSubflows
  /\ rows' = Append(rows, RowOf(SubflowPath, "running"))
  /\ Become(s, [s EXCEPT !.running = Append(@, SubflowPath), !.subflows = @ + 1])
  /\ Heard /\ UNCHANGED <<runStatus, pauseShown, swallowed>>

(* subflow.completed, subflow.failed *)
SubflowEnded(s) ==
  /\ s.running # <<>> /\ LastOpen(s) = SubflowPath
  /\ \E status \in Outcomes : Settled(SubflowPath, status)
  /\ Become(s, [s EXCEPT !.running = SubSeq(@, 1, Len(@) - 1)])
  /\ Heard /\ UNCHANGED <<runStatus, pauseShown, swallowed>>

(* A loop takes the pause of a gate in its subflow for an error: no event   *)
(* ends their rows.                                                         *)
PauseSwallowed(s) ==
  /\ s.running = <<SubflowOwner, SubflowPath, SubflowNode>>
  /\ Become(s, [s EXCEPT !.running = <<SubflowOwner>>]) /\ swallowed' = TRUE
  /\ Heard /\ UNCHANGED overlay

Close(s) == streams' = streams \ {s} /\ Heard /\ UNCHANGED swallowed

(* execution.completed: rows for nodes of the canvas that have none.        *)
ExecutionCompleted(s) ==
  /\ s.running = <<>> /\ Close(s)
  /\ runStatus' = "completed" /\ UNCHANGED pauseShown
  /\ \E missing \in SUBSET (canvasSeen \ {rows[i].id : i \in DOMAIN rows}) :
       \E more \in RowsOf(missing, "completed") : rows' = rows \o more

(* execution.paused, for a gate or a delay.                                 *)
ExecutionPaused(s) ==
  /\ s.running # <<>> /\ Close(s)
  /\ pauseShown' = TRUE /\ runStatus' = "completed" /\ UNCHANGED rows

(* execution.failed, or the stream breaks.                                  *)
ExecutionFailed(s) ==
  /\ Close(s) /\ runStatus' = "failed" /\ UNCHANGED <<rows, pauseShown>>

(* The stream ends and says nothing the overlay knows: execution.stopped,   *)
(* or a request that was refused.                                           *)
StreamEnded(s) == Close(s) /\ UNCHANGED overlay

StreamEvent(s) ==
  \/ StepEnded(s) \/ SubflowStarted(s) \/ SubflowEnded(s) \/ PauseSwallowed(s)
  \/ ExecutionCompleted(s) \/ ExecutionPaused(s) \/ ExecutionFailed(s) \/ StreamEnded(s)
  \/ \E id \in CanvasNodes \cup {SubflowNode} : StepStarted(s, id) \/ StepSkipped(s, id)

-------------------------------------------------------------------------------
(* Answers *)

Answer(kind) ==
  /\ kind \in replies /\ replies' = replies \ {kind}
  /\ UNCHANGED <<canvasNow, canvasSeen, streams, latest, mixed, swallowed, presses>>

(* The rows of the resumed run replace what is shown.                       *)
ApproveCompleted ==
  /\ Answer("approve") /\ runStatus' = "completed" /\ UNCHANGED pauseShown
  /\ \E status \in {"completed", "skipped"} : rows' \in RowsOf(canvasSeen, status)

ApprovePaused ==
  /\ Answer("approve") /\ runStatus' = "completed" /\ pauseShown' = TRUE /\ UNCHANGED rows

(* Failed, or lost: the run may wait on, but its pause is shown no more.    *)
ApproveFailed ==
  /\ Answer("approve") /\ runStatus' = "failed" /\ UNCHANGED <<rows, pauseShown>>

(* A refusal carries no status.                                             *)
ApproveRefused ==
  /\ Answer("approve") /\ runStatus' = "running" /\ UNCHANGED <<rows, pauseShown>>

RejectAnswered ==
  /\ Answer("reject") /\ runStatus' = "failed" /\ UNCHANGED <<rows, pauseShown>>

DebugViewNext ==
  \/ EditCanvas \/ ChangeInput \/ RunDebug \/ StopDebug \/ HandleHitlApprove \/ HandleHitlReject
  \/ \E s \in streams : StreamEvent(s)
  \/ ApproveCompleted \/ ApprovePaused \/ ApproveFailed \/ ApproveRefused \/ RejectAnswered

DebugViewSpec == DebugViewInit /\ [][DebugViewNext]_debugViewVars

-------------------------------------------------------------------------------
(* Types of the variables. *)
DebugViewTypeOK ==
  /\ canvasNow \subseteq CanvasNodes /\ canvasSeen \subseteq CanvasNodes
  /\ \A i \in DOMAIN rows :
       /\ rows[i].id \in CanvasNodes \cup {SubflowPath, SubflowNode}
       /\ rows[i].status \in {"pending", "running", "completed", "failed", "skipped"}
  /\ runStatus \in {"idle", "running", "completed", "failed"} /\ pauseShown \in BOOLEAN
  /\ latest \in 0..MaxPresses /\ \A s \in streams : s.run \in 1..latest

(* A run that is shown as completed, with nothing left to hear of it and no *)
(* approval to give, has no row that is shown as running, of a subflow that *)
(* ran several times neither. Runs that overlapped are excepted, and those  *)
(* in which a loop has swallowed a pause.                                   *)
CompletedRunsAreSettled ==
  runStatus = "completed" /\ ~pauseShown /\ streams = {} /\ replies = {} /\ ~mixed /\ ~swallowed =>
    \A i \in DOMAIN rows : rows[i].status # "running"
================================================================================
