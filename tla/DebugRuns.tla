------------------------------- MODULE DebugRuns -------------------------------
(***************************************************************************)
(* Debug runs (src/backend/src/routes/execution.ts): they are executed in   *)
(* the backend process, streamed to the editor, and not stored. A pause    *)
(* waits in a map of the process and is resumed there by whoever approves  *)
(* first; nothing but this map and the calls in progress knows of the      *)
(* run's sandbox.                                                          *)
(*                                                                         *)
(* One run of a flow with Gates gates. A step of a run is what it does up   *)
(* to its next gate, its end or its failure.                               *)
(***************************************************************************)
EXTENDS Integers, FiniteSets, NoValue

CONSTANTS
  DebugGates,     \* how many gates the flow has
  Approvers,      \* POST approve requests
  HasButtons,     \* whether a gate names its buttons
  MaxTrouble      \* bound: calls that fail, restarts

ASSUME DebugAssumption ==
  /\ DebugGates \in Nat /\ MaxTrouble \in Nat /\ HasButtons \in BOOLEAN
  /\ \A gate \in 1..DebugGates : gate # None

VARIABLES
  debugRun,    \* the request: where it is
  client,      \* "connected" or "gone": the editor's event stream
  aborted,     \* the abort signal of the first executor
  active,      \* activeExecutors has the run
  parked,      \* pausedDebugExecutions: the gate it waits at, or None
  resuming,    \* resuming[a]: the gate a resumes from, or None
  sandbox,     \* its directory exists in the sidecar
  teardowns,   \* teardowns under way: nobody waits for them
  trouble,     \* faults so far
  forgotten    \* history: a fault after which the code knows no sandbox

debugVars == <<debugRun, client, aborted, active, parked, resuming, sandbox,
               teardowns, trouble, forgotten>>

DebugInit ==
  /\ debugRun = "requested" /\ client = "connected"
  /\ aborted = FALSE /\ active = FALSE /\ parked = None
  /\ resuming = [a \in Approvers |-> None]
  /\ sandbox = FALSE /\ teardowns = 0
  /\ trouble = 0 /\ forgotten = FALSE

Trouble == trouble < MaxTrouble /\ trouble' = trouble + 1

-------------------------------------------------------------------------------
(* POST /api/flows/:id/execute with _debug *)

(* Set-up may fail: the run goes on without a sandbox.                     *)
SetUpDebug ==
  /\ debugRun = "requested" /\ debugRun' = "building"
  /\ \/ sandbox' = TRUE /\ UNCHANGED trouble
     \/ Trouble /\ UNCHANGED sandbox
  /\ UNCHANGED <<client, aborted, active, parked, resuming, teardowns, forgotten>>

(* The context is built before anything would tear the sandbox down again. *)
BuildContext ==
  /\ debugRun = "building"
  /\ \/ debugRun' = "running" /\ active' = TRUE /\ UNCHANGED <<trouble, forgotten>>
     \/ Trouble /\ debugRun' = "ended" /\ forgotten' = TRUE /\ UNCHANGED active
  /\ UNCHANGED <<client, aborted, parked, resuming, sandbox, teardowns>>

(* res 'close'. Before the handler is registered nothing notices that the   *)
(* editor left.                                                            *)
CloseStream ==
  /\ client = "connected" /\ client' = "gone"
  /\ IF debugRun = "running" THEN aborted' = TRUE /\ active' = FALSE
     ELSE UNCHANGED <<aborted, active>>
  /\ UNCHANGED <<debugRun, parked, resuming, sandbox, teardowns, trouble, forgotten>>

(* Completed, failed, stopped, at a delay, or aborted: the finally tears    *)
(* the sandbox down. An abort is noticed between two nodes.                *)
EndRun ==
  /\ debugRun = "running" /\ debugRun' = "ended"
  /\ active' = FALSE /\ teardowns' = teardowns + 1
  /\ UNCHANGED <<client, aborted, parked, resuming, sandbox, trouble, forgotten>>

(* Mutation: the finally does not look whether the run paused. *)
PauseAndTearDown ==
  /\ debugRun = "running" /\ DebugGates > 0 /\ debugRun' = "ended"
  /\ active' = FALSE /\ parked' = 1 /\ teardowns' = teardowns + 1
  /\ UNCHANGED <<client, aborted, resuming, sandbox, trouble, forgotten>>

PauseRun ==
  /\ debugRun = "running" /\ DebugGates > 0 /\ debugRun' = "ended"
  /\ active' = FALSE /\ parked' = 1
  /\ UNCHANGED <<client, aborted, resuming, sandbox, teardowns, trouble, forgotten>>

-------------------------------------------------------------------------------
(* POST /api/executions/:id/approve *)

(* The entry is taken out first. An answer that is not one of the buttons   *)
(* ends the run.                                                           *)
TakeParked(a) ==
  /\ parked # None /\ resuming[a] = None
  /\ parked' = None
  /\ \/ /\ HasButtons /\ teardowns' = teardowns + 1
        /\ UNCHANGED resuming
     \/ /\ resuming' = [resuming EXCEPT ![a] = parked]
        /\ UNCHANGED teardowns
  /\ UNCHANGED <<debugRun, client, aborted, active, sandbox, trouble, forgotten>>

(* The resumed run is in no map and heeds no stream: it ends, or parks at   *)
(* the next gate.                                                          *)
EndResumed(a) ==
  /\ resuming[a] # None
  /\ resuming' = [resuming EXCEPT ![a] = None]
  /\ \/ teardowns' = teardowns + 1 /\ UNCHANGED parked
     \/ /\ resuming[a] < DebugGates /\ parked' = resuming[a] + 1
        /\ UNCHANGED teardowns
  /\ UNCHANGED <<debugRun, client, aborted, active, sandbox, trouble, forgotten>>

TearDownDebug ==
  /\ teardowns > 0 /\ teardowns' = teardowns - 1
  /\ \/ sandbox' = FALSE /\ UNCHANGED <<trouble, forgotten>>
     \/ Trouble /\ forgotten' = TRUE /\ UNCHANGED sandbox
  /\ UNCHANGED <<debugRun, client, aborted, active, parked, resuming>>

(* The process ends with its maps, its executors and its requests.         *)
RestartBackend ==
  /\ Trouble /\ debugRun # "requested"
  /\ debugRun' = "ended" /\ client' = "gone" /\ aborted' = TRUE /\ active' = FALSE
  /\ parked' = None /\ resuming' = [a \in Approvers |-> None] /\ teardowns' = 0
  /\ forgotten' = TRUE
  /\ UNCHANGED <<sandbox>>

DebugNext ==
  \/ SetUpDebug \/ BuildContext \/ CloseStream \/ EndRun \/ PauseRun
  \/ \E a \in Approvers : TakeParked(a) \/ EndResumed(a)
  \/ TearDownDebug \/ RestartBackend

DebugSpec == DebugInit /\ [][DebugNext]_debugVars

-------------------------------------------------------------------------------
(* Types of the variables. *)
DebugTypeOK ==
  /\ debugRun \in {"requested", "building", "running", "ended"}
  /\ client \in {"connected", "gone"} /\ {aborted, active, sandbox, forgotten} \subseteq BOOLEAN
  /\ parked \in (1..DebugGates) \cup {None}
  /\ \A a \in Approvers : resuming[a] \in (1..DebugGates) \cup {None}
  /\ teardowns \in Nat

(* Somebody still has the run in hand. *)
InHand ==
  Cardinality({a \in Approvers : resuming[a] # None})
    + (IF parked # None THEN 1 ELSE 0)
    + (IF debugRun \in {"building", "running"} THEN 1 ELSE 0)
    + teardowns

(* A sandbox is held by exactly one of: the run, its pause in the map, one  *)
(* approver, or one teardown. No order of approvals, pauses and closing    *)
(* streams leaves a sandbox nobody will tear down, or tears one down under *)
(* a run that goes on. What a fault forgets is left to the sidecar.        *)
SandboxHeldOnce ==
  /\ InHand <= 1
  /\ sandbox /\ ~forgotten => InHand = 1
================================================================================
