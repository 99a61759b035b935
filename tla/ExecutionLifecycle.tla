-------------------------- MODULE ExecutionLifecycle --------------------------
(***************************************************************************)
(* The life of one persisted execution: its row in PostgreSQL, its jobs in *)
(* the BullMQ queue, the worker processes that run them, and the HTTP      *)
(* handlers and the reaper that decide, reject, cancel or expire it.       *)
(*                                                                         *)
(* Every await of a handler that is followed by a write is a step boundary:*)
(* what a handler read before it may be stale when the write happens.  All *)
(* writes are UPDATE ... WHERE id = :id with no condition on the status.   *)
(*                                                                         *)
(* The engine is abstracted to the pause points of the flow, numbered in   *)
(* execution order: it walks from one to another as the graph leads it,    *)
(* over branches that are taken and past gates on branches that are not,   *)
(* takes a decision at the HITL node it is replayed from, and throws at    *)
(* the others. A first run takes the decisions its own input brings.       *)
(***************************************************************************)
EXTENDS Integers, Sequences, FiniteSets

CONSTANTS
  Workers,     (* worker processes, each with BullMQ's concurrency of 1      *)
  Requests,    (* the approve and reject calls that are made: bounds the run *)
  Users,       (* people who may call the API                                *)
  Kind,        (* Kind[p]: is pause point p a "hitl" or a "delay" node       *)
  Multi,       (* the HITL points whose assignmentType is 'multi'            *)
  MayDecide,   (* MayDecide[p]: users who pass the approve handler's checks  *)
  Required,    (* Required[p]: requiredApprovals of point p                  *)
  Leads,       (* Leads[g][d]: the points the walk may come to from gate g   *)
               (* after decision d: back, on, or End where no edge goes on   *)
  Onward,      (* Onward[p]: the same from delay p, or from the trigger      *)
  Inputs,      (* what the inputs callers send hold of the queue's own keys  *)
  MaxCrashes,  (* bound: processes killed while handling                     *)
  MaxFaults,   (* bound: failed statements and failed queue writes           *)
  MaxVersions  (* bound: saved versions of the flow                          *)

None == 0          \* no job, no gate, no snapshot, no iteration
Every == -1        \* in a token: at whatever gate

Points == DOMAIN Kind
Gates == {p \in Points : Kind[p] = "hitl"}
End == Len(Kind) + 1   \* past the last point

(* 'rejected' is special to the multi-approver branch only; "revise" stands *)
(* for every other button value an author may configure.                    *)
Decisions == {"approved", "rejected", "revise"}
Unset == "unset"

Token == [gate : Gates \cup {None, Every}, decision : Decisions]
NoToken == [gate |-> None, decision |-> "approved"]

(* The keys of an input that steer a run: the point __replayFrom starts it  *)
(* at, the decision in __replayOutputs, and _decision where _approved is    *)
(* set. Points before __replayFrom without an output in __replayOutputs run *)
(* first: from is None then, or the first of them that is a gate.           *)
Input == [from : Points \cup {None}, token : Token, approved : Decisions \cup {Unset}]
NoInput == [from |-> None, token |-> NoToken, approved |-> Unset]

ASSUME LifecycleAssumption ==
  /\ Kind \in Seq({"hitl", "delay"})
  /\ Multi \subseteq Gates
  /\ MayDecide \in [Gates -> SUBSET Users]
  /\ IsFiniteSet(Users)
  /\ Required \in [Gates -> Nat \ {0}]
  /\ Leads \in [Gates -> [Decisions -> (SUBSET (1..End)) \ {{}}]]
  /\ Onward \in [(Points \ Gates) \cup {None} -> (SUBSET (1..End)) \ {{}}]
  /\ Inputs \subseteq Input
  /\ \A i \in Inputs : \/ i.token.gate \in {None, i.from}
                        \/ /\ i.token.gate \in Gates /\ i.approved = Unset
                           /\ i.from \in Gates \cup {None}
  /\ MaxCrashes \in Nat /\ MaxFaults \in Nat /\ MaxVersions \in Nat \ {0}

MaxAttempts == 3   \* attempts: 3 on every enqueue
MaxStalls == 1     \* BullMQ's default maxStalledCount

Statuses == {"absent", "pending", "running", "completed", "failed",
             "cancelled", "awaiting_approval"}

Vote == [user : Users, decision : Decisions]
Entry == [gate : Gates \cup {None}, votes : Seq(Vote)]
NoEntry == [gate |-> None, votes |-> <<>>]
VARIABLES
  status,      \* executions.status, "absent" before the insert
  snapshot,    \* version in output._flowSnapshot, None if there is none
  iteration,   \* output._nextIteration, None if undefined
  pending,     \* the single entry of pending_hitls, NoEntry for []
  assignments, \* status of each user_assignments row of this execution
  jobs,        \* every job ever added, in the order of its BullMQ id
  pc,          \* pc[w]: where worker w is in handler and runner
  cur,         \* cur[w]: the job worker w holds
  next,        \* next[w]: the point the engine of w reaches next
  token,       \* token[w]: the decision its run carries to a gate, or to all
  seen,        \* seen[w]: the output columns the runner read before writing
  rpc,         \* rpc[r]: where request r is in its handler
  req,         \* req[r]: what request r has read and decided
  reaper,      \* where the hourly reaper is
  creator,     \* where the route that creates the execution is
  sandbox,     \* does the sidecar hold a directory for this execution
  version,     \* the version of the flow saved in the flows table
  crashes, faults,  \* how often a process was killed, a write failed
  brought,     \* history: what the caller's own input held, NoInput before
  given, reached, finished     \* history: see HitlGates

row == <<status, snapshot, iteration, pending>>
work == <<pc, cur, next, token, seen>>
http == <<rpc, req>>
world == <<creator, version, reaper>>
budget == <<crashes, faults>>
history == <<brought, given, reached, finished>>
vars == <<row, assignments, jobs, work, http, world, sandbox, budget, history>>

Read == [iter : Nat, snap : 0..MaxVersions]
NoRead == [iter |-> None, snap |-> None]

Job == [from : Points \cup {None}, token : Token, approved : Decisions \cup {Unset},
        iter : Nat, ver : Nat,
        state : {"waiting", "delayed", "active", "done", "failed"}, attempts : 0..MaxAttempts,
        stalls : 0..MaxStalls]

Request == [user : Users, decision : Decisions, entry : Entry,
            iter : Nat, ver : Nat]
Idle == [entry |-> NoEntry]   \* what an unused request slot holds

NewJob(input, iter, ver, state) ==
  [from |-> input.from, token |-> input.token, approved |-> input.approved,
   iter |-> iter, ver |-> ver, state |-> state, attempts |-> 0, stalls |-> 0]

Init ==
  /\ status = "absent" /\ snapshot = None /\ iteration = None
  /\ pending = NoEntry /\ assignments = <<>> /\ jobs = <<>>
  /\ pc = [w \in Workers |-> "idle"]
  /\ cur = [w \in Workers |-> None]
  /\ next = [w \in Workers |-> 1]
  /\ token = [w \in Workers |-> NoToken]
  /\ seen = [w \in Workers |-> NoRead]
  /\ rpc = [r \in Requests |-> "idle"]
  /\ req = [r \in Requests |-> Idle]
  /\ reaper = "idle" /\ creator = "start" /\ sandbox = FALSE /\ version = 1
  /\ crashes = 0 /\ faults = 0
  /\ brought = NoInput /\ given = [g \in Gates |-> {}] /\ reached = {}
  /\ finished = FALSE

-------------------------------------------------------------------------------
(* Creation: two awaits, the insert and the enqueue. The flow as the route *)
(* read it is version 1.                                                   *)

(* POST /flows/:id/execute stores the graph it is about to run. *)
CreateManual ==
  /\ creator = "start"
  /\ status' = "running" /\ snapshot' = 1
  /\ creator' = "inserted"
  /\ UNCHANGED <<iteration, pending, assignments, jobs, work, http, reaper,
                 version, sandbox, budget, history>>

(* The webhook inserts a pending row, and no graph. *)
CreateWebhook ==
  /\ creator = "start"
  /\ status' = "pending"
  /\ creator' = "inserted"
  /\ UNCHANGED <<snapshot, iteration, pending, assignments, jobs, work, http,
                 reaper, version, sandbox, budget, history>>

(* The caller's input is passed on as it is. *)
EnqueueExecution ==
  /\ creator = "inserted"
  /\ \E input \in Inputs :
       /\ jobs' = Append(jobs, NewJob(input, None, 1, "waiting"))
       /\ brought' = input
  /\ creator' = "queued"
  /\ UNCHANGED <<row, assignments, work, http, reaper, version, sandbox, budget,
                 given, reached, finished>>

(* Valkey is down: the route answers 500, the row stays. *)
EnqueueFails ==
  /\ creator = "inserted" /\ faults < MaxFaults
  /\ creator' = "lost" /\ faults' = faults + 1
  /\ UNCHANGED <<row, assignments, jobs, work, http, reaper, version, sandbox,
                 crashes, history>>

(* PUT /flows/:id saves another version of the flow. *)
EditFlow ==
  /\ creator # "start" /\ version < MaxVersions
  /\ version' = version + 1
  /\ UNCHANGED <<row, assignments, jobs, work, http, reaper, creator, sandbox,
                 budget, history>>

-------------------------------------------------------------------------------
(* The queue, external to the repository: BullMQ delivers a job at least   *)
(* once, in no particular order among several workers and delayed jobs.    *)

Held(j) == \E w \in Workers : pc[w] # "idle" /\ cur[w] = j

(* A delay or a retry's backoff has elapsed. *)
Promote(j) ==
  /\ jobs[j].state = "delayed"
  /\ jobs' = [jobs EXCEPT ![j].state = "waiting"]
  /\ UNCHANGED <<row, assignments, work, http, world, sandbox, budget, history>>

(* The lock of a job whose worker died has expired. *)
Stalled(j) ==
  /\ jobs[j].state = "active" /\ ~Held(j)
  /\ jobs' = IF jobs[j].stalls < MaxStalls
               THEN [jobs EXCEPT ![j] = [@ EXCEPT !.state = "waiting",
                                         !.stalls = jobs[j].stalls + 1]]
               ELSE [jobs EXCEPT ![j].state = "failed"]
  /\ UNCHANGED <<row, assignments, work, http, world, sandbox, budget, history>>

(* Worker w leaves job cur[w] in state s. *)
Release(w, s, tries) ==
  /\ jobs' = [jobs EXCEPT ![cur[w]] = [@ EXCEPT !.state = s, !.attempts = tries]]
  /\ pc' = [pc EXCEPT ![w] = "idle"]
  /\ cur' = [cur EXCEPT ![w] = None]
  /\ next' = [next EXCEPT ![w] = 1]
  /\ token' = [token EXCEPT ![w] = NoToken]
  /\ seen' = [seen EXCEPT ![w] = NoRead]

(* The handler threw: BullMQ backs off and retries, up to MaxAttempts. *)
Rethrow(w) ==
  LET tries == jobs[cur[w]].attempts + 1
  IN  Release(w, IF tries < MaxAttempts THEN "delayed" ELSE "failed", tries)

Acknowledge(w) ==
  /\ pc[w] = "ack"
  /\ Release(w, "done", jobs[cur[w]].attempts)
  /\ UNCHANGED <<row, assignments, http, world, sandbox, budget, history>>

(* The process is killed: the job stays active until its lock expires. *)
Crash(w) ==
  /\ pc[w] # "idle" /\ crashes < MaxCrashes
  /\ Release(w, "active", jobs[cur[w]].attempts)
  /\ crashes' = crashes + 1
  /\ UNCHANGED <<row, assignments, http, world, sandbox, faults, history>>

-------------------------------------------------------------------------------
(* run.ts: the handler of a job.                                           *)

Goto(w, l) == pc' = [pc EXCEPT ![w] = l]

PickUp(w, j) ==
  /\ pc[w] = "idle" /\ jobs[j].state = "waiting"
  /\ jobs' = [jobs EXCEPT ![j].state = "active"]
  /\ cur' = [cur EXCEPT ![w] = j]
  /\ Goto(w, "picked")
  /\ UNCHANGED <<row, assignments, next, token, seen, http, world, sandbox,
                 budget, history>>

(* Whatever the status was: a cancelled or completed row runs again. *)
MarkRunning(w) ==
  /\ pc[w] = "picked"
  /\ status' = "running"
  /\ Goto(w, "setup")
  /\ UNCHANGED <<snapshot, iteration, pending, assignments, jobs, cur, next, token,
                 seen, http, world, sandbox, budget, history>>

(* The failed write of 'failed' is swallowed by .catch(() => {}). *)
MarkFailed(w) ==
  /\ pc[w] = "escape"
  /\ status' = "failed"
  /\ Rethrow(w)
  /\ UNCHANGED <<snapshot, iteration, pending, assignments, http, world, sandbox,
                 budget, history>>

-------------------------------------------------------------------------------
(* runner.ts: executeFlowWithPersistence.                                  *)

Come(w, q) ==
  /\ next' = [next EXCEPT ![w] = q]
  /\ reached' = reached \cup {q}

(* Mutation: an input with _approved decides in replays, too. *)
StartsHonouringApproved(w) ==
  LET job == jobs[cur[w]]
  IN  /\ \E q \in IF job.from = None THEN Onward[None] ELSE {job.from} : Come(w, q)
      /\ token' = [token EXCEPT ![w] =
           IF job.approved # Unset
             THEN [gate |-> Every, decision |-> job.approved] ELSE job.token]

(* The engine starts at the node it is to replay from. An input with       *)
(* _approved decides at every gate, but in a replay at none.               *)
Starts(w) ==
  LET job == jobs[cur[w]]
  IN  /\ \E q \in IF job.from = None THEN Onward[None] ELSE {job.from} : Come(w, q)
      /\ token' = [token EXCEPT ![w] =
           IF job.from = None /\ job.approved # Unset
             THEN [gate |-> Every, decision |-> job.approved] ELSE job.token]

(* sandboxManager.setup, then the context is built and the engine starts.  *)
SetUpSandbox(w) ==
  /\ pc[w] = "setup"
  /\ sandbox' = TRUE
  /\ Goto(w, "run")
  /\ Starts(w)
  /\ UNCHANGED <<row, assignments, jobs, cur, seen, http, world, budget, brought,
                 given, finished>>

AtGate(w) == pc[w] = "run" /\ next[w] \in Gates
AtDelay(w) == pc[w] = "run" /\ next[w] \in Points \ Gates

(* The run carries a decision for the gate it has come to. *)
HasDecision(w) == token[w].gate \in {next[w], Every}

(* Mutation: a gate without a decision is passed as if approved. *)
PassGateUndecided(w) ==
  /\ AtGate(w)
  /\ \E q \in Leads[next[w]][token[w].decision] : Come(w, q)
  /\ token' = [token EXCEPT ![w] = NoToken]
  /\ UNCHANGED <<row, assignments, jobs, pc, cur, seen, http, world, sandbox,
                 budget, brought, given, finished>>

(* The engine follows the edges of the decision; branches they do not lead *)
(* to are skipped, gates included. <nodeId>:__approved is deleted when     *)
(* used, _approved when an edge leads back.                                *)
PassGate(w) ==
  /\ AtGate(w) /\ HasDecision(w)
  /\ \E q \in Leads[next[w]][token[w].decision] :
       /\ Come(w, q)
       /\ \/ token' = [token EXCEPT ![w] = NoToken]
          \/ token[w].gate = Every /\ q > next[w] /\ token' = token
  /\ UNCHANGED <<row, assignments, jobs, pc, cur, seen, http, world, sandbox,
                 budget, brought, given, finished>>

(* HitlPauseError; the runner reads output before it writes it. *)
PauseAtGate(w) ==
  /\ AtGate(w) /\ ~HasDecision(w)
  /\ seen' = [seen EXCEPT ![w] = [iter |-> iteration, snap |-> snapshot]]
  /\ Goto(w, "hitl")
  /\ UNCHANGED <<row, assignments, jobs, cur, next, token, http, world, sandbox,
                 budget, history>>

(* (prevOutput._nextIteration ?? 1) + 1 *)
NextIteration(n) == (IF n = None THEN 1 ELSE n) + 1

PersistPause(w) ==
  /\ pc[w] = "hitl"
  /\ status' = "awaiting_approval"
  /\ snapshot' = seen[w].snap
  /\ iteration' = NextIteration(seen[w].iter)
  /\ pending' = [gate |-> next[w], votes |-> <<>>]
  /\ Goto(w, "mirror")
  /\ UNCHANGED <<assignments, jobs, cur, next, token, seen, http, world, sandbox,
                 budget, history>>

MirrorAssignment(w) ==
  /\ pc[w] = "mirror"
  /\ assignments' = Append(assignments, "pending")
  /\ Goto(w, "ack")
  /\ UNCHANGED <<row, jobs, cur, next, token, seen, http, world, sandbox, budget,
                 history>>

(* PauseExecutionError, unless this is the delay the job replays from. *)
PauseAtDelay(w) ==
  /\ AtDelay(w) /\ jobs[cur[w]].from # next[w]
  /\ seen' = [seen EXCEPT ![w] = [iter |-> iteration, snap |-> snapshot]]
  /\ Goto(w, "delay")
  /\ UNCHANGED <<row, assignments, jobs, cur, next, token, http, world, sandbox,
                 budget, history>>

PassDelay(w) ==
  /\ AtDelay(w) /\ jobs[cur[w]].from = next[w]
  /\ \E q \in Onward[next[w]] : Come(w, q)
  /\ UNCHANGED <<row, assignments, jobs, pc, cur, token, seen, http, world,
                 sandbox, budget, brought, given, finished>>

(* The output written keeps the snapshot and drops _nextIteration. *)
PersistDelay(w) ==
  /\ pc[w] = "delay"
  /\ status' = "running"
  /\ snapshot' = seen[w].snap
  /\ iteration' = None
  /\ Goto(w, "addDelayed")
  /\ UNCHANGED <<pending, assignments, jobs, cur, next, token, seen, http, world,
                 sandbox, budget, history>>

(* Mutation: the pause is stored, the delayed job is not added. *)
EnqueueDelayedForgotten(w) ==
  /\ pc[w] = "addDelayed"
  /\ Goto(w, "teardown")
  /\ UNCHANGED <<row, assignments, jobs, cur, next, token, seen, http, world,
                 sandbox, budget, history>>

EnqueueDelayed(w) ==
  /\ pc[w] = "addDelayed"
  /\ jobs' = Append(jobs,
       NewJob([from |-> next[w], token |-> NoToken, approved |-> jobs[cur[w]].approved],
              None, jobs[cur[w]].ver, "delayed"))
  /\ Goto(w, "teardown")
  /\ UNCHANGED <<row, assignments, cur, next, token, seen, http, world, sandbox,
                 budget, history>>

(* Mutation: success does not tear the sandbox down. *)
CompleteKeepingSandbox(w) ==
  /\ pc[w] = "run" /\ next[w] \notin Points
  /\ status' = "completed" /\ snapshot' = None /\ iteration' = None
  /\ pending' = NoEntry
  /\ finished' = TRUE
  /\ Goto(w, "ack")
  /\ UNCHANGED <<assignments, jobs, cur, next, token, seen, http, world, sandbox,
                 budget, brought, given, reached>>

(* Past the last point: output is the result, pending_hitls is []. *)
Complete(w) ==
  /\ pc[w] = "run" /\ next[w] \notin Points
  /\ status' = "completed" /\ snapshot' = None /\ iteration' = None
  /\ pending' = NoEntry
  /\ finished' = TRUE
  /\ Goto(w, "teardown")
  /\ UNCHANGED <<assignments, jobs, cur, next, token, seen, http, world, sandbox,
                 budget, brought, given, reached>>

TearDown(w) ==
  /\ pc[w] = "teardown"
  /\ sandbox' = FALSE
  /\ Goto(w, "ack")
  /\ UNCHANGED <<row, assignments, jobs, cur, next, token, seen, http, world,
                 budget, history>>

(* A node failed, or the write of 'completed' did. *)
NodeFails(w) ==
  /\ pc[w] = "run"
  /\ sandbox' = FALSE
  /\ Goto(w, "failing")
  /\ UNCHANGED <<row, assignments, jobs, cur, next, token, seen, http, world,
                 budget, history>>

(* Mutation: a failing node is reported and not stored. *)
PersistFailureSkipped(w) ==
  /\ pc[w] = "failing"
  /\ Goto(w, "ack")
  /\ UNCHANGED <<row, assignments, jobs, cur, next, token, seen, http, world,
                 sandbox, budget, history>>

PersistFailure(w) ==
  /\ pc[w] = "failing"
  /\ status' = "failed"
  /\ Goto(w, "ack")
  /\ UNCHANGED <<snapshot, iteration, pending, assignments, jobs, cur, next, token,
                 seen, http, world, sandbox, budget, history>>

(* A statement or a queue write fails. Outside the runner's try it escapes *)
(* to run.ts; before run.ts's own try it goes straight back to BullMQ, and *)
(* so does a failure to record the failure.                                *)
Fault(w) ==
  /\ faults < MaxFaults
  /\ faults' = faults + 1
  /\ \/ /\ pc[w] \in {"setup", "hitl", "delay", "addDelayed", "failing"}
        /\ Goto(w, "escape")
        /\ UNCHANGED <<jobs, cur, next, token, seen>>
     \/ /\ pc[w] \in {"picked", "escape"}
        /\ Rethrow(w)
     \/ /\ pc[w] = "mirror"   \* insertErr is logged only
        /\ Goto(w, "ack")
        /\ UNCHANGED <<jobs, cur, next, token, seen>>
  /\ sandbox' = (sandbox \/ pc[w] = "setup")
  /\ UNCHANGED <<row, assignments, http, world, crashes, history>>

(* The sidecar does not answer: setup and teardown failures are non-fatal. *)
SidecarFault(w) ==
  /\ faults < MaxFaults
  /\ faults' = faults + 1
  /\ \/ /\ pc[w] = "setup"
        /\ Goto(w, "run")
        /\ Starts(w)
     \/ /\ pc[w] = "teardown"
        /\ Goto(w, "ack")
        /\ UNCHANGED <<next, token, reached>>
     \/ /\ pc[w] = "run"      \* a node fails and so does the teardown
        /\ Goto(w, "failing")
        /\ UNCHANGED <<next, token, reached>>
  /\ UNCHANGED <<row, assignments, jobs, cur, seen, http, world, sandbox, crashes,
                 brought, given, finished>>

-------------------------------------------------------------------------------
(* execution.ts: approve. Each request is one call, made by user u.        *)

ApprovedCount(votes) ==
  Cardinality({i \in DOMAIN votes : votes[i].decision = "approved"})

(* Mutation: nobody is turned away for having voted. *)
HasVotedUnchecked(u, votes) == FALSE

HasVoted(u, votes) == \E i \in DOMAIN votes : votes[i].user = u

(* Mutation: one approval more than asked for is awaited. *)
VerdictLate(g, d, votes) ==
  IF g \notin Multi THEN "mark"
  ELSE IF d = "rejected" THEN "rejectVote"
  ELSE IF ApprovedCount(votes) <= Required[g] THEN "vote"
  ELSE "mark"

(* What the handler does next with the decision it has validated. *)
Verdict(g, d, votes) ==
  IF g \notin Multi THEN "mark"
  ELSE IF d = "rejected" THEN "rejectVote"
  ELSE IF ApprovedCount(votes) < Required[g] THEN "vote"
  ELSE "mark"

(* The row is read once; decision, votes, iteration and snapshot are those *)
(* of this read for the rest of the request.                               *)
ReadForApproval(r, u, d) ==
  LET g == pending.gate
      votes == IF g \in Multi
                 THEN Append(pending.votes, [user |-> u, decision |-> d])
                 ELSE pending.votes
  IN
  /\ rpc[r] = "idle"
  /\ status = "awaiting_approval" /\ g # None
  /\ u \in MayDecide[g]
  /\ g \in Multi => ~HasVoted(u, pending.votes)
  /\ rpc' = [rpc EXCEPT ![r] = Verdict(g, d, votes)]
  /\ req' = [req EXCEPT ![r] =
              [user |-> u, decision |-> d, entry |-> [gate |-> g, votes |-> votes],
               iter |-> IF iteration = None THEN 1 ELSE iteration,
               ver |-> snapshot]]
  /\ given' = [given EXCEPT ![g] = @ \cup {[user |-> u, decision |-> d]}]
  /\ UNCHANGED <<row, assignments, jobs, work, world, sandbox, budget, brought,
                 reached, finished>>

(* Every request ends at "done". *)
Answer(r) ==
  /\ rpc' = [rpc EXCEPT ![r] = "done"]
  /\ req' = [req EXCEPT ![r] = Idle]

StoreVote(r) ==
  /\ rpc[r] = "vote"
  /\ pending' = req[r].entry
  /\ Answer(r)
  /\ UNCHANGED <<status, snapshot, iteration, assignments, jobs, work, world,
                 sandbox, budget, history>>

(* Immediate rejection by one of several approvers. *)
RejectVote(r) ==
  /\ rpc[r] = "rejectVote"
  /\ status' = "cancelled"
  /\ pending' = req[r].entry
  /\ Answer(r)
  /\ UNCHANGED <<snapshot, iteration, assignments, jobs, work, world, sandbox,
                 budget, history>>

Mark(rows, s) == [i \in DOMAIN rows |-> IF rows[i] = "pending" THEN s ELSE rows[i]]

(* Without a snapshot the graph is the one saved now. Only "approved" is   *)
(* mirrored to the assignments.                                            *)
MarkAssignments(r) ==
  /\ rpc[r] = "mark"
  /\ assignments' = IF req[r].decision = "approved"
                      THEN Mark(assignments, "approved") ELSE assignments
  /\ req' = [req EXCEPT ![r].ver = IF @ = None THEN version ELSE @]
  /\ rpc' = [rpc EXCEPT ![r] = "enqueue"]
  /\ UNCHANGED <<row, jobs, work, world, sandbox, budget, history>>

(* The replay job; the row's status is left to the worker. The override of *)
(* its input carries _approved, too.                                       *)
EnqueueReplay(r) ==
  /\ rpc[r] = "enqueue"
  /\ LET g == req[r].entry.gate
         d == req[r].decision
     IN  jobs' = Append(jobs,
           NewJob([from |-> g, token |-> [gate |-> g, decision |-> d], approved |-> d],
                  req[r].iter, req[r].ver, "waiting"))
  /\ Answer(r)
  /\ UNCHANGED <<row, assignments, work, world, sandbox, budget, history>>

-------------------------------------------------------------------------------
(* execution.ts: reject, cancel and admin-cancel; reaper.ts.               *)

(* For a multi assignment reject looks at the listed users only, and lets  *)
(* everybody through when the assignment lists groups or nobody.           *)
MayReject(g) == IF g \in Multi THEN Users ELSE MayDecide[g]

ReadForReject(r, u) ==
  /\ rpc[r] = "idle"
  /\ status = "awaiting_approval" /\ pending.gate # None
  /\ u \in MayReject(pending.gate)
  /\ rpc' = [rpc EXCEPT ![r] = "reject"]
  /\ UNCHANGED <<row, assignments, jobs, work, req, world, sandbox, budget, history>>

Reject(r) ==
  /\ rpc[r] = "reject"
  /\ status' = "cancelled"
  /\ rpc' = [rpc EXCEPT ![r] = "markRejected"]
  /\ UNCHANGED <<snapshot, iteration, pending, assignments, jobs, work, req, world,
                 sandbox, budget, history>>

MarkRejected(r) ==
  /\ rpc[r] = "markRejected"
  /\ assignments' = Mark(assignments, "rejected")
  /\ Answer(r)
  /\ UNCHANGED <<row, jobs, work, world, sandbox, budget, history>>

(* The backend is killed, or its statement fails, in the middle. *)
RequestDies(r) ==
  /\ rpc[r] \notin {"idle", "done"} /\ crashes < MaxCrashes
  /\ Answer(r)
  /\ crashes' = crashes + 1
  /\ UNCHANGED <<row, assignments, jobs, work, world, sandbox, faults, history>>

(* activeExecutors holds debug runs only: a worker's run is not aborted. *)
CancelExecution ==
  /\ status # "absent"
  /\ status' = "cancelled"
  /\ UNCHANGED <<snapshot, iteration, pending, assignments, jobs, work, http, world,
                 sandbox, budget, history>>

(* Time is abstracted: an awaiting row may be older than the TTL or not. *)
ReapSelect ==
  /\ reaper = "idle" /\ status = "awaiting_approval"
  /\ reaper' = "selected"
  /\ UNCHANGED <<row, assignments, jobs, work, http, creator, version, sandbox,
                 budget, history>>

ReapCancel ==
  /\ reaper = "selected"
  /\ status' = "cancelled"
  /\ reaper' = "teardown"
  /\ UNCHANGED <<snapshot, iteration, pending, assignments, jobs, work, http,
                 creator, version, sandbox, budget, history>>

ReapTearDown ==
  /\ reaper = "teardown"
  /\ sandbox' = FALSE
  /\ reaper' = "idle"
  /\ UNCHANGED <<row, assignments, jobs, work, http, creator, version, budget,
                 history>>

-------------------------------------------------------------------------------
Create == CreateManual \/ CreateWebhook \/ EnqueueExecution

Run(w) ==
  \/ \E j \in DOMAIN jobs : PickUp(w, j)
  \/ MarkRunning(w) \/ SetUpSandbox(w) \/ PassGate(w) \/ PassDelay(w)
  \/ PauseAtGate(w) \/ PersistPause(w) \/ MirrorAssignment(w)
  \/ PauseAtDelay(w) \/ PersistDelay(w) \/ EnqueueDelayed(w)
  \/ Complete(w) \/ TearDown(w) \/ PersistFailure(w) \/ MarkFailed(w)
  \/ Acknowledge(w)

Misfortune(w) == NodeFails(w) \/ Fault(w) \/ SidecarFault(w) \/ Crash(w)

Queue == \E j \in DOMAIN jobs : Promote(j) \/ Stalled(j)

Ask(r) ==
  \/ \E u \in Users, d \in Decisions : ReadForApproval(r, u, d)
  \/ \E u \in Users : ReadForReject(r, u)

Respond(r) ==
  \/ StoreVote(r) \/ RejectVote(r) \/ MarkAssignments(r) \/ EnqueueReplay(r)
  \/ Reject(r) \/ MarkRejected(r)

Reap == ReapCancel \/ ReapTearDown

Next ==
  \/ Create \/ EnqueueFails \/ EditFlow
  \/ \E w \in Workers : Run(w) \/ Misfortune(w)
  \/ Queue
  \/ \E r \in Requests : Ask(r) \/ Respond(r) \/ RequestDies(r)
  \/ CancelExecution \/ ReapSelect \/ Reap

Spec == Init /\ [][Next]_vars

-------------------------------------------------------------------------------
(* Properties.                                                             *)

(* Every variable keeps its type. *)
TypeOK ==
  /\ status \in Statuses
  /\ snapshot \in 0..MaxVersions /\ iteration \in Nat /\ pending \in Entry
  /\ assignments \in Seq({"pending", "approved", "rejected"})
  /\ jobs \in Seq(Job)
  /\ pc \in [Workers -> {"idle", "picked", "setup", "run", "hitl", "mirror",
                         "delay", "addDelayed", "teardown", "ack", "failing",
                         "escape"}]
  /\ cur \in [Workers -> Nat]
  /\ next \in [Workers -> 1..(Len(Kind) + 1)]
  /\ token \in [Workers -> Token]
  /\ seen \in [Workers -> Read]
  /\ rpc \in [Requests -> {"idle", "vote", "rejectVote", "mark", "enqueue",
                           "reject", "markRejected", "done"}]
  /\ req \in [Requests -> Request \cup {Idle}]
  /\ reaper \in {"idle", "selected", "teardown"}
  /\ creator \in {"start", "inserted", "queued", "lost"}
  /\ sandbox \in BOOLEAN
  /\ version \in 1..MaxVersions
  /\ crashes \in 0..MaxCrashes /\ faults \in 0..MaxFaults
  /\ brought \in Input
  /\ given \in [Gates -> SUBSET Vote]
  /\ reached \subseteq 1..End
  /\ finished \in BOOLEAN

(* How many distinct people must take the same decision at gate g: a multi *)
(* assignment its requiredApprovals, any other assignment one.             *)
Needed == [g \in Gates |-> IF g \in Multi THEN Required[g] ELSE 1]

(* What the caller's input claims: a point to start at, and decisions.     *)
Entries == {brought.from} \ {None}
Granted == {p \in Gates \X Decisions : \/ brought.approved = p[2]
                                       \/ brought.token = [gate |-> p[1], decision |-> p[2]]}

Enough(g, d) ==
  Cardinality({u \in Users : [user |-> u, decision |-> d] \in given[g]}) >= Needed[g]
Decided(g, d) == Enough(g, d) \/ <<g, d>> \in Granted
Taken == {p \in Gates \X Decisions : Decided(p[1], p[2])}

(* The refinement: the lifecycle's HITL pause points, the people it lets   *)
(* vote, the quorum of each and the routes between them are those of the   *)
(* promise, and its history variables are the promise's state.             *)
Promise == INSTANCE HitlGates WITH
  Users <- Users, Gates <- Gates, Decisions <- Decisions, MayDecide <- MayDecide,
  Needed <- Needed, Leads <- Leads, Onward <- Onward, Trigger <- None, End <- End,
  given <- given, reached <- reached, finished <- finished,
  entries <- Entries, granted <- Granted

(* Whatever the interleaving of votes, retries, crashes and duplicate      *)
(* resumes, the lifecycle keeps the promise of HitlGates: runs get from    *)
(* gate to gate only by decisions that enough distinct, entitled people    *)
(* took at that very gate while it waited - or that the caller's own input *)
(* held from the start - along the edges of those decisions, and complete  *)
(* only where these lead to the end.                                       *)
KeepsPromise == Promise!Spec

(* S holds where a run may come without the approval of gate g. *)
WithoutApproval(g, S) ==
  /\ Onward[None] \cup Entries \subseteq S
  /\ \A p \in S \cap (Points \ Gates) : Onward[p] \subseteq S
  /\ \A h \in S \cap Gates, d \in Decisions :
       h # g \/ d # "approved" => Leads[h][d] \subseteq S

(* No route from the start to the end but through an approval of gate g. *)
Unavoidable(g) == \E S \in SUBSET (1..End) : WithoutApproval(g, S) /\ End \notin S

(* An execution whose row says 'completed' had every HITL node approved by *)
(* as many distinct people as the node asks for, if the graph leads to its *)
(* end only through that approval: a rejection or another button may lead  *)
(* on, or nowhere, and the run still completes. The worker sets            *)
(* 'completed' with no look at who decided what. The exception is an input *)
(* that itself holds the approval.                                         *)
CompletedWasApproved ==
  status = "completed" => \A g \in Gates : Unavoidable(g) => Decided(g, "approved")

(* What pending_hitls holds while the row awaits: one gate some run came   *)
(* to, and votes that distinct entitled people really gave there, none of  *)
(* them a rejection, not yet a quorum - votes included that are stored     *)
(* late, by a request that read an earlier pause. No promise that no vote  *)
(* is lost, nor that those who have not voted yet can make the quorum.     *)
OpenBallotIsSound ==
  status = "awaiting_approval" =>
    /\ pending.gate \in Gates \cap reached
    /\ \A i, j \in DOMAIN pending.votes :
         pending.votes[i].user = pending.votes[j].user => i = j
    /\ \A i \in DOMAIN pending.votes :
         /\ pending.votes[i] \in given[pending.gate]
         /\ pending.votes[i].user \in MayDecide[pending.gate]
         /\ pending.votes[i].decision # "rejected"
    /\ ApprovedCount(pending.votes) < Required[pending.gate]

(* Nobody has anything left to do for this execution. *)
Quiescent ==
  /\ creator = "queued"
  /\ \A j \in DOMAIN jobs : jobs[j].state \in {"done", "failed"}
  /\ \A r \in Requests : rpc[r] \in {"idle", "done"}
  /\ reaper = "idle"

(* A job ended in "failed" that its workers died with (a second stall), or  *)
(* as many statements failed as a job has attempts: recording that an       *)
(* attempt failed may fail itself, and the last catch swallows that.       *)
GivenUp ==
  \/ faults >= MaxAttempts
  \/ \E j \in DOMAIN jobs : jobs[j].state = "failed" /\ jobs[j].attempts < MaxAttempts

(* An execution is never left 'running' or 'pending' with no job to move   *)
(* it: the last write is always the end of some run, a pause or a          *)
(* cancellation, in whatever order several runs of the same row interleave.*)
NoStuckRunning == Quiescent /\ ~GivenUp => status \notin {"pending", "running"}

(* A completed execution leaves no sandbox directory behind, whichever of  *)
(* its runs ended last, as long as the sidecar and the database answer and *)
(* no job is given up: a run that dies twice leaves what it had set up.    *)
CompletedHasNoSandbox ==
  Quiescent /\ ~GivenUp /\ status = "completed" /\ faults = 0 => ~sandbox

(* The program's own steps are fair: a worker that is up polls the queue    *)
(* and finishes what it holds, BullMQ promotes and recovers jobs, a handler *)
(* and the reaper finish what they began. People and misfortunes are not.   *)
Fairness ==
  /\ WF_vars(EnqueueExecution)
  /\ \A w \in Workers : WF_vars(Run(w))
  /\ WF_vars(Queue)
  /\ \A r \in Requests : WF_vars(Respond(r))
  /\ WF_vars(Reap)

FairSpec == Spec /\ Fairness

(* An execution whose job is in the queue does not stay 'pending' or       *)
(* 'running' for ever, delays, retries and crashes included, unless the    *)
(* queue gives its job up.                                                 *)
EventuallySettles ==
  (creator = "queued" /\ status \in {"pending", "running"})
    ~> (GivenUp \/ status \in {"completed", "failed", "cancelled", "awaiting_approval"})

-------------------------------------------------------------------------------
(* The inductive invariant behind the safety properties: what each record  *)
(* that travels through the queue, the requests and the row stands for.    *)

Backed(t) ==
  /\ t.gate \in Gates => <<t.gate, t.decision>> \in Taken
  /\ t.gate = Every => t.decision = brought.approved

(* Jobs: a replay starts at a point some run has reached, or where the     *)
(* caller said, and a decision it carries is one that enough people took.  *)
(* A job nobody has failed for good has attempts left.                     *)
JobsBacked ==
  \A j \in DOMAIN jobs :
    /\ jobs[j].from \in reached \cup Entries \cup {None}
    /\ Backed(jobs[j].token)
    /\ jobs[j].from = None => jobs[j].approved \in {Unset, brought.approved}
    /\ jobs[j].state \in {"waiting", "delayed", "active"} =>
         jobs[j].attempts < MaxAttempts

(* Workers: no two hold the same job, and all are where a route leads.     *)
WorkersBacked ==
  \A w \in Workers :
    /\ pc[w] \in {"run", "hitl", "delay", "addDelayed"} => next[w] \in reached
    /\ Backed(token[w])
    /\ pc[w] = "hitl" => next[w] \in Gates
    /\ pc[w] \in {"delay", "addDelayed"} => next[w] \in Points
    /\ pc[w] # "idle" =>
         /\ cur[w] \in DOMAIN jobs
         /\ jobs[cur[w]].state = "active"
         /\ \A v \in Workers : pc[v] # "idle" /\ cur[v] = cur[w] => v = w

(* A ballot, in the row or in a request: an entry for a gate some run has  *)
(* reached, with votes that distinct people gave there.                    *)
Ballot(e) ==
  /\ e.gate \in Gates \cap reached
  /\ \A i, j \in DOMAIN e.votes : e.votes[i].user = e.votes[j].user => i = j
  /\ \A i \in DOMAIN e.votes : e.votes[i] \in given[e.gate]

Open(e) == ApprovedCount(e.votes) < Required[e.gate]
Unrejected(e) == \A i \in DOMAIN e.votes : e.votes[i].decision # "rejected"

RowBacked ==
  /\ pending # NoEntry => Ballot(pending) /\ Open(pending)
  /\ status = "awaiting_approval" => pending # NoEntry /\ Unrejected(pending)
  /\ status = "completed" => finished

RequestsBacked ==
  \A r \in Requests :
    /\ rpc[r] \in {"vote", "rejectVote", "mark", "enqueue"} =>
         req[r] \in Request /\ Ballot(req[r].entry)
    /\ rpc[r] \in {"vote", "rejectVote"} => Open(req[r].entry)
    /\ rpc[r] = "vote" => Unrejected(req[r].entry)
    /\ rpc[r] \in {"mark", "enqueue"} =>
         <<req[r].entry.gate, req[r].decision>> \in Taken

HistoryBacked ==
  /\ \A g \in Gates : \A v \in given[g] : v.user \in MayDecide[g]
  /\ \A g \in Gates : \A S \in SUBSET (1..End) :
       WithoutApproval(g, S) /\ <<g, "approved">> \notin Taken => reached \subseteq S
  /\ finished => End \in reached

(* Nothing runs, and nothing is claimed, before the route has queued it.   *)
NotBegun == creator # "queued" => jobs = <<>> /\ reached = {} /\ brought = NoInput

(* Every decision in transit is backed by what people decided, or by what  *)
(* the first input held: what makes late votes, duplicate resumes and      *)
(* retries harmless to the gates.                                          *)
DecisionsBacked ==
  /\ JobsBacked /\ WorkersBacked /\ RowBacked /\ RequestsBacked
  /\ HistoryBacked /\ NotBegun

-------------------------------------------------------------------------------
(* What the documentation says of the lifecycle and the code does not keep.*)

(* "Completed --> [*]", "Cancelled --> [*]": an execution that has ended   *)
(* does not run again, whatever was queued for it before it ended.          *)
EndedRunsNotAgain ==
  [][(status \in {"completed", "cancelled"}) => status' # "running"]_status

(* "Approvals days later replay the exact original graph". *)
ReplaysOriginalGraph == \A j \in DOMAIN jobs : jobs[j].ver = 1
===============================================================================
