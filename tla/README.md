# A TLA+ model of OrcheStream.AI

OrcheStream.AI runs flows: graphs of nodes (LLM calls, conditions, HTTP requests,
delays, human approvals) drawn in a browser, stored in PostgreSQL and executed by
worker processes that take their jobs from a BullMQ queue. A flow may stop at a
human-in-the-loop (HITL) node for days and go on in another process. This directory
holds the specification of the parts of it that are hard to test: an execution from its
creation to its end, the engine's walk over a graph, and the components around them.

`PROJECT.json` lists the components, the runs, the source lines of every
definition, the hazards with the properties that watch them, and the theorems.

## 1. The system

| component | state | operations | acts on |
|---|---|---|---|
| Execution row life cycle (`routes/execution.ts`, `webhook-openapi.ts`, `worker/run.ts`, `executor/runner.ts`, `sandbox/reaper.ts`) | `executions` row: status, output (graph snapshot, iteration), `pending_hitls`; `user_assignments` | execute, webhook, approve, reject, cancel, reap | queue, sidecar, assignments |
| Queue (`worker/queue.ts`, BullMQ) | jobs: waiting, delayed, active, attempts | add, pick up, retry, stall | worker |
| Graph sort (`executor/dag.ts`) | in-degrees, queue | topologicalSort | engine |
| Flow engine (`executor/engine.ts`) | node outputs of a walk, executors of subflows, loops, parallel nodes | execute, replay, loop back, executeNode | LLM, MCP, sidecar, step persister |
| Agent loop and hub (`engine.ts`, `tools/hub.ts`) | conversation of one node; connections of the process | call the model, carry out tool calls, continue what was cut | MCP servers |
| HTTP node (`engine.ts`) | one request and its redirects | resolve, check, connect | the network |
| Step persister, assignments (`runner.ts`, `routes/assignments.ts`) | `execution_steps`, `user_assignments` | started, completed, failed; decide; DELETE | database |
| Flows and schedules (`routes/flows.ts`, `schedule-reconciliation.ts`) | `flows`, deployments, keys, BullMQ schedulers | create, update, delete; hourly reconciliation | webhooks, queue |
| Webhooks and API keys (`webhook-*.ts`) | sliding windows in memory, keys | call, poll, renew, revoke | executions |
| Debug runs (`execution.ts`) | executors and pauses in the memory of the backend | execute, approve, cancel, browser closes | engine, sidecar |
| Sandbox, sidecar, Landlock helper | one directory per execution, process groups | setup, exec, eval, teardown, reap | engine |
| Environment of a run (`executor/context.ts`) | variables of a job, secrets, vaults | resolve at each job | engine, jobs |
| Secrets and keys (`utils/encryption.ts`, `routes/secrets.ts`) | encrypted rows, key versions | save, rotate, re-encrypt | environment |
| Accounts, groups, single sign-on (`auth.ts`, `admin.ts`, `groups.ts`) | users, roles, memberships, cookies | register, log in, refresh, administer | every route |
| Chat, OpenAI-compatible API | sessions, messages, keys | message, completion | engine |
| Knowledge, vector stores | documents, chunks, a registry per process | upload, delete, search | engine |
| Catalogue (endpoints, MCP servers, providers, contexts) | rows owned by all or by a group | create, update, delete, set default | engine |
| Co-Pilot (`components/assistant`) | pages, offered tools, conversations, a turn | navigate, send, stop | the routes, the editor |
| Flow editor, debug overlay, approvals pages | copies of what the backend has | edit, undo, save; run, stop; decide, cancel | the routes |
| Other pages, schema, Helm, nginx, tests | | | |

**How they interact.** A route inserts a row and adds a job; a worker takes the job,
sets the row running, sets up a sandbox, builds the environment, sorts the graph and walks
over it. A HITL node throws: the runner stores the node outputs and an approval ballot in the
row, and the job ends successfully. The approve route counts votes in that ballot and,
when there are enough, adds a *replay* job that carries the stored outputs and the
decision; the engine then loads the outputs, takes the decision at the gate and goes
on. A delay node does the same with a delayed job. Nothing ties a job to a row but
the id in its input, and every write to the row is an `UPDATE` without a condition
on what the row says. The other routes are written the same way: a request reads, decides and
writes in statements of their own, almost none in a transaction, and what is told to the queue or a
vector store is told afterwards. The pages ask again and again and take answers as they come.

**What is hard, and what makes it correct.**

- *Life cycle.* Interleavings of two voters, of two replay jobs, of a worker and the
  reaper, each with reads that are stale at the write; killed workers and stalled
  jobs; statements that fail. Correct means: a run leaves a gate only by a
  decision that as many people took there as it asks for, the ballot of a waiting
  execution holds what people really voted, a running one has
  somebody working on it, a finished one stays finished and leaves no sandbox.
- *Sort.* Cycles are allowed. Correct means: every edge between nodes that are not
  behind a cycle is respected, and no node is lost.
- *Engine.* Routing by labels, cases and buttons; propagated skips; replays that
  load some nodes and run others; loops that rewind the walk; pauses thrown through
  executors inside executors. Correct means: what was not chosen does not run, what ran is not
  run again by a replay, a decision applies to what the person was shown, a loop ends when its
  limit says, and every row opened for a subflow is closed.
- *Rows kept by several statements* (flows with their deployments and schedulers, step rows,
  memberships, defaults, key versions, documents with their chunks). Correct means: what was
  acknowledged stays true, and what is eventually made to agree does agree.
- *What lives in one process* (debug runs, sliding windows, registries, hub connections,
  directories of the sidecar). Correct means: it is released once and by one owner, and bounds
  hold although entries are swept.
- *The browser.* Several copies of one state, and answers that arrive late. Correct means: what
  somebody decides is about what they saw, and what they drew or stopped is not undone by an echo.

## 2. Modules

| module | models |
|---|---|
| `NoValue` | `None`, shared by all |
| `HitlGates` | abstract: a run leaves a gate only by a decision that enough distinct, entitled people took there, along its edges; completion only where these lead to the end |
| `ExecutionLifecycle`, `…Proofs`, `MCExecutionLifecycle` | the row, its jobs, workers, requests, reaper, sandbox; its theorems; the constants of its runs |
| `TopologicalSort`, `…Proofs` | `topologicalSort`, one step per iteration of a loop; its theorems |
| `DurableWalk` | abstract: a walk along steps that waits where it is and never forgets |
| `FlowEngine`, `…Proofs`, `MCFlowEngine` | extends `TopologicalSort`: the walk over the sorted nodes, pauses, replays, retries; its theorems; flows and graphs |
| `RunProofs` | theorems of the next five, `DebugRuns` and `Sandbox` |
| `NestedRuns` | subflow, loop and parallel nodes: the stack of executors, pauses thrown through it, the replay that finds its way back |
| `ExecutionSteps` | step rows under replays, retries and overlapping walks; assignments; DELETE |
| `AgentLoop`, `MCAgentLoop` | the `llm-agent` node: rounds, truncation, failures, trimming, tools of the hub |
| `HttpNode` | the `http` node, hop by hop |
| `RunEnvironment` | what an execution runs with, through delays and approvals |
| `FlowRoutes` | saving and deleting flows; deployments, keys, schedulers, reconciliation |
| `WebhookCalls` | extends `FlowRoutes`: calls against those rows, sliding windows, key management |
| `WebhookProofs` | theorems of the two |
| `DebugRuns` | runs in the backend process and who holds their sandbox |
| `Sandbox` | directories, the helper's steps between spawn and exec, process groups, tear-downs, the file reaper |
| `Accounts` | registration, logins, refresh, groups, roles |
| `SecretKeys` | key versions, saves, rotation, re-encryption |
| `ChatSessions` | sessions, messages, turns, completions |
| `Knowledge` | uploads, deletions, mirrors, registries, search |
| `Catalogue`, `…Proofs` | rows with an owner, the default endpoint, tools last listed; its theorems and those of `SecretKeys`, `Knowledge` and `Accounts` |
| `CoPilotTools`, `CoPilot`, `MCCoPilot` | the tool registry against the routes' permissions; the panel and its turns |
| `FlowCanvas` | canvas and page of the editor, undo, saving |
| `DebugView` | the debug overlay's rows under the events of its streams |
| `ApprovalPages`, `…Proofs` | inbox and administrator's list: polling, decisions, cancelling; its theorems and those of `DebugView`, `FlowCanvas` and `ChatSessions` |
| `MCComponents`, `…Proofs` | all components that meet only in rows none of their properties speak of, in one run; that they are each itself in it, and the theorems of `CoPilot` |

### ExecutionLifecycle

One execution. `status`, `snapshot`, `iteration` and `pending` are the columns of its
row; `jobs` every job ever added, by id; `pc`, `cur`, `next`, `token`, `seen` the
local state of each worker; `rpc`, `req` that of each approve or reject call.
An action is the code between two awaits of which the first may let somebody else
write: `ReadForApproval` is the handler up to the first write, `StoreVote` the write
with the ballot *as it was read*, `MarkAssignments` and `EnqueueReplay` the two
writes of a quorum. On the worker: `PickUp`, `MarkRunning`, `SetUpSandbox`, one
step per pause point of the flow (`PassGate`, `PauseAtGate`, `PassDelay`,
`PauseAtDelay`, `NodeFails`), and the writes of the four ends (`Complete` and
`TearDown`; `PersistPause` and `MirrorAssignment`; `PersistDelay` and
`EnqueueDelayed`; `PersistFailure`). `Fault` is a statement that throws into
the handler's catch (`MarkFailed`), after which BullMQ retries.
`Crash` kills a worker between any two steps; `Stalled` gives its job to another one.
`given`, `reached`, `finished` and `brought` are history, written only where the code
accepts a decision, comes to a point, completes, or takes the caller's input; they are what
`HitlGates` talks about.

The engine is abstracted to the *pause points* of the flow in walking order
(`Kind[p]`) and the ways between them: `Leads[g][d]` is the set of points the walk may come to
from gate `g` by decision `d`, `Onward[p]` the same from a delay or the trigger. Any button may lead
on, back, or to no further pause point (`End`), as the author has drawn it; a gate on a branch
that is not taken is skipped, and a loop back that has reached its limit leads on. The sets leave open which way is
taken where conditions decide it. `End` is where the runner writes 'completed', whatever was decided before.
People are `Users`; `MayDecide[p]` stands for the checks on assignee, group, role and
permission. Decisions are "approved", "rejected" (special to the multi-approver
branch) and "revise" for any other button.

Bodies of webhooks and of the execute route reach the engine with whatever keys they hold
(`webhook-openapi.ts:140`, `execution.ts:494`). Three matter to gates and are `Inputs`: `_approved` (with
`_decision`) decides at every gate of a run that is no replay (`engine.ts:1594-1597`), and
`__replayFrom` with a decision in `__replayOutputs` makes the first run itself a replay. `Starts` is where a
run takes them; whether `_approved` gets past a gate to the next one depends on what the nodes
between make of their input, so `PassGate` allows both.

**Refinement.** `KeepsPromise` is `HitlGates`' specification under
`INSTANCE HitlGates WITH ...`, the gates being the pause points of kind "hitl" and its
variables the history variables: what the input brought is submitted (`Submit`) once, before anything
runs. It is checked by run `quorum` and proved.

### TopologicalSort, FlowEngine and NestedRuns

`TopologicalSort` follows the code's two loops and its handling of cycles with a
`stage` and an index `at`, so that there is no recursion and the module can be
proved about. `flow` is a record of nodes (in stored order) and edges.

`FlowEngine` walks over `sorted`. Each step is one iteration of the loop of
`FlowExecutor.execute`: a node is loaded from the saved outputs, is a tool
provider, is skipped (`Filtered`, with the code's rules for labels, cases and
buttons), or runs with one action per outcome. `Decide`, `ResumeDelay` and `Retry`
start the next walk the way approve, the runner and BullMQ do, with exactly what
those carry over: the saved outputs, the decision and the iteration. What a node
computes is left out; `runs` (how often it ran) and the origin of what a person was
shown are history that the properties need.

**Refinement.** `WalkIsDurable` is `DurableWalk`'s specification under `Durable == INSTANCE DurableWalk WITH ...`.
What the author of a flow sees is a list of results that grows (`done`), a status, a decision
still to be applied, and what the walk was last resumed with. The engine has no such list between two jobs: a
pause ends the process, and the next one walks again from the first node. The mapping puts a replay that is still
loading (`beforeHitl`) where it will resume, with the results in its job, so that all its steps there stutter. It is
checked by run `engine_walks` and proved (`ReplaysDoNotShow`).

`NestedRuns` leaves routing out and makes the stack of executors explicit: `stack[i]` is an
executor with the outputs it has (`done`), its replay options and, for a loop, its item. A pause is
thrown from the innermost one: each subflow prefixes its label and closes its row, a loop
swallows it, a parallel node lets its siblings run on (`stray`). `MaxDepth` bounds the nesting
of the trees, as flows refer to each other without a cycle. An id with
colons is a sequence of ids, so that what `replayFrom.split(':')` drops is visible.

### Around the engine

- `ExecutionSteps`: a flow is a line of nodes; two walks over it may overlap. Each `await` of the
  persister is an action (`CloseRows`, `FindRow`, `StoreRow`, `CompleteStep`, `FailStep`);
  `LoseStatement` is one whose error is caught and logged. A job remembers that its worker was `killed`;
  `stranded` are the rows that such a job leaves running when its second attempt fails before it gets to them.
- `AgentLoop`: a text is its number; `cut` are the texts that were truncated, `final` and `partial`
  the code's `finalContent` and `pendingPartial`. The adapters' stop reasons are as they map
  them (Anthropic's `max_tokens` is not taken for a cut). `hub` keeps "dead" connections, as `hub.ts` does.
- `HttpNode`: every lookup may give other addresses; `pinned` are those that were checked.
- `RunEnvironment`: the flow's variables in each kind (static, `core_secret`, `cyberark`), secrets in
  scopes, vaults bound or connected. A resolved value is its source and the version of what it
  came from; `earlier` is the environment of the run before the pause.
- `DebugRuns`: `sandbox`, the run, the map of pauses (`parked`), calls that approve
  (`resuming`) and `teardowns`; a fault may forget who held it.
- `Sandbox`: directories carry an inode number, as one that is removed and made again is not the one
  a helper opened. The helper goes "spawned", "rules", "ruled", "restricted", "running"; the
  kernel is external.

### Routes

- `FlowRoutes`: `saving[r]` is a request between two statements. Calls to the queue are not
  awaited: they are put into `calls` and performed (`PerformCall`) or lost (`LoseCall`) in any order.
  `Reconcile` is a worker's hourly round in three steps: rows, schedulers, repairs. A cron in `Unparsable`
  is saved like any other; the queue refuses it, and a repair that meets it ends the round (`Throws`). A save whose flow
  somebody deletes meanwhile is marked `deleted`: its remaining statements find no row.
- `WebhookCalls` adds the clock, the three limiters with their sweeps (a window is the set of its hits,
  each with the call and its time), and calls: arrival and
  counting, authentication, loading, inserting. The route of the same path in `webhook.ts` is
  mounted second (`index.ts:79-82`) and is never reached.
- `Accounts`: requests are split at their statements. Memberships are counted, as
  `group_members` has no unique index; `alone` says whether anybody else wrote meanwhile.
- `SecretKeys`: a row has the version it claims and the key it was really encrypted with.
- `ChatSessions`, `Knowledge`, `Catalogue`: requests between their statements, with the
  foreign keys that refuse a deletion as guards.

### Browser

- `CoPilot`: a commit of React with its effects is one step. `memory` is the record of conversations in the browser's
  store, in order of their last change (`Saved` writes one under its key and evicts the oldest). `chat` is a turn with what it captured
  when it began; it goes on while the user navigates or logs out. `CoPilotTools` is the registry as a
  table: tools per page, and the permission of the route behind each one beside the panel's own. A call
  of a tool that was not offered is passed over (`RunTool`); one that was and leaves the page is `NavigateTo`.
- `FlowCanvas`: `canvas` and `parent` are the two copies (`synced` what was taken over last), `frame` the pending animation frame,
  `puts` the saves under way. `drawn` is history: what was connected and
  not deleted. Delete on the trigger leaves the node and takes its edges (`DetachesTrigger`).
- `DebugView`: streams are sets of started nodes; `rows` what the overlay shows; `replies` the answers to
  Approve still to come.
- `ApprovalPages`: `listed` what a page shows, `lists` the answers on their way to it, `click` the request of a button.

### MCComponents

Each of these components is explored on its own, in one run: `scope` says which one a behaviour is about;
the others stay as they begin. That is sound because they share no variable except
`FlowRoutes`' rows, which `WebhookCalls` extends, and no property speaks of two of them. It is also proved:
`ComponentsAreThemselves` says that a behaviour of the composition is one of every component.

## 3. Runs

No run checks deadlock: an execution ends, or waits for a person who need not come, a sort
ends, and every counter that would go on for ever has a bound. What has to go on is stated as
liveness (`EventuallySettles`, `WalksEnd`, `SchedulesConverge`, `CallsAreAnswered`,
`StopEndsTurn`, `PendingIsShown`).

| run | instance | shows |
|---|---|---|
| `quorum` | one gate, two of three people, two workers, three calls; inputs with `_approved` for one button or another, with a rejection to replay, or with neither | votes and duplicate resumes in every interleaving never get a run past the gate without a decision taken there or brought (`KeepsPromise`: refinement of `HitlGates`), and a stale write puts no vote into the ballot of a waiting row that its gate was not given, none twice, and no quorum (`OpenBallotIsSound`) |
| `faults` | two workers, one call, two crashes, one failed statement, fairness | `CompletedHasNoSandbox`, `EventuallySettles` |
| `gates` | a gate for two, a delay, a gate whose rejection leads back and whose third button leads to the end; one crash | `DecisionsBacked`, `CompletedWasApproved` (of the first gate: the end can be reached without approving the other), `NoStuckRunning`; delayed jobs are not lost |
| `engine_walks` | about 2300 flows of up to six nodes, and every graph of at most four of fourteen edges on four nodes; one retry, three decisions | the sort respects edges outside cycles and loses no node (`SourcesComeFirst`, `EveryNodeIsPlaced`); routing, replay and loops do what the edges say; pauses, replays and retries do not show (`WalkIsDurable`: refinement of `DurableWalk`); every walk ends |
| `components` | eighteen scopes, below | 25 properties of the components around the execution |
| `ended_runs_again` | violated | a job already queued, or the second of two replays, sets a row that has ended running |
| `replays_original_graph` | violated | a webhook execution replays the graph saved at approval time |
| `untaken_is_skipped` | violated | a feedback edge or a tool edge keeps a node of an untaken branch alive |
| `default_path` | violated | a condition with a default path that takes another branch fails the execution |
| `lost_secret` | violated | a key made during a re-encryption leaves a row that no longer opens |
| `resumed_environment` | violated | after an approval an execution runs without its variables and overrides |
| `unpermitted_tools` | violated | a page that describes itself anew offers its tools unfiltered; four moves: log in, open the panel, go to the page, have it change its tab |

The scopes of `components`, and what a violation would take:

| scope | instance | properties |
|---|---|---|
| schedules | a flow with one of two crons, one that cannot be parsed, or none, and a second flow whose cron may be the unparsable one; three edits, one lost call or broken round | `SchedulesConverge`: in the end each flow has the scheduler of its cron, though upserts and removals overtake each other, the reconciliation acts on lists it read before, and rounds end at the cron of another flow that is corrected later. While some flow keeps a cron that does not parse, nothing is promised (section 6) |
| webhooks | two flows that exchange slugs, two keys, two calls | `AcknowledgedSavesAreCallable`; `RateHolds`: the sliding windows are exact, nobody gets past a limit and nobody is refused before it is reached; `RunsWhatWasAuthenticated`: a run is of the flow whose key was presented |
| nested | six trees of subflows, loops and parallel nodes, one kill, one failure | `StepsRunOnce`: pauses inside subflows do not repeat steps; `SubExecutionsEnd`: each row of a subflow is closed by what is thrown through it |
| steps | a line of two nodes, three walks of which two overlap, one lost statement | `RestLeavesNoStepRunning`, `OneRowPerIteration` |
| debug | two gates, two approvers, two faults | `SandboxHeldOnce`: no order of approval, pause and closed browser loses a sandbox or tears one down under a run |
| sandbox | two executions, three directories, a restart of the sidecar | `CommandsAreConfined`, `CallsAreAnswered` |
| agent | two providers, two servers, two rounds of tools | `NothingTruncatedIsLost` |
| http | a public and a private address, all redirects | `RequestsAreChecked` |
| accounts | one person, two requests, two provider groups | `LoginSyncsGroups` |
| keys | one secret and one vault, two requests, three versions | `SecretsOpen` |
| chat | two overlapping turns, one API key | `HistoryPrecedesQuestion` |
| knowledge | two uploads, two processes, a store registered or removed | `UploadsAreFound` |
| catalogue | two endpoints, two overlapping writes, four in all | `OneDefaultEndpoint` |
| copilot | two users, four pages of which two share a key, a turn with tools: one that is answered, and two that may leave the page | `StopEndsTurn` |
| canvas | three nodes, two changes of the page, undo and redo | `EdgesSurviveSync` |
| overlay | three presses of Run, Approve, Reject or Stop, two subflow runs | `CompletedRunsAreSettled` |
| approvals | inbox or list, two gates, two polls, two pauses, one lost request | `DecidesTheGateShown`, `PendingIsShown` |
| environment | one variable of any kind, one group, one vault, one write, two attempts | `DelaysKeepEnvironment` |

**Bounds and why they are enough.** Workers: two, because a hazard needs a run and
its duplicate; requests: two or three, for two voters and a late one. `MaxCrashes`, `MaxFaults`, `MaxMishaps`, `MaxLost`, `MaxKills` are one: each recovery path is entered once; in `faults` two
crashes, because BullMQ gives a job up that stalls twice, and in the steps two (`MaxBreaks`), a kill and a failure of the
job that was taken again. `MaxDepth` three is a flow in a flow in a flow. A job has three
attempts; `NoStuckRunning` and `CompletedHasNoSandbox` except `GivenUp`: a job that stalled twice, or all of
whose attempts failed at a statement, as the last `catch` swallows the error of recording it. `MaxVersions` of the life cycle is two: an edited graph
is only compared with the original. In `gates` the first gate cannot be passed but by its
approval and `CompletedWasApproved` speaks of it; the second has another way to the end, and the property must not
speak of that one. Inputs with `_approved` are in `quorum`, where such a run completes with no vote at all. In the engine one retry and three
decisions let a loop reach its limit and exceed it by one. A retry may follow a failed walk,
a killed one, or a pause that was stored but not acknowledged. The passing engine run leaves out
the flows of a finding, which has a run of its own with the same property: a feedback or tool edge
into an untaken branch. It also leaves out a delay inside a loop, which starts the count of
`maxIterations` anew (`runner.ts:273-276`). The flow whose default path is not taken is in it, only without
the property it violates, `DefaultPathIsFollowed`.

Of `components`: three key versions let a rotation overlap another; two overlapping writes are what the default
endpoint needs, and two more set the scene before; the clock and the windows (`Minute`
one, `Hour` two) are ticks: the calls come at the last tick before the hourly sweep and at that tick, so that
both sweeps fire, the hourly one on an entry it keeps, and an entry leaves the minute's window;
`MaxDirs` three is a directory, one in its place and another execution's. One approvals page is open at a
time, as pages meet only in the rows: what another page does is `DecideElsewhere`. `GateNode` is the first
node of the line, so that a walk goes on behind it. `MaxPuts` bounds the saves of the editor to one that is
overtaken by another. Constants that only stop a counter are commented in their modules.

**Fairness.** Workers, the queue (promotion of delayed jobs, the stalled check), the
routes that have begun and the reaper are weakly fair: Node's event loop and BullMQ
keep running them while a process is up, and a crashed worker's job is picked up by
the other or by the restarted one. No person, no crash and no fault is fair. A walk of the engine
is weakly fair as a whole: it is one loop of one process. `EventuallySettles` allows an
execution to wait for a person only until the reaper's age limit. In `components`: a save that has
begun goes on, a call to redis is performed or was lost, and reconcilers run every hour
(`setInterval`); the sidecar's timer kills a group, and the pipes of a killed group close; a turn of
the Co-Pilot goes on from each of its awaits, whatever the model answers; the timer of an approvals page asks
every five or thirty seconds and its requests are answered. Nobody has to press anything.

## 4. What is proved

Every invariant the passing runs check, and both refinements, are proved for
every value of the constants; 59 theorems are listed in `PROJECT.json`. Each rests on an inductive invariant, and
each invariant is kept by one lemma per action. The text below names the invariant and why it is needed; the type
theorem of a module (`…Typed`, `…TypeCorrect`) comes from the same one.

### The life of an execution (`ExecutionLifecycleProofs`)

For every number of workers, requests, people, pause points, crashes, faults and versions
(`LifecycleAssumption`: the constants have their types, a gate asks for at least one approval, people are finitely
many, every decision leads somewhere, be it to the end; and an input that decides at one gate decides where it starts the run, or, without `_approved`, where a run
that begins earlier may come to). Nothing is assumed about where decisions lead:

- `TypeCorrect`; `AlwaysBacked` - `Spec => []DecisionsBacked`. This is the inductive invariant. A
  decision may be in four places: in a ballot as votes, in a request that
  has read it, in a job, in a worker's token. The invariant says that
  wherever it is, as many distinct entitled people have taken it at that gate as the gate asks for, or the
  caller's input held it from the start (`Taken`); and that a run is only where the decisions taken so far lead. That is
  said without walking the graph: a set that holds all points to which one may come without the
  approval of a gate holds every point reached, as long as that approval is not taken
  (`WithoutApproval`, `HistoryBacked`). Type correctness alone is not enough: the proof of the step in which a worker leaves a
  gate needs to know about the token, that of the token needs the job, that of the job the
  request, and that of the request the votes it read, which may be stale. A replay job carries `_approved` in its
  input as well; that it decides at no gate but its own rests on `Starts`.
- `CompletedOnlyIfApproved`, from it: a completed execution had every gate approved that its graph does not lead around
  (`Unavoidable`), unless the input held the approval. Where a rejection leads on to the end, or nowhere, nothing follows for
  that gate, and the run does complete: that is the code's behaviour (`runner.ts:207`).
- `OpenBallotsAreSound` (`OpenBallotIsSound`), from it too: the
  stale write of a vote can only put back a ballot of votes that were given at its gate, below its quorum. It does not say
  that no vote is lost, nor that the voters left can still make the quorum; section 6 says why not.
- `LifecycleKeepsPromise` - the life cycle implements `HitlGates`: every step maps to a step of
  it or a stutter. Coming to a point maps to `Come`, which asks that a decision that stands leads there.
- `RestIsSettled`, `CompletedIsTidy` - `NoStuckRunning` and `CompletedHasNoSandbox` speak of states in
  which nobody acts any more, so they are no consequence of what one step does. `SettleInv` says, of every
  state, that a row which is pending or running, and a sandbox set up again after a completion, is *driven*: some
  job is waiting, delayed, or in the hands of a worker who has the write that settles it still before it
  (`GoesOn`), or was given up. That a failing worker has an attempt left needs the count of failed
  statements (`AttemptsPaid`).

### Sort and walk (`TopologicalSortProofs`, `FlowEngineProofs`)

For every flow of every size whose edges join its nodes (`FlowsAreGraphs`): `SortTypeCorrect`,
`SortRespectsEdges`, `LoopedAreLooped` (a node put behind the order is on a cycle or behind one), and
`SortIsPermutation` (the safety half of `EveryNodeIsPlaced`). The inductive invariant is
Kahn's argument: an in-degree is the number of edges whose source has not been taken and visited
(`Counted`), every node of in-degree 0 is queued or taken (`NoneForgotten`), so a taken node has
all its sources before it, and a node never reached has a source never reached.

About the walk, for every flow with handles and kinds of the right type (`FlowsAreRoutable`), any number of
attempts and of decisions (`BoundsAreNumbers`):

- `EngineTypeCorrect`; `DecisionsAreApplied` - when a gate passes, every output before
  it is the saved one, not computed again. `EngineInv` adds: every node the
  walk has passed has an output (`Visits`), so a pause saves one for each node before the paused
  node (`Replayable`); a replay therefore finds all of them and computes nothing until it stands at
  the node it resumes (`Replays`, lemma `NotLoaded`). That needs `SortIsPermutation`'s facts: were a node
  twice in the order, a replay would stop loading too early. Nor may the walk come back over a
  node with the decision in hand, which is why a loop back must consume it.
- `DecisionsAreConsumed`, from `Consumed`: once a walk has been sent back it has no decision left.
- `SortRunsOut`, `WalksRunOut` - the safety halves of `EveryNodeIsPlaced` and `WalksEnd`: each step lowers a tuple of numbers in
  the lexicographic order, which is well founded. For the sort these are the stages ahead, the places to fill (never fewer
  than none, as the nodes in the order are distinct: `OrderFits`), whether a taken node is being visited, and what is
  left of the loop. For a walk they are the loops back `MAX_FEEDBACK_ITERS` still allows, the nodes ahead, and whether it runs; a
  retry begins another walk and is the one step excepted.
- `ReplaysDoNotShow` - the engine implements `DurableWalk`, from `EngineInv`. A step of the engine that computes appends one
  result to those before it and leaves these alone, which needs that no node is twice in the order. What a pause saves is
  exactly the results up to where the walk stands (`Replayable`), so the replay that begins with them maps to the walk that
  waited, and each step of its loading to none, until it stands where it paused with the results it had.
  `Answered` in the abstract walk then says what is left of the decision: it is applied at the step that asked, once, to the
  results that were there when it asked.
- `NothingIsRepeated` (`NeverRepeats`) - `RunsInv`: what is `Ahead` has not run since the flow was last sent back over
  it. For a walk that computes that is the node it is at and those behind it; for a replay that is still loading,
  the node it resumes and those behind that.
- `LoopsEndAtTheirLimit` (`SentBackWithinLimit`) - `LoopsCounted`: the iteration a row stores is ahead of the decisions
  that sent its gate back. A delay starts the count anew, so the theorem is about flows in which a limit
  and a delay do not meet; section 6 says what happens otherwise.
- `UntakenBranchesAreSkipped` - `[](Forward => UntakenIsSkipped)`, for flows whose edges lead forward and
  attach no tools; the others are finding `untaken_is_skipped`. `SkipsInv`: in the walk, and in what a job saved, a
  node up to where it stands is skipped just when no edge from a node that was not skipped was chosen (`Led`).
  `Reached` says the same by recursion over the order. Its defining equation is proved first (`WellFoundedInduction`);
  that the two agree at every node is shown for a least counterexample (`WFMin`), as the library's
  induction theorems take an operator and cannot be used.

### Around the engine (`RunProofs`)

- `SandboxIsHeldOnce` (`DebugRuns`) - `DebugInv`: at most one of the run, the pause, an approving call and a tear-down
  holds the sandbox, and somebody does unless a fault forgot.
- `CommandsStayConfined` (`Sandbox`) - `SandboxInv`: rights are on inodes of one's own execution that were there when the
  rules were made, and an inode number is never used again for another directory.
- `HttpRequestsAreChecked` (`HttpNode`) - `HttpInv`: what is about to be connected to has been checked for this hop, and what
  is about to be sent has a body only under a method that has one.
- `StepsAreTyped`, `NoStepIsLeftRunning`, `StepsHaveOneRow` (`ExecutionSteps`, `None \notin Nat`) - `StepsInv`: a row
  that is shown running is owed its end by a walk that stands there or by a job that will be taken again (`Owed`); while walks do
  not overlap, whoever is about to insert a row has seen that there is none.
- `NestedRunsAreTyped`, `SubExecutionsAreClosed` (`NestedRuns`, for trees nested at most `MaxDepth` deep) - `NestedInv`: the
  open rows are the subflows on the stack, each executor nests in the one below it, and no flow is on the stack twice.
- `StepsNeverRunTwice` - `OnceInv`, for plain trees as in the property: whatever is ahead of an executor and ran before
  is loaded from what the pause saved, at both levels (`RepeatsNothing`), and everything up to it is loaded too.
- `AgentsAreTyped`, `CutTextsAreKept` (`AgentLoop`) - `AgentInv`: what is to be put in front of the next text is all that
  was cut so far, and an output begins with it (`BeginsWith`).
- `EnvironmentsAreTyped`, `EnvironmentsSurviveDelays` (`RunEnvironment`, `EnvNoneAssumption`) - `EnvInv`: the job after a
  delay has the variables of the run before it, and what they resolve to is a function of those, the
  secrets and the vaults.

### Routes (`WebhookProofs`, `CatalogueProofs`)

- `FlowsAreTyped`, `AcknowledgedSavesHold` (`FlowRoutes`, `NoneIsNoRow`) - `FlowInv`: from the statement that makes it on, a save whose
  flow is not deleted has its deployment, and keys name a row there is.
- `RoundsSettleSchedules` (`NoneIsNoScheduler`) - the safety half of `SchedulesConverge`. `Calm` says that no save or call is under way
  and each round is `IsCurrent`: it has the rows as they are, and of each scheduler it has yet to look at, the
  pattern as it is or one that another round has put right since. `Calm` lasts until somebody edits, even
  if rounds are broken off; a scheduler that is right stays right; where a round comes to its end, all are; and a repair ends its round
  before that only if the cron of some flow does not parse. That rounds begun before the
  last save or call come to their end, so that `Calm` is reached at all, needs fairness and is TLC's.
- `CallsAreTyped`, `LimitersHold`, `RunsAreAuthenticated` (`WebhookCalls`, `Limits \subseteq Int`) - `WebhookInv` extends
  `FlowInv`. `RateHolds` has two halves. That nobody exceeds a limit needs `RateKept`: every admitted request that is still
  within the window has its hit, as sweeps remove only older ones. That nobody is refused early needs the converse: a hit
  is that of an admitted request (`HitsAreNewOnlyOf`), and no call has two, so that as many hits are as many requests (`LimitersAreExact`). A call past its authentication carries the flow its
  credential opened, whatever becomes of slugs and keys (`CallOK`); a key that was not live on arrival cannot
  become so later.
- `KeysTypeCorrect`, `SecretsAlwaysOpen` (`SecretKeys`, `SecretKeysAssumption`) - `KeysInv`: the key a save read is a version there is,
  what it will write opens, and a re-encryption under way names the current key unless another
  key was made meanwhile (`raced`), the one case that finding `lost_secret` is about.
- `CatalogueTypeCorrect`, `OneEndpointIsDefault` (`Catalogue`, `RowsAreValues`) - `CatalogueInv`: unless
  two such requests crossed, at most one of them sets the default at a time, and between its two
  statements no row is the default.
- `KnowledgeIsTyped`, `UploadsStayFound` (`Knowledge`) - `KnowledgeInv`: an upload past the insertion of its chunks, and every one that was
  answered, has its chunks in the database as long as no deletion of it has begun.
- `AccountsAreTyped`, `LoginsSyncGroups` (`Accounts`: finitely many groups, `AccountsNoneAssumption`) - `SyncedTo`
  says at each statement of a login or refresh how far its user's memberships agree with the claims:
  joined so far, left so far, cleared, joined again. It is about requests that are `alone` only; that a
  group being made or joined by *others* does not disturb them needs that a group without a row has no members, and that a
  group a login is about to join is the provider's and stays it (`ItemsOK`). That a refresh may compare numbers
  of memberships instead of the memberships is lemma `AsManyAsClaims`, and needs that none is there twice.

### Browser and chat (`ApprovalPagesProofs`)

- `ApprovalPagesTypeCorrect`, `DecisionsAreAboutWhatIsShown` (`ApprovalPages`, `ApprovalPagesAssumption`) - `PagesInv` follows
  the node from where it is read to where it is decided: in a
  list under way or shown, in the request of a button (which names it), and in the entry the backend looks
  up by that name. What the row says by then does not matter, which is why `hitlNodeId` is sent at all.
- `OverlayIsTyped`, `CompletedRunsSettle` (`DebugView`, finitely many nodes) - `OverlayInv`: while runs did not overlap (`mixed`)
  and no loop swallowed a pause, at most one stream or answer is under way (`OneIsHeard`), and it has begun every row that is
  shown as running (`RunningAreHeard`), so that it will also end it.
- `CanvasIsTyped`, `DrawnEdgesStay` (`FlowCanvas`, `CanvasNoneAssumption`) - `CanvasInv`: whatever content the canvas takes over, its
  own edges are in it, or are noted as erased. The invariant is about the contents of both copies, which go
  round through frames, snapshots and saves, and needs that only a draft has no row. Deleting a trigger is one of its steps (`DetachingKeeps`).
- `ChatsAreTyped`, `HistoriesComeBefore` (`ChatSessions`, `ChatNoneAssumption`) - `HistoryOK`: what a turn has read stays the beginning of its
  session as long as the session is not cleared, since messages are only added at the end.

### The composition (`MCComponentsProofs`)

- `ComponentsAreThemselves` - `Spec` implies the specification of each component: its initial states are among the
  composition's, and a step of another scope leaves its variables alone. Every theorem about a component is thereby one
  about the composition. Of the approvals pages it gives the steps without their fairness, as
  a behaviour of another scope does not let their timer run; their safety theorems need no more.
- Flows and webhooks are the exception: in their two scopes they begin with a flow that is already saved, which no `Init` of their own
  modules allows. `FlowsBeginWell` shows that their inductive invariant holds there too, for constants as in
  `BeginningAssumption` (the flow, its editor and the two names are among those there are, an edit and a key are
  allowed, the clock reaches an hour).
- `PanelIsTyped` (`CoPilot`) - `PanelInv`: beside the types, the store has one conversation of a key at most, none longer and no
  more of them than the limits. A conversation that is written under its key therefore takes the place of the one before it (lemmas
  about `Without`, `Newest` and `Saved`), whatever turn goes on while the user navigates, logs out or clears it.
- `ComponentsAreTyped` (`TypeOK`) and `ComponentsAreSafe` (the twenty other invariants of run `components`) follow from these.

### Only model-checked

Liveness, all of it: `EventuallySettles`, `WalksEnd`, `EveryNodeIsPlaced`, `SchedulesConverge`, `CallsAreAnswered`,
`StopEndsTurn`, `PendingIsShown`. The prover cannot reason about `ENABLED`, on which weak fairness rests; of three of them the
part that is about steps is proved (`SortRunsOut`, `WalksRunOut`, `RoundsSettleSchedules`). Also what the seven violated runs show, which are
counterexamples.

Assumptions about `None` (it is not a row, a number or a request) are named where a proof needs them; TLC evaluates all
of them in the runs.

## 5. What is left out

- *Queue*: BullMQ losing the lock of a worker that is alive (it would run one job twice at once; two
  runs of one execution are reached through double approval instead), its
  job removal, and priorities. Jobs of schedulers have one attempt; that a scheduler fires is BullMQ's.
- *Life cycle*: `FlowStopError`, which nothing throws. Which of several ways a decision opens is taken is left to
  the sets `Leads` and `Onward`, and the outputs a caller puts into `__replayOutputs` are not looked into: points before
  `__replayFrom` that have none run first, as `Input` says. `EditFlow` makes a
  new version with the same pause points: a replay of a graph without the gate would run it from the start.
- *Engine*: labels are distinct and edges join nodes of the flow. `MAX_FEEDBACK_ITERS` is kept although it
  cannot be reached: an approval is consumed by the first loop back, so a walk loops at most once. The
  iteration handed to the first replay is 2 when the worker stored the pause (the runner starts at 1 and adds
  one), so `maxIterations = N` allows fewer than N loops; the model does what the code does. What code, map,
  ai-action and merge nodes compute is not modelled.
- *Environment*: debug runs (they keep their context), templates, environments of subflows, Conjur's token cache,
  `enabled` of a binding (the code never asks), secrets of the scope "group" beyond their precedence.
- *Editor*: the effect that warns of duplicate labels (`edit.tsx:152-176`); `handleReject` of `approvals.tsx`, which no
  button calls; layout and dialogs.
- *Conversions*: ciphers, hashes, chunking and similarity, wire formats of providers and of streams, the OpenAPI document.
- *Not modelled*: the other pages (forms over the routes above, with no state that outlives them), the schema and its
  migrations (their enums are the types, their unique indexes and references the guards), Helm, nginx, the tests.

## 6. Behaviour worth knowing

The models do what the code does where that may surprise. What contradicts a doc or a comment is a finding in
`PROJECT.json` with a run; the rest shows as an exception in a property or a guard:

- A loop swallows a pause inside it as an error of the item (`engine.ts:1831`), and `StepsRunOnce` excepts loops, parallel nodes and
  subflows in subflows. Two gates
  in one parallel node take turns for ever, as each replay finds no output of the other (`:1471`). A gate two
  subflows deep is asked again, as its path is cut after the second part (`:1531`).
- A worker that is killed inside a subflow leaves its row 'running' (`SubExecutionsEnd` counts rows by kills).
- A job whose workers die twice fails in the queue, and nothing writes to the row: it stays 'running' (`GivenUp`). When a
  killed job is taken again and fails early, the step rows of the first attempt stay 'running' (`stranded`).
- A HITL node that is reached only over an edge back with an explicit condition is skipped when its decision is
  replayed, as the output of the later node is not among those loaded by then (`engine.ts:377-449`). The editor never sets such a
  condition. `DurableWalk` allows it: a step that asked may be found skipped (`Do`).
- A delay starts the count of a loop's iterations anew (`runner.ts:273-276`), so `maxIterations` holds
  between delays only.
- A save under way while its flow is deleted, and another flow made under the same id, is answered without a
  deployment or key of its own (`AcknowledgedSavesAreCallable` speaks of flows that were not deleted meanwhile).
- `_approved` in the body of a webhook or an execute call decides at every gate of the run, and `__replayFrom` with a decision
  at one (`engine.ts:1582-1597`): the run gets past them with nobody asked. The engine calls it "legacy flow-level approval ...
  kept for direct executes". The gate properties hold of what is decided there *or* brought (`Granted`).
- A rejection of a gate for one person is a button like others: its edge may lead on, or there is none, and the run ends
  'completed' with what was done up to there. Only a gate for several cancels the execution at a rejection (`execution.ts:693`).
- Two votes that cross lose one, as the later writes the ballot it had read (`execution.ts:710`); that person is asked again.
  Votes that neither approve nor reject use up their voters (`:671`): two of three such votes leave a gate for two that nobody
  can approve any more. Such an execution waits until somebody rejects or cancels it or the reaper does.
- A cron is not validated when a flow is saved. One that cannot be parsed ends each round of the reconciliation, for the
  flows behind it too, so a lost upsert of another flow is then never made good: `docs/architecture.md:1012`, "Drift heals
  automatically", holds only while every cron parses (`schedule-reconciliation.ts:31-59`), as `SchedulesConverge` says.
- Delete on the selected trigger of a flow removes its edges, though the node stays (`FlowEditor.tsx:124-129`, `:368`).
- A rejected or cancelled execution keeps its sandbox until the sidecar's age limit (`execution.ts:879`).
- `CompletedRunsAreSettled` excepts runs that overlapped in the overlay: answers and events are not told apart by run.
- Registration counts users before it inserts one, so two first users may both be administrators (`auth.ts:344`). A group
  of the provider with the name of a local one makes the insert fail (`auth.ts:250`).
- The registry of vector stores is one per process and filled at start: what the backend registers later the worker
  does not search (`UploadsAreFound` speaks of processes without an external store).
- The sliding windows are in memory, per process.
- Re-encryption writes over a value saved meanwhile (`encryption.ts:143-151`): the row opens, with the older text.
- A default set by two overlapping requests may leave two defaults (`llm-endpoints.ts:195`).
- In the editor, undoing an added node leaves its edges; a reply to a save replaces settings typed meanwhile; a draft whose
  creation was answered to nobody cannot be saved again.

## 7. Plan

Done: everything in section 2. What would come next:

1. Such measures for the other liveness properties: the turns of the Co-Pilot, the commands of a sandbox, and the life cycle, where a crash or
   a fault may raise one only as often as `MaxCrashes` and `MaxFaults` allow.
2. An abstract specification of schedules (in the end the schedulers are the crons) that `FlowRoutes` implements.
3. A life cycle whose flow may lose or move a pause point between a pause and its replay.
4. Two scopes of `components` at once where they do meet: a debug run with `DebugView`, an approvals page with
   `ExecutionLifecycle`'s requests.
