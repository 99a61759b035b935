------------------------------ MODULE FlowRoutes ------------------------------
(***************************************************************************)
(* The rows of flows and what saving a flow registers elsewhere            *)
(* (src/backend/src/routes/flows.ts): its webhook deployment and the       *)
(* editor's API key, and the job scheduler of a cron trigger, with the     *)
(* worker's reconciliation of schedulers against rows                      *)
(* (src/worker/src/schedule-reconciliation.ts).                            *)
(*                                                                         *)
(* A handler is one action per database await, with the values it read     *)
(* kept in its request. Calls to the queue are not awaited: they wait in a *)
(* set and are performed, or fail and are logged, in any order. A flow has *)
(* one trigger; name and slug are the same model value.                    *)
(***************************************************************************)
EXTENDS Integers, FiniteSets, NoValue

CONSTANTS
  FlowIds, Users, Names, Groups,
  SystemAdmins,   \* users with the 'admin' permission
  Role,           \* Role[u][g]: "none", "member" or "admin"
  Triggers,       \* what editors put on the trigger node
  Unparsable,     \* the crons the queue throws for: saving does not check them
  HttpRequests,   \* requests in progress at once
  Reconcilers,    \* workers: each reconciles schedules on its own
  MaxEdits,       \* bound: POST, PUT and DELETE requests
  MaxKeys,        \* bound: API keys generated
  MaxMishaps      \* bound: failed calls, failed statements, worker restarts

Webhook == [kind |-> "webhook"]
Manual == [kind |-> "manual"]
Schedule(cron, message) == [kind |-> "schedule", cron |-> cron, message |-> message]

ASSUME TriggersAssumption ==
  /\ None \notin Unparsable
  /\ \A t \in Triggers :
       \/ t \in {Webhook, Manual}
       \/ t = Schedule(t.cron, t.message)
ASSUME FlowBoundsAssumption ==
  MaxEdits \in Nat /\ MaxKeys \in Nat /\ MaxMishaps \in Nat
ASSUME NoneIsNoRow ==
  None \notin Names /\ None \notin [hash : FlowIds \X Nat, enabled : BOOLEAN]

VARIABLES
  flow,       \* flow[f]: the row, or None
  deployment, \* deployment[f]: path slug and rate limit, or None
  apiKey,     \* apiKey[f][u]: [hash, enabled], or None
  saving,     \* saving[r]: a request in progress, or None
  scheduler,  \* scheduler[f]: the queue's job scheduler, or None
  calls,      \* calls to the queue nobody waits for
  round,      \* round[w]: the reconciliation round of worker w
  edits,      \* requests so far
  keys,       \* API keys generated so far
  mishaps,    \* misfortunes so far
  saved       \* history: <<f, u>> whose webhook save was answered 2xx, unless the flow
              \* was deleted, and made again under its id, while it was saved

flowVars == <<flow, deployment, apiKey, saving, scheduler, calls, round,
              edits, keys, mishaps, saved>>

Cron(t) == IF t.kind = "schedule" THEN t.cron ELSE None
Message(t) == IF t.kind = "schedule" THEN t.message ELSE None
ASSUME NoneIsNoScheduler ==
  \A t \in Triggers : None # [pattern |-> Cron(t), message |-> Message(t)]

Exists(f) == flow[f] # None
Idle == [pc |-> "idle"]
NoDeployment == [slug |-> None, limit |-> 0]

FlowInit ==
  /\ flow = [f \in FlowIds |-> None]
  /\ deployment = [f \in FlowIds |-> NoDeployment]
  /\ apiKey = [f \in FlowIds |-> [u \in Users |-> None]]
  /\ saving = [r \in HttpRequests |-> None]
  /\ scheduler = [f \in FlowIds |-> None]
  /\ calls = {}
  /\ round = [w \in Reconcilers |-> Idle]
  /\ edits = 0 /\ keys = 0 /\ mishaps = 0
  /\ saved = {}

-------------------------------------------------------------------------------
(* Who may do what *)

CanAccessFlow(u, row) ==
  \/ u \in SystemAdmins
  \/ row.owner = u
  \/ row.group = None
  \/ row.group # None /\ Role[u][row.group] # "none"

CanManageFlow(u, row) ==
  \/ u \in SystemAdmins
  \/ row.owner = u
  \/ row.group # None /\ Role[u][row.group] = "admin"

NameTaken(name, f) == \E g \in FlowIds \ {f} : Exists(g) /\ flow[g].name = name

Bodies == [name : Names, trigger : Triggers, group : Groups \cup {None}]

-------------------------------------------------------------------------------
(* Hooks shared by POST and PUT *)

(* The un-awaited upsert of a saved cron. The update hook compares the row  *)
(* it has just written with itself, so it never removes a scheduler.       *)
ScheduleCalls(f, trigger) ==
  IF Cron(trigger) = None THEN {}
  ELSE {[op |-> "upsert", flow |-> f, edit |-> edits,
         pattern |-> Cron(trigger), message |-> Message(trigger)]}

Step(r, pc) == saving' = [saving EXCEPT ![r].pc = pc]
Reply(r) == saving' = [saving EXCEPT ![r] = None]
Acknowledge(r) ==
  /\ Reply(r)
  /\ saved' = IF saving[r].deleted THEN saved
              ELSE saved \cup {<<saving[r].flow, saving[r].user>>}

Receive(r, op, f, u, body) ==
  /\ saving[r] = None
  /\ edits < MaxEdits /\ edits' = edits + 1
  /\ saving' = [saving EXCEPT ![r] =
                  [pc |-> op, op |-> op, flow |-> f, user |-> u, body |-> body,
                   deleted |-> FALSE]]

(* POST and PUT after the row is written: a webhook goes on to its         *)
(* deployment, anything else registers its schedule and answers.           *)
AfterWrite(r) ==
  LET f == saving[r].flow
      trigger == saving[r].body.trigger
  IN  IF trigger = Webhook
      THEN Step(r, "deploy") /\ UNCHANGED calls
      ELSE Reply(r) /\ calls' = calls \cup ScheduleCalls(f, trigger)

-------------------------------------------------------------------------------
(* POST /api/flows *)

CheckCreate(r, f, u, body) ==
  /\ ~NameTaken(body.name, None)
  /\ Receive(r, "insert", f, u, body)
  /\ UNCHANGED <<flow, deployment, apiKey, scheduler, calls, round, keys, mishaps, saved>>

(* The id is the client's: inserting one that exists is an error.          *)
InsertFlow(r) ==
  /\ saving[r] # None /\ saving[r].pc = "insert"
  /\ LET f == saving[r].flow IN
     \/ Exists(f) /\ Reply(r) /\ UNCHANGED <<flow, calls>>
     \/ /\ ~Exists(f)
        /\ flow' = [flow EXCEPT ![f] =
             [name |-> saving[r].body.name, trigger |-> saving[r].body.trigger,
              group |-> saving[r].body.group, owner |-> saving[r].user]]
        /\ AfterWrite(r)
  /\ UNCHANGED <<deployment, apiKey, scheduler, round, edits, keys, mishaps, saved>>

(* PUT /api/flows/:id *)

CheckUpdate(r, f, u, body) ==
  /\ Exists(f) /\ CanAccessFlow(u, flow[f])
  /\ ~NameTaken(body.name, f)
  /\ Receive(r, "update", f, u, body)
  /\ UNCHANGED <<flow, deployment, apiKey, scheduler, calls, round, keys, mishaps, saved>>

UpdateFlow(r) ==
  /\ saving[r] # None /\ saving[r].pc = "update"
  /\ LET f == saving[r].flow IN
     \/ ~Exists(f) /\ Reply(r) /\ UNCHANGED <<flow, calls>>
     \/ /\ Exists(f)
        /\ flow' = [flow EXCEPT ![f].name = saving[r].body.name,
                                ![f].trigger = saving[r].body.trigger,
                                ![f].group = saving[r].body.group]
        /\ AfterWrite(r)
  /\ UNCHANGED <<deployment, apiKey, scheduler, round, edits, keys, mishaps, saved>>

(* The deployment is inserted under the slug of the name unless the flow   *)
(* has one. A slug some other flow has, or a flow deleted meanwhile, is an  *)
(* error: the row stays as written.                                        *)
SlugTaken(slug, f) == \E g \in FlowIds \ {f} : deployment[g].slug = slug

(* Mutation: the conflict is ignored, as by INSERT ... ON CONFLICT DO NOTHING. *)
DeployIgnoringConflict(r) ==
  /\ saving[r] # None /\ saving[r].pc = "deploy"
  /\ LET f == saving[r].flow
         slug == saving[r].body.name
     IN deployment' = IF deployment[f].slug = None /\ Exists(f) /\ ~SlugTaken(slug, f)
                      THEN [deployment EXCEPT ![f] = [slug |-> slug, limit |-> 0]]
                      ELSE deployment
  /\ Step(r, "key")
  /\ UNCHANGED <<flow, apiKey, scheduler, calls, round, edits, keys, mishaps, saved>>

Deploy(r) ==
  /\ saving[r] # None /\ saving[r].pc = "deploy"
  /\ LET f == saving[r].flow
         slug == saving[r].body.name
     IN
     \/ deployment[f].slug # None /\ Step(r, "key") /\ UNCHANGED deployment
     \/ /\ deployment[f].slug = None /\ Exists(f) /\ ~SlugTaken(slug, f)
        /\ deployment' = [deployment EXCEPT ![f] = [slug |-> slug, limit |-> 0]]
        /\ Step(r, "key")
     \/ /\ deployment[f].slug = None /\ (~Exists(f) \/ SlugTaken(slug, f))
        /\ Reply(r) /\ UNCHANGED deployment
  /\ UNCHANGED <<flow, apiKey, scheduler, calls, round, edits, keys, mishaps, saved>>

(* A hash names no flow; here it is numbered within the flow it was made    *)
(* for, so that properties can tell whose it is.                           *)
NewKey(f) == [hash |-> <<f, keys + 1>>, enabled |-> TRUE]

(* POST inserts the key unless there is one; PUT looks first.              *)
EnsureKey(r) ==
  /\ saving[r] # None /\ saving[r].pc = "key"
  /\ LET f == saving[r].flow
         u == saving[r].user
     IN
     \/ Exists(f) /\ apiKey[f][u] # None /\ Acknowledge(r) /\ UNCHANGED <<apiKey, keys>>
     \/ /\ apiKey[f][u] = None /\ saving[r].op = "update"
        /\ Step(r, "insertKey") /\ UNCHANGED <<apiKey, keys, saved>>
     \/ /\ apiKey[f][u] = None /\ saving[r].op = "insert" /\ Exists(f)
        /\ keys < MaxKeys /\ keys' = keys + 1
        /\ apiKey' = [apiKey EXCEPT ![f][u] = NewKey(f)]
        /\ Acknowledge(r)
     \/ ~Exists(f) /\ saving[r].op = "insert" /\ Reply(r) /\ UNCHANGED <<apiKey, keys, saved>>
  /\ UNCHANGED <<flow, deployment, scheduler, calls, round, edits, mishaps>>

(* A second save by the same user that inserted its key first, or a flow   *)
(* deleted meanwhile, makes the insert fail.                               *)
InsertKey(r) ==
  /\ saving[r] # None /\ saving[r].pc = "insertKey"
  /\ LET f == saving[r].flow
         u == saving[r].user
     IN
     \/ /\ Exists(f) /\ apiKey[f][u] = None
        /\ keys < MaxKeys /\ keys' = keys + 1
        /\ apiKey' = [apiKey EXCEPT ![f][u] = NewKey(f)]
        /\ Acknowledge(r)
     \/ (~Exists(f) \/ apiKey[f][u] # None) /\ Reply(r) /\ UNCHANGED <<apiKey, keys, saved>>
  /\ UNCHANGED <<flow, deployment, scheduler, calls, round, edits, mishaps>>

-------------------------------------------------------------------------------
(* DELETE /api/flows/:id *)

CheckDelete(r, f, u) ==
  /\ Exists(f) /\ CanManageFlow(u, flow[f])
  /\ Receive(r, "unschedule", f, u, None)
  /\ UNCHANGED <<flow, deployment, apiKey, scheduler, calls, round, keys, mishaps, saved>>

(* The removal is asked for only if the row, as it is now, has a cron.     *)
Unschedule(r) ==
  /\ saving[r] # None /\ saving[r].pc = "unschedule"
  /\ Step(r, "delete")
  /\ LET f == saving[r].flow IN
     calls' = IF Exists(f) /\ Cron(flow[f].trigger) # None
              THEN calls \cup {[op |-> "remove", flow |-> f, edit |-> edits,
                                pattern |-> None, message |-> None]}
              ELSE calls
  /\ UNCHANGED <<flow, deployment, apiKey, scheduler, round, edits, keys, mishaps, saved>>

(* One transaction; it is rolled back if a statement fails (a chat         *)
(* deployment still refers to the flow, the database errs) or the row is   *)
(* gone. Deployment and keys go with the row.                              *)
DeleteFlow(r) ==
  /\ saving[r] # None /\ saving[r].pc = "delete"
  /\ LET f == saving[r].flow IN
     \/ /\ Exists(f)
        /\ flow' = [flow EXCEPT ![f] = None]
        /\ saving' = [q \in HttpRequests |->
             IF q = r THEN None
             ELSE IF saving[q] # None /\ saving[q].flow = f THEN [saving[q] EXCEPT !.deleted = TRUE]
             ELSE saving[q]]
        /\ deployment' = [deployment EXCEPT ![f] = NoDeployment]
        /\ apiKey' = [apiKey EXCEPT ![f] = [u \in Users |-> None]]
        /\ saved' = {s \in saved : s[1] # f}
        /\ UNCHANGED mishaps
     \/ ~Exists(f) /\ Reply(r) /\ UNCHANGED <<flow, deployment, apiKey, mishaps, saved>>
     \/ /\ mishaps < MaxMishaps /\ mishaps' = mishaps + 1 /\ Reply(r)
        /\ UNCHANGED <<flow, deployment, apiKey, saved>>
  /\ UNCHANGED <<scheduler, calls, round, edits, keys>>

-------------------------------------------------------------------------------
(* The queue *)

(* A cron that does not parse is thrown for, and logged.                   *)
Perform(c) ==
  /\ scheduler' = [scheduler EXCEPT ![c.flow] =
       IF c.op = "remove" THEN None
       ELSE IF c.pattern \in Unparsable THEN @
       ELSE [pattern |-> c.pattern, message |-> c.message]]

PerformCall ==
  /\ \E c \in calls : Perform(c) /\ calls' = calls \ {c}
  /\ UNCHANGED <<flow, deployment, apiKey, saving, round, edits, keys, mishaps, saved>>

(* The queue does not answer, or the backend dies: logged at best.         *)
LoseCall ==
  /\ mishaps < MaxMishaps /\ mishaps' = mishaps + 1
  /\ \E c \in calls : calls' = calls \ {c}
  /\ UNCHANGED <<flow, deployment, apiKey, saving, scheduler, round, edits, keys, saved>>

(* A round of reconcileSchedules: the rows, then the schedulers, then one  *)
(* awaited call per row that differs, in the order the rows were read in,  *)
(* which nothing sets.                                                     *)
ReadFlows(w) ==
  /\ round[w].pc = "idle"
  /\ round' = [round EXCEPT ![w] =
       [pc |-> "schedulers",
        crons |-> [f \in {g \in FlowIds : Exists(g)} |-> flow[f].trigger]]]
  /\ UNCHANGED <<flow, deployment, apiKey, saving, scheduler, calls, edits, keys, mishaps, saved>>

Pattern(f) == IF scheduler[f] = None THEN None ELSE scheduler[f].pattern

ReadSchedulers(w) ==
  /\ round[w].pc = "schedulers"
  /\ round' = [round EXCEPT ![w] =
       [pc |-> "repair", crons |-> round[w].crons,
        known |-> [f \in FlowIds |-> Pattern(f)]]]
  /\ UNCHANGED <<flow, deployment, apiKey, saving, scheduler, calls, edits, keys, mishaps, saved>>

(* Only the patterns are compared: an old message is left as it is.        *)
(* Mutation: a flow without a schedule is passed over.                     *)
CorrectedWithoutRemoval(old, trigger, known) ==
  IF Cron(trigger) \in {known, None} THEN old
  ELSE [pattern |-> Cron(trigger), message |-> Message(trigger)]

Corrected(old, trigger, known) ==
  IF Cron(trigger) = known THEN old
  ELSE IF Cron(trigger) = None THEN None
  ELSE [pattern |-> Cron(trigger), message |-> Message(trigger)]

(* One try spans the loop: a cron that cannot be parsed ends the round, and *)
(* the rows after it are not looked at.                                    *)
Throws(trigger, known) == Cron(trigger) \in Unparsable \ {known}

RepairOne(w) ==
  /\ round[w].pc = "repair"
  /\ \E f \in DOMAIN round[w].crons :
       \/ /\ Throws(round[w].crons[f], round[w].known[f])
          /\ round' = [round EXCEPT ![w] = Idle]
          /\ UNCHANGED scheduler
       \/ /\ ~Throws(round[w].crons[f], round[w].known[f])
          /\ round' = [round EXCEPT ![w].crons =
               [g \in DOMAIN round[w].crons \ {f} |-> round[w].crons[g]]]
          /\ scheduler' = [scheduler EXCEPT ![f] =
               Corrected(@, round[w].crons[f], round[w].known[f])]
  /\ UNCHANGED <<flow, deployment, apiKey, saving, calls, edits, keys, mishaps, saved>>

EndRound(w) ==
  /\ round[w].pc = "repair" /\ DOMAIN round[w].crons = {}
  /\ round' = [round EXCEPT ![w] = Idle]
  /\ UNCHANGED <<flow, deployment, apiKey, saving, scheduler, calls, edits, keys, mishaps, saved>>

Reconcile(w) == ReadFlows(w) \/ ReadSchedulers(w) \/ RepairOne(w) \/ EndRound(w)

(* An error or a restart ends the round where it is.                       *)
BreakRound(w) ==
  /\ round[w].pc # "idle"
  /\ mishaps < MaxMishaps /\ mishaps' = mishaps + 1
  /\ round' = [round EXCEPT ![w] = Idle]
  /\ UNCHANGED <<flow, deployment, apiKey, saving, scheduler, calls, edits, keys, saved>>

-------------------------------------------------------------------------------
HandleSave(r) ==
  \/ InsertFlow(r) \/ UpdateFlow(r) \/ Deploy(r) \/ EnsureKey(r) \/ InsertKey(r)
  \/ Unschedule(r) \/ DeleteFlow(r)

Edit ==
  \E r \in HttpRequests, f \in FlowIds, u \in Users :
    \/ \E body \in Bodies : CheckCreate(r, f, u, body)
    \/ \E body \in Bodies : CheckUpdate(r, f, u, body)
    \/ CheckDelete(r, f, u)

FlowNext ==
  \/ Edit
  \/ \E r \in HttpRequests : HandleSave(r)
  \/ PerformCall \/ LoseCall
  \/ \E w \in Reconcilers : Reconcile(w) \/ BreakRound(w)

FlowSpec == FlowInit /\ [][FlowNext]_flowVars

(* The backend finishes the requests it began and its connection delivers   *)
(* what was sent; every worker starts a round an hour after the last.      *)
FlowFairness ==
  /\ \A r \in HttpRequests : WF_flowVars(HandleSave(r))
  /\ WF_flowVars(PerformCall)
  /\ \A w \in Reconcilers : WF_flowVars(Reconcile(w))

FlowFairSpec == FlowSpec /\ FlowFairness

-------------------------------------------------------------------------------
(* Types of the variables. *)
Row == [name : Names, trigger : Triggers, group : Groups \cup {None}, owner : Users]
FlowTypeOK ==
  /\ flow \in [FlowIds -> Row \cup {None}]
  /\ \A f \in FlowIds : deployment[f].slug \in Names \cup {None}
  /\ \A f \in FlowIds, u \in Users :
       apiKey[f][u] \in [hash : {f} \X (1..keys), enabled : BOOLEAN] \cup {None}
  /\ \A r \in HttpRequests : saving[r] # None =>
       saving[r].pc \in {"insert", "update", "deploy", "key", "insertKey", "unschedule", "delete"}
  /\ \A c \in calls : c.op \in {"upsert", "remove"} /\ c.flow \in FlowIds
  /\ \A w \in Reconcilers : round[w].pc \in {"idle", "schedulers", "repair"}
  /\ saved \subseteq FlowIds \X Users

(* Whoever was answered 2xx when saving a webhook flow has a deployment and *)
(* a key of their own (it may have been revoked since), for as long as the *)
(* flow exists, whatever slugs collide, keys are inserted twice or saves   *)
(* race with deletions.                                                    *)
AcknowledgedSavesAreCallable ==
  \A s \in saved : deployment[s[1]].slug # None /\ apiKey[s[1]][s[2]] # None

Parses(f) == Exists(f) => Cron(flow[f].trigger) \notin Unparsable
Agrees(f) == Exists(f) => Pattern(f) = Cron(flow[f].trigger)

(* Once editing stops, every flow that exists ends up with the scheduler    *)
(* its cron asks for, whatever calls were lost or overtaken and whatever    *)
(* rounds were broken off, threw for a cron that has been corrected since  *)
(* or acted on what they had read too early - provided no flow is left     *)
(* with a cron the queue cannot parse.                                     *)
SchedulesConverge ==
  <>[]((\A f \in FlowIds : Parses(f)) => \A f \in FlowIds : Agrees(f))
===============================================================================
