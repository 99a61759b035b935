------------------------------ MODULE MCComponents ------------------------------
(***************************************************************************)
(* The components that meet only in rows none of their properties speak of, *)
(* each on a small instance of its own: scope says which one a behaviour   *)
(* is about, and the others stay as they begin.                            *)
(***************************************************************************)
EXTENDS WebhookCalls, NestedRuns, ExecutionSteps, DebugRuns, Sandbox, MCAgentLoop, HttpNode,
        Accounts, SecretKeys, ChatSessions, Knowledge, Catalogue, MCCoPilot, FlowCanvas, DebugView,
        ApprovalPages, RunEnvironment

VARIABLE scope

vars == <<scope, webhookVars, nestedVars, stepsVars, debugVars, sandboxVars, agentVars,
          httpVars, accountVars, keyVars, chatVars, knowledgeVars, catalogueVars,
          copilotVars, canvasVars, debugViewVars, approvalVars, envVars>>

Scopes == {"schedules", "webhooks", "nested", "steps", "debug", "sandbox", "agent", "http",
           "accounts", "keys", "chat", "knowledge", "catalogue", "copilot", "canvas", "overlay",
           "approvals", "environment"}

-------------------------------------------------------------------------------
(* Flows and their webhooks: a flow with schedules beside one whose cron may *)
(* be mistyped, or two flows with webhooks, the first of which was deployed *)
(* under the first name before, and nobody called for an hour: the next     *)
(* tick brings the hourly sweep.                                            *)
CONSTANTS n1, n2, f1, f2, ed, u1

ASSUME BeginningAssumption ==
  /\ f1 \in FlowIds /\ ed \in Users /\ {n1, n2} \subseteq Names /\ {Webhook, Manual} \subseteq Triggers
  /\ MaxEdits >= 1 /\ MaxKeys >= 1 /\ Hour <= MaxClock

NoRoles == [u \in Users |-> <<>>]
Daily == Schedule("daily", "m1")
Hourly == Schedule("hourly", "m2")
Mistyped == Schedule("every day", "m1")
SomeTriggers == {Webhook, Manual, Daily, Hourly, Mistyped}

FirstHasSecret == [f \in FlowIds |-> IF f = f1 THEN "s1" ELSE None]

Deployed ==
  /\ \E other \in {None, [name |-> n2, trigger |-> Manual, group |-> None, owner |-> ed]} :
       flow = [f \in FlowIds |-> IF f # f1 THEN other
                 ELSE [name |-> n1, trigger |-> Webhook, group |-> None, owner |-> ed]]
  /\ deployment = [f \in FlowIds |-> IF f = f1 THEN [slug |-> n1, limit |-> 0] ELSE NoDeployment]
  /\ apiKey = [f \in FlowIds |-> [u \in Users |->
                 IF f = f1 /\ u = ed THEN [hash |-> <<f1, 1>>, enabled |-> TRUE] ELSE None]]
  /\ saved = {<<f1, ed>>} /\ edits = 1 /\ keys = 1

NotDeployed ==
  /\ flow = [f \in FlowIds |-> None]
  /\ deployment = [f \in FlowIds |-> NoDeployment]
  /\ apiKey = [f \in FlowIds |-> [u \in Users |-> None]]
  /\ saved = {} /\ edits = 0 /\ keys = 0

FlowsBegin ==
  /\ IF scope = "webhooks" THEN Deployed ELSE NotDeployed
  /\ saving = [r \in HttpRequests |-> None]
  /\ scheduler = [f \in FlowIds |-> None]
  /\ calls = {} /\ mishaps = 0
  /\ round = [w \in Reconcilers |-> Idle]
  /\ clock = Hour /\ called = 0 /\ runs = <<>> /\ accepted = <<>>
  /\ limiters = [l \in Limiters |-> [hits |-> [k \in LimiterKeys |-> {}], swept |-> 0]]
  /\ call = [c \in Callers |-> None]

Requested(Asked(_)) == \A r \in HttpRequests : saving'[r] # None => Asked(saving'[r])
OfSchedules(s) ==
  s.body # None => \/ s.flow = f1 /\ s.body.name = n1 /\ s.body.trigger # Webhook
                   \/ s.flow = f2 /\ s.body.name = n2 /\ s.body.trigger \in {Mistyped, Manual}
OfWebhooks(s) == s.body # None => s.body.trigger = Webhook

SchedulesNext == FlowNext /\ Requested(OfSchedules) /\ UNCHANGED callVars
WebhooksNext ==
  /\ UNCHANGED <<round, mishaps>> /\ WebhookNext /\ Requested(OfWebhooks)
  /\ saving'[2] # None => saving'[2].op = "unschedule"

-------------------------------------------------------------------------------
(* Flows in flows: gates and delays in a subflow, in two subflows, in a    *)
(* parallel node, in a loop, in a subflow in a loop, in a loop in a subflow. *)
SomeNodes == {"s", "c", "g", "d", "sub", "p"}
Tree(kind, body, items) ==
  [kind |-> kind @@ [n \in SomeNodes |-> "step"],
   body |-> body @@ [n \in SomeNodes \cup {Top} |-> <<>>], items |-> items]
SomeTrees == {
  Tree("sub" :> "subflow" @@ "g" :> "gate" @@ "d" :> "delay" @@ "p" :> "gate",
       Top :> <<"s", "sub", "p">> @@ "sub" :> <<"c", "g", "d">>, 1),
  Tree("sub" :> "subflow" @@ "p" :> "subflow" @@ "g" :> "gate" @@ "d" :> "delay",
       Top :> <<"p", "s", "sub">> @@ "sub" :> <<"c", "g">> @@ "p" :> <<"d">>, 1),
  Tree("p" :> "parallel" @@ "g" :> "gate", Top :> <<"s", "p">> @@ "p" :> <<"c", "g", "d">>, 1),
  Tree("p" :> "loop" @@ "g" :> "gate" @@ "d" :> "gate",
       Top :> <<"g", "p", "s">> @@ "p" :> <<"c", "d">>, 2),
  Tree("p" :> "loop" @@ "sub" :> "subflow" @@ "g" :> "gate",
       Top :> <<"p", "g">> @@ "p" :> <<"c", "sub">> @@ "sub" :> <<"d", "s">>, 2),
  Tree("sub" :> "subflow" @@ "p" :> "loop" @@ "d" :> "delay" @@ "g" :> "gate",
       Top :> <<"sub">> @@ "sub" :> <<"p", "g">> @@ "p" :> <<"s", "d">>, 2)}
AnyTree == CHOOSE t \in SomeTrees : TRUE

-------------------------------------------------------------------------------
(* The canvas: a flow that was saved with all of its nodes and no edge.     *)
MaxPuts == 2
Unconnected == {Content({NewNode(n) : n \in NodeIds}, {})}

-------------------------------------------------------------------------------
(* One page, the inbox or the list, within reach of every execution.       *)
AllInReach == [w \in Windows |-> PausedExecs]

-------------------------------------------------------------------------------
(* A flow of a group that has a vault, and secrets in every scope.          *)
OfGroup ==
  /\ flowRow.group # None /\ connected = {} /\ \A o \in SecretScopes : secretAt[o] # None
  /\ \A g \in EnvGroups : boundVault[g] # None
Unset == OfGroup /\ \A n \in EnvNames : flowRow.vars[n] = None

-------------------------------------------------------------------------------
(* A component that varies where it begins does so in its scope only.       *)
Init ==
  /\ scope \in Scopes
  /\ FlowsBegin
  /\ NestedInit /\ (scope = "nested" \/ tree = AnyTree)
  /\ StepsInit /\ DebugInit /\ SandboxInit
  /\ AgentInit /\ (scope = "agent" \/ providerType = "openai")
  /\ HttpInit /\ (scope = "http" \/ ~(allowPrivate \/ followRedirects \/ request.method = "POST"))
  /\ AccountsInit /\ (scope = "accounts" \/ GroupsOf("local") = {})
  /\ KeysInit /\ (scope = "keys" \/ versions = {})
  /\ ChatInit
  /\ KnowledgeInit /\ (storeRows = {} \/ (scope = "knowledge" /\ storeRows = {Searched}))
  /\ CatalogueInit /\ (scope = "catalogue" \/ \A u \in DOMAIN administers : administers[u] = {})
  /\ CoPilotInit
  /\ CanvasInit /\ settings = u1 /\ (scope = "canvas" \/ isDraft)
  /\ DebugViewInit /\ (scope = "overlay" \/ canvasNow = {})
  /\ ApprovalPagesInit /\ Cardinality(opened) = IF scope = "approvals" THEN 1 ELSE 0
  /\ EnvInit /\ (IF scope = "environment" THEN OfGroup ELSE Unset)

Next ==
  /\ UNCHANGED scope
  /\ IF scope = "schedules" THEN SchedulesNext
     ELSE IF scope = "webhooks" THEN WebhooksNext ELSE UNCHANGED webhookVars
  /\ IF scope = "nested" THEN NestedNext ELSE UNCHANGED nestedVars
  /\ IF scope = "steps" THEN StepsNext ELSE UNCHANGED stepsVars
  /\ IF scope = "debug" THEN DebugNext ELSE UNCHANGED debugVars
  /\ IF scope = "sandbox" THEN SandboxNext ELSE UNCHANGED sandboxVars
  /\ IF scope = "agent" THEN AgentNext ELSE UNCHANGED agentVars
  /\ IF scope = "http" THEN HttpNext ELSE UNCHANGED httpVars
  /\ IF scope = "accounts" THEN AccountsNext ELSE UNCHANGED accountVars
  /\ IF scope = "keys" THEN KeysNext ELSE UNCHANGED keyVars
  /\ IF scope = "chat" THEN ChatNext ELSE UNCHANGED chatVars
  /\ IF scope = "knowledge" THEN KnowledgeNext ELSE UNCHANGED knowledgeVars
  /\ IF scope = "catalogue" THEN CatalogueNext ELSE UNCHANGED catalogueVars
  /\ IF scope = "copilot" THEN CoPilotNext ELSE UNCHANGED copilotVars
  /\ IF scope = "canvas" THEN CanvasNext /\ Cardinality(puts') <= MaxPuts ELSE UNCHANGED canvasVars
  /\ IF scope = "overlay" THEN DebugViewNext ELSE UNCHANGED debugViewVars
  /\ IF scope = "approvals" THEN ApprovalPagesNext ELSE UNCHANGED approvalVars
  /\ IF scope = "environment" THEN EnvNext ELSE UNCHANGED envVars

(* What the components' own specifications are fair to.                     *)
In(s, Action) == scope = s /\ Action

Fairness ==
  /\ \A r \in HttpRequests : WF_flowVars(In("schedules", HandleSave(r)))
  /\ WF_flowVars(In("schedules", PerformCall))
  /\ \A w \in Reconcilers : WF_flowVars(In("schedules", Reconcile(w)))
  /\ \A s \in Slots : WF_sandboxVars(In("sandbox", KillGroup(s)))
                        /\ WF_sandboxVars(In("sandbox", CloseCommand(s)))
  /\ WF_copilotVars(In("copilot", TurnStep))
  /\ \A w \in Windows : WF_approvalVars(In("approvals", Ask(w)))
                         /\ WF_approvalVars(In("approvals", ListPending(w)))
                         /\ WF_approvalVars(In("approvals", ShowList(w)))

Spec == Init /\ [][Next]_vars /\ Fairness

(* Types of all variables. *)
TypeOK ==
  /\ scope \in Scopes
  /\ FlowTypeOK /\ WebhookTypeOK /\ NestedTypeOK /\ StepsTypeOK /\ DebugTypeOK /\ SandboxTypeOK
  /\ AgentTypeOK /\ HttpTypeOK /\ AccountsTypeOK /\ KeysTypeOK /\ ChatTypeOK /\ KnowledgeTypeOK
  /\ CatalogueTypeOK /\ CoPilotTypeOK /\ CanvasTypeOK /\ DebugViewTypeOK /\ ApprovalPagesTypeOK
  /\ EnvTypeOK
================================================================================
