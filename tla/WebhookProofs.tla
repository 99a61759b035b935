----------------------------- MODULE WebhookProofs -----------------------------
(***************************************************************************)
(* About the rows of flows and the webhook calls served beside them, for   *)
(* any number of flows, users, requests and calls: an acknowledged save is *)
(* callable, a call runs only what its credential opened, and a limiter    *)
(* never lets more through than its limit.                                 *)
(***************************************************************************)
EXTENDS WebhookCalls, FiniteSetTheorems, SequenceTheorems, TLAPS

SaveStages == {"insert", "update", "deploy", "key", "insertKey", "unschedule", "delete"}
Writing == {"insert", "update", "deploy", "key", "insertKey"}
SaveRequest ==
  [pc : SaveStages, op : SaveStages, flow : FlowIds, user : Users, body : Bodies \cup {None},
   deleted : BOOLEAN]
Deployment == [slug : Names \cup {None}, limit : Limits \cup {0}]
KeyRow == [hash : FlowIds \X Nat, enabled : BOOLEAN]

(* The rows, and the number of keys made so far: a key row has the flow it *)
(* was made for in its hash, and a number already given out.               *)
FlowRowsOK ==
  /\ flow \in [FlowIds -> Row \cup {None}]
  /\ deployment \in [FlowIds -> Deployment]
  /\ apiKey \in [FlowIds -> [Users -> KeyRow \cup {None}]]
  /\ keys \in 0..MaxKeys

HashesOK ==
  \A f \in FlowIds, u \in Users :
    apiKey[f][u] # None => apiKey[f][u].hash \in {f} \X (1..keys)

SavingOK ==
  /\ DOMAIN saving = HttpRequests
  /\ \A r \in HttpRequests : saving[r] # None =>
       /\ saving[r] \in SaveRequest
       /\ saving[r].pc \in Writing => saving[r].body \in Bodies

QueueOK ==
  /\ \A c \in calls : c.op \in {"upsert", "remove"} /\ c.flow \in FlowIds
  /\ DOMAIN round = Reconcilers
  /\ \A w \in Reconcilers :
       "pc" \in DOMAIN round[w] /\ round[w].pc \in {"idle", "schedulers", "repair"}

(* What a save has done for its flow before it ensures the key, unless the *)
(* flow was deleted under it.                                              *)
HasSlug(f) == deployment[f].slug # None
StagesOK ==
  \A r \in HttpRequests :
    saving[r] # None /\ saving[r].pc \in {"key", "insertKey"} /\ ~saving[r].deleted
      => HasSlug(saving[r].flow)

SavedOK ==
  /\ saved \subseteq FlowIds \X Users
  /\ \A s \in saved : HasSlug(s[1]) /\ apiKey[s[1]][s[2]] # None

FlowInv == FlowRowsOK /\ HashesOK /\ SavingOK /\ QueueOK /\ StagesOK /\ SavedOK

LEMMA KeyRowsArePresent == None \notin KeyRow
<1> QED BY NoneIsNoRow DEF NoneIsNoRow, KeyRow

LEMMA FlowStarts == FlowInit => FlowInv
<1> SUFFICES ASSUME FlowInit PROVE FlowInv
  OBVIOUS
<1>1. FlowRowsOK
  BY FlowBoundsAssumption DEF FlowInit, FlowBoundsAssumption, FlowRowsOK, NoDeployment, Deployment
<1>2. HashesOK /\ SavingOK /\ StagesOK /\ SavedOK
  BY DEF FlowInit, HashesOK, SavingOK, StagesOK, SavedOK
<1>3. QueueOK
  BY DEF FlowInit, QueueOK, Idle
<1> QED BY <1>1, <1>2, <1>3 DEF FlowInv

-------------------------------------------------------------------------------
(* How the request of a step changes: it is answered, or goes on to another *)
(* stage with what it read.                                                *)
LEMMA ReplyKeeps ==
  ASSUME FlowInv, NEW r \in HttpRequests, Reply(r)
  PROVE  /\ SavingOK'
         /\ \A q \in HttpRequests : saving'[q] # None => saving'[q] = saving[q]
<1> QED BY DEF FlowInv, SavingOK, Reply

LEMMA SaveStepKeeps ==
  ASSUME FlowInv, NEW r \in HttpRequests, saving[r] # None, NEW pc \in SaveStages,
         pc \in Writing => saving[r].pc \in Writing, Step(r, pc)
  PROVE  /\ SavingOK'
         /\ \A q \in HttpRequests \ {r} : saving'[q] = saving[q]
         /\ saving'[r] = [saving[r] EXCEPT !.pc = pc]
<1>1. saving'[r] = [saving[r] EXCEPT !.pc = pc] /\ DOMAIN saving' = HttpRequests
  BY DEF FlowInv, SavingOK, Step
<1>2. \A q \in HttpRequests \ {r} : saving'[q] = saving[q]
  BY DEF FlowInv, SavingOK, Step
<1>3. saving[r] \in SaveRequest /\ (saving[r].pc \in Writing => saving[r].body \in Bodies)
  BY DEF FlowInv, SavingOK
<1>4. saving'[r] \in SaveRequest /\ (saving'[r].pc \in Writing => saving'[r].body \in Bodies)
  BY <1>1, <1>3 DEF SaveRequest
<1> QED BY <1>1, <1>2, <1>4 DEF FlowInv, SavingOK

(* A request is received.                                                  *)
LEMMA ReceiveKeeps ==
  ASSUME FlowInv, NEW r \in HttpRequests, NEW op \in {"insert", "update", "unschedule"},
         NEW f \in FlowIds, NEW u \in Users, NEW body \in Bodies \cup {None},
         op # "unschedule" => body \in Bodies, Receive(r, op, f, u, body),
         UNCHANGED <<flow, deployment, apiKey, scheduler, calls, round, keys, saved>>
  PROVE  FlowInv'
<1> DEFINE new == [pc |-> op, op |-> op, flow |-> f, user |-> u, body |-> body,
                   deleted |-> FALSE]
<1>1. saving' = [saving EXCEPT ![r] = new]
  BY DEF Receive
<1>2. new \in SaveRequest /\ (new.pc \in Writing => new.body \in Bodies)
      /\ new.pc \notin {"key", "insertKey"}
  BY DEF SaveRequest, SaveStages, Writing
<1> HIDE DEF new
<1>3. \A q \in HttpRequests : saving'[q] = IF q = r THEN new ELSE saving[q]
  BY <1>1 DEF FlowInv, SavingOK
<1>4. SavingOK'
  BY <1>1, <1>2, <1>3 DEF FlowInv, SavingOK
<1>5. StagesOK'
  BY <1>2, <1>3 DEF FlowInv, StagesOK, HasSlug
<1>6. FlowRowsOK' /\ HashesOK' /\ QueueOK' /\ SavedOK'
  BY DEF FlowInv, FlowRowsOK, HashesOK, QueueOK, SavedOK, HasSlug
<1> QED BY <1>4, <1>5, <1>6 DEF FlowInv

(* After its row is written, a save goes on to its deployment or answers.  *)
LEMMA AfterWriteKeeps ==
  ASSUME FlowInv, NEW r \in HttpRequests, saving[r] # None, saving[r].pc \in Writing,
         AfterWrite(r)
  PROVE  /\ SavingOK'
         /\ \A q \in HttpRequests : saving'[q] # None =>
              saving'[q] = saving[q] \/ saving'[q].pc = "deploy"
         /\ \A c \in calls' : c.op \in {"upsert", "remove"} /\ c.flow \in FlowIds
<1>1. saving[r] \in SaveRequest /\ saving[r].flow \in FlowIds
  BY DEF FlowInv, SavingOK, SaveRequest
<1>2. CASE Step(r, "deploy") /\ UNCHANGED calls
  <2>1. "deploy" \in SaveStages /\ "deploy" \in Writing
    BY DEF SaveStages, Writing
  <2>2. SavingOK' /\ (\A q \in HttpRequests \ {r} : saving'[q] = saving[q])
        /\ saving'[r] = [saving[r] EXCEPT !.pc = "deploy"]
    BY <1>2, <2>1, SaveStepKeeps
  <2>3. saving'[r].pc = "deploy"
    BY <1>1, <2>2 DEF SaveRequest
  <2> QED BY <1>2, <2>2, <2>3 DEF FlowInv, QueueOK
<1>3. CASE Reply(r) /\ calls' = calls \cup ScheduleCalls(saving[r].flow, saving[r].body.trigger)
  <2>1. \A c \in calls' : c.op \in {"upsert", "remove"} /\ c.flow \in FlowIds
    BY <1>1, <1>3 DEF FlowInv, QueueOK, ScheduleCalls
  <2> QED BY <1>3, <2>1, ReplyKeeps
<1> QED BY <1>2, <1>3 DEF AfterWrite

(* What the lemmas below have in common: the row of a flow is written.     *)
LEMMA WriteKeeps ==
  ASSUME FlowInv, NEW r \in HttpRequests, saving[r] # None, saving[r].pc \in Writing,
         AfterWrite(r), flow' \in [FlowIds -> Row \cup {None}],
         UNCHANGED <<deployment, apiKey, round, keys, saved>>
  PROVE  FlowInv'
<1>1. /\ SavingOK'
      /\ \A q \in HttpRequests : saving'[q] # None =>
           saving'[q] = saving[q] \/ saving'[q].pc = "deploy"
      /\ \A c \in calls' : c.op \in {"upsert", "remove"} /\ c.flow \in FlowIds
  BY AfterWriteKeeps
<1>2. FlowRowsOK' /\ HashesOK' /\ SavedOK'
  BY DEF FlowInv, FlowRowsOK, HashesOK, SavedOK, HasSlug
<1>3. QueueOK'
  BY <1>1 DEF FlowInv, QueueOK
<1>4. StagesOK'
  BY <1>1 DEF FlowInv, StagesOK, HasSlug
<1> QED BY <1>1, <1>2, <1>3, <1>4 DEF FlowInv

(* ... or a request is answered and no row changes.                        *)
LEMMA AnswerKeeps ==
  ASSUME FlowInv, NEW r \in HttpRequests, Reply(r),
         UNCHANGED <<flow, deployment, apiKey, calls, round, keys, saved>>
  PROVE  FlowInv'
<1>1. SavingOK' /\ \A q \in HttpRequests : saving'[q] # None => saving'[q] = saving[q]
  BY ReplyKeeps
<1>2. FlowRowsOK' /\ HashesOK' /\ SavedOK' /\ QueueOK'
  BY DEF FlowInv, FlowRowsOK, HashesOK, SavedOK, QueueOK, HasSlug
<1>3. StagesOK'
  BY <1>1 DEF FlowInv, StagesOK, HasSlug
<1> QED BY <1>1, <1>2, <1>3 DEF FlowInv

LEMMA InsertFlowKeeps ==
  ASSUME FlowInv, NEW r \in HttpRequests, InsertFlow(r)
  PROVE  FlowInv'
<1>1. saving[r] \in SaveRequest /\ saving[r].pc \in Writing /\ saving[r].body \in Bodies
  BY DEF InsertFlow, FlowInv, SavingOK, Writing
<1>2. CASE Reply(r) /\ UNCHANGED <<flow, calls>>
  BY <1>2, AnswerKeeps DEF InsertFlow
<1>3. CASE /\ flow' = [flow EXCEPT ![saving[r].flow] =
                [name |-> saving[r].body.name, trigger |-> saving[r].body.trigger,
                 group |-> saving[r].body.group, owner |-> saving[r].user]]
           /\ AfterWrite(r)
  <2>1. flow' \in [FlowIds -> Row \cup {None}]
    BY <1>1, <1>3 DEF FlowInv, FlowRowsOK, Row, SaveRequest, Bodies
  <2> QED BY <1>1, <1>3, <2>1, WriteKeeps DEF InsertFlow
<1> QED BY <1>2, <1>3 DEF InsertFlow

LEMMA UpdateFlowKeeps ==
  ASSUME FlowInv, NEW r \in HttpRequests, UpdateFlow(r)
  PROVE  FlowInv'
<1>1. saving[r] \in SaveRequest /\ saving[r].pc \in Writing /\ saving[r].body \in Bodies
  BY DEF UpdateFlow, FlowInv, SavingOK, Writing
<1>2. CASE Reply(r) /\ UNCHANGED <<flow, calls>>
  BY <1>2, AnswerKeeps DEF UpdateFlow
<1>3. CASE /\ Exists(saving[r].flow)
           /\ flow' = [flow EXCEPT ![saving[r].flow].name = saving[r].body.name,
                                   ![saving[r].flow].trigger = saving[r].body.trigger,
                                   ![saving[r].flow].group = saving[r].body.group]
           /\ AfterWrite(r)
  <2> DEFINE f == saving[r].flow
             row == [flow[f] EXCEPT !.name = saving[r].body.name,
                       !.trigger = saving[r].body.trigger, !.group = saving[r].body.group]
  <2>1. f \in FlowIds /\ flow \in [FlowIds -> Row \cup {None}] /\ flow[f] \in Row
    BY <1>1, <1>3 DEF FlowInv, FlowRowsOK, SaveRequest, Exists
  <2>2. /\ saving[r].body.name \in Names /\ saving[r].body.trigger \in Triggers
        /\ saving[r].body.group \in Groups \cup {None}
    BY <1>1 DEF Bodies
  <2>3. \A old \in Row, name \in Names, trigger \in Triggers, group \in Groups \cup {None} :
          [old EXCEPT !.name = name, !.trigger = trigger, !.group = group] \in Row
    BY DEF Row
  <2>4. row \in Row
    BY <2>1, <2>2, <2>3
  <2>5. flow' = [flow EXCEPT ![f] = row]
    BY <1>3, <2>1
  <2> HIDE DEF row, f
  <2>6. flow' \in [FlowIds -> Row \cup {None}]
    BY <2>1, <2>4, <2>5
  <2> QED BY <1>1, <1>3, <2>6, WriteKeeps DEF UpdateFlow
<1> QED BY <1>2, <1>3 DEF UpdateFlow

(* A request goes on to a stage that ensures the key only with a deployment. *)
LEMMA AdvanceKeeps ==
  ASSUME FlowInv, NEW r \in HttpRequests, saving[r] # None, NEW pc \in SaveStages,
         pc \in Writing => saving[r].pc \in Writing, Step(r, pc),
         pc \in {"key", "insertKey"} /\ ~saving[r].deleted => deployment'[saving[r].flow].slug # None,
         \A f \in FlowIds : HasSlug(f) => HasSlug(f)',
         deployment' \in [FlowIds -> Deployment],
         \A c \in calls' : c.op \in {"upsert", "remove"} /\ c.flow \in FlowIds,
         UNCHANGED <<flow, apiKey, round, keys, saved>>
  PROVE  FlowInv'
<1>1. SavingOK' /\ (\A q \in HttpRequests \ {r} : saving'[q] = saving[q])
      /\ saving'[r] = [saving[r] EXCEPT !.pc = pc]
  BY SaveStepKeeps
<1>2. FlowRowsOK' /\ HashesOK' /\ SavedOK' /\ QueueOK'
  BY DEF FlowInv, FlowRowsOK, HashesOK, SavedOK, QueueOK
<1>3. saving[r] \in SaveRequest /\ \A q \in HttpRequests : saving[q] # None => saving[q].flow \in FlowIds
  BY DEF FlowInv, SavingOK, SaveRequest
<1>4. saving'[r].pc = pc /\ saving'[r].deleted = saving[r].deleted /\ saving'[r].flow = saving[r].flow
  BY <1>1, <1>3 DEF SaveRequest
<1>5. StagesOK'
  <2> SUFFICES ASSUME NEW q \in HttpRequests, saving'[q] # None,
                      saving'[q].pc \in {"key", "insertKey"}, ~saving'[q].deleted
               PROVE  deployment'[saving'[q].flow].slug # None
    BY DEF StagesOK, HasSlug
  <2>1. CASE q = r
    BY <1>4, <2>1
  <2>2. CASE q # r
    BY <1>1, <1>3, <2>2 DEF FlowInv, StagesOK, HasSlug
  <2> QED BY <2>1, <2>2
<1> QED BY <1>1, <1>2, <1>5 DEF FlowInv

LEMMA DeployKeeps ==
  ASSUME FlowInv, NEW r \in HttpRequests, Deploy(r)
  PROVE  FlowInv'
<1> DEFINE f == saving[r].flow
<1>1. /\ saving[r] # None /\ saving[r] \in SaveRequest /\ f \in FlowIds
      /\ saving[r].pc \in Writing /\ saving[r].body.name \in Names
  BY DEF Deploy, FlowInv, SavingOK, Writing, SaveRequest, Bodies
<1>2. "key" \in SaveStages /\ \A c \in calls : c.op \in {"upsert", "remove"} /\ c.flow \in FlowIds
  BY DEF SaveStages, FlowInv, QueueOK
<1>3. CASE deployment[f].slug # None /\ Step(r, "key") /\ UNCHANGED deployment
  BY <1>1, <1>2, <1>3, AdvanceKeeps DEF Deploy, FlowInv, FlowRowsOK, HasSlug
<1>4. CASE /\ deployment' = [deployment EXCEPT ![f] = [slug |-> saving[r].body.name, limit |-> 0]]
           /\ Step(r, "key")
  <2>1. deployment' \in [FlowIds -> Deployment] /\ \A g \in FlowIds : HasSlug(g) => HasSlug(g)'
    BY <1>1, <1>4, NoneIsNoRow DEF FlowInv, FlowRowsOK, Deployment, HasSlug, NoneIsNoRow
  <2>2. deployment'[f].slug # None
    BY <1>1, <1>4, NoneIsNoRow DEF FlowInv, FlowRowsOK, NoneIsNoRow
  <2> QED BY <1>1, <1>2, <1>4, <2>1, <2>2, AdvanceKeeps DEF Deploy
<1>5. CASE Reply(r) /\ UNCHANGED deployment
  BY <1>5, AnswerKeeps DEF Deploy
<1> QED BY <1>3, <1>4, <1>5 DEF Deploy

(* A save is acknowledged with a deployment and a key in place.            *)
LEMMA AcknowledgeKeeps ==
  ASSUME FlowInv, NEW r \in HttpRequests, saving[r] # None,
         saving[r].pc \in {"key", "insertKey"}, Acknowledge(r),
         \/ apiKey[saving[r].flow][saving[r].user] # None /\ UNCHANGED <<apiKey, keys>>
         \/ /\ keys < MaxKeys /\ keys' = keys + 1
            /\ apiKey' = [apiKey EXCEPT ![saving[r].flow][saving[r].user] = NewKey(saving[r].flow)],
         UNCHANGED <<flow, deployment, calls, round>>
  PROVE  FlowInv'
<1> DEFINE f == saving[r].flow
           u == saving[r].user
<1>1. saving[r] \in SaveRequest /\ f \in FlowIds /\ u \in Users /\ keys \in 0..MaxKeys /\ MaxKeys \in Nat
  BY FlowBoundsAssumption DEF FlowInv, SavingOK, SaveRequest, FlowRowsOK, FlowBoundsAssumption
<1>2. SavingOK' /\ \A q \in HttpRequests : saving'[q] # None => saving'[q] = saving[q]
  BY ReplyKeeps DEF Acknowledge
<1>3. keys' \in 0..MaxKeys /\ keys <= keys' /\ NewKey(f) \in KeyRow
      /\ NewKey(f).hash = <<f, keys + 1>>
  BY <1>1 DEF NewKey, KeyRow
<1> HIDE DEF f, u
<1>4. apiKey' = apiKey \/ (keys' = keys + 1 /\ apiKey' = [apiKey EXCEPT ![f][u] = NewKey(f)])
  BY DEF f, u
<1>5. /\ apiKey' \in [FlowIds -> [Users -> KeyRow \cup {None}]]
      /\ \A g \in FlowIds, v \in Users : apiKey[g][v] # None => apiKey'[g][v] # None
  BY <1>1, <1>3, <1>4, KeyRowsArePresent DEF FlowInv, FlowRowsOK
<1>6. apiKey'[f][u] # None
  BY <1>1, <1>3, <1>4, KeyRowsArePresent DEF FlowInv, FlowRowsOK, f, u
<1>7. FlowRowsOK'
  BY <1>3, <1>5 DEF FlowInv, FlowRowsOK
<1>8. HashesOK'
  <2> SUFFICES ASSUME NEW g \in FlowIds, NEW v \in Users, apiKey'[g][v] # None
               PROVE  apiKey'[g][v].hash \in {g} \X (1..keys')
    BY DEF HashesOK
  <2>1. CASE apiKey'[g][v] = apiKey[g][v]
    <3>1. apiKey[g][v].hash \in {g} \X (1..keys) /\ 1..keys \subseteq 1..keys'
      BY <1>1, <1>3, <2>1 DEF FlowInv, HashesOK
    <3> QED BY <2>1, <3>1
  <2>2. CASE apiKey'[g][v] # apiKey[g][v]
    <3>1. g = f /\ v = u /\ apiKey'[g][v] = NewKey(f) /\ keys' = keys + 1
      BY <1>1, <1>4, <2>2 DEF FlowInv, FlowRowsOK
    <3>2. apiKey'[g][v].hash = <<g, keys + 1>>
      BY <1>3, <3>1
    <3>3. keys + 1 \in 1..keys'
      BY <1>1, <3>1
    <3> QED BY <3>2, <3>3
  <2> QED BY <2>1, <2>2
<1>9. StagesOK' /\ QueueOK'
  BY <1>2 DEF FlowInv, StagesOK, HasSlug, QueueOK
<1>10. SavedOK'
  <2>1. ~saving[r].deleted => HasSlug(f)
    BY DEF FlowInv, StagesOK, f
  <2>2. saved' = saved \/ (saved' = saved \cup {<<f, u>>} /\ HasSlug(f))
    BY <2>1 DEF Acknowledge, f, u
  <2> QED BY <1>1, <1>5, <1>6, <2>2 DEF FlowInv, SavedOK, HasSlug
<1> QED BY <1>2, <1>7, <1>8, <1>9, <1>10 DEF FlowInv

LEMMA EnsureKeyKeeps ==
  ASSUME FlowInv, NEW r \in HttpRequests, EnsureKey(r)
  PROVE  FlowInv'
<1>1. saving[r] # None /\ saving[r].pc = "key" /\ UNCHANGED <<flow, deployment, calls, round>>
  BY DEF EnsureKey
<1>2. CASE /\ Acknowledge(r)
           /\ \/ apiKey[saving[r].flow][saving[r].user] # None /\ UNCHANGED <<apiKey, keys>>
              \/ /\ keys < MaxKeys /\ keys' = keys + 1
                 /\ apiKey' = [apiKey EXCEPT ![saving[r].flow][saving[r].user] =
                                         NewKey(saving[r].flow)]
  BY <1>1, <1>2, AcknowledgeKeeps
<1>3. CASE Step(r, "insertKey") /\ UNCHANGED <<apiKey, keys, saved>>
  <2>1. "insertKey" \in SaveStages /\ saving[r].pc \in Writing
        /\ deployment' \in [FlowIds -> Deployment]
        /\ \A c \in calls : c.op \in {"upsert", "remove"} /\ c.flow \in FlowIds
    BY <1>1 DEF SaveStages, Writing, FlowInv, FlowRowsOK, QueueOK
  <2>2. ~saving[r].deleted => deployment'[saving[r].flow].slug # None
    BY <1>1 DEF FlowInv, StagesOK, HasSlug
  <2> QED BY <1>1, <1>3, <2>1, <2>2, AdvanceKeeps DEF HasSlug
<1>4. CASE Reply(r) /\ UNCHANGED <<apiKey, keys, saved>>
  BY <1>1, <1>4, AnswerKeeps
<1> QED BY <1>2, <1>3, <1>4 DEF EnsureKey

LEMMA InsertKeyKeeps ==
  ASSUME FlowInv, NEW r \in HttpRequests, InsertKey(r)
  PROVE  FlowInv'
<1>1. saving[r] # None /\ saving[r].pc = "insertKey" /\ UNCHANGED <<flow, deployment, calls, round>>
  BY DEF InsertKey
<1>2. CASE /\ Acknowledge(r)
           /\ keys < MaxKeys /\ keys' = keys + 1
           /\ apiKey' = [apiKey EXCEPT ![saving[r].flow][saving[r].user] =
                                         NewKey(saving[r].flow)]
  BY <1>1, <1>2, AcknowledgeKeeps
<1>3. CASE Reply(r) /\ UNCHANGED <<apiKey, keys, saved>>
  BY <1>1, <1>3, AnswerKeeps
<1> QED BY <1>2, <1>3 DEF InsertKey

LEMMA UnscheduleKeeps ==
  ASSUME FlowInv, NEW r \in HttpRequests, Unschedule(r)
  PROVE  FlowInv'
<1>1. saving[r] # None /\ saving[r].pc = "unschedule" /\ Step(r, "delete")
      /\ saving[r].flow \in FlowIds
  BY DEF Unschedule, FlowInv, SavingOK, SaveRequest
<1>2. \A c \in calls' : c.op \in {"upsert", "remove"} /\ c.flow \in FlowIds
  BY <1>1 DEF Unschedule, FlowInv, QueueOK
<1>3. "delete" \in SaveStages /\ "delete" \notin Writing /\ "delete" \notin {"key", "insertKey"}
      /\ deployment' \in [FlowIds -> Deployment]
  BY DEF Unschedule, SaveStages, Writing, FlowInv, FlowRowsOK
<1> QED BY <1>1, <1>2, <1>3, AdvanceKeeps DEF Unschedule, HasSlug

(* With the row go deployment, keys and history; the saves of the flow that *)
(* are in progress are marked.                                             *)
LEMMA DeleteFlowKeeps ==
  ASSUME FlowInv, NEW r \in HttpRequests, DeleteFlow(r)
  PROVE  FlowInv'
<1> DEFINE f == saving[r].flow
<1>1. saving[r] # None /\ f \in FlowIds /\ UNCHANGED <<calls, round, keys>>
  BY DEF DeleteFlow, FlowInv, SavingOK, SaveRequest
<1>2. CASE /\ flow' = [flow EXCEPT ![f] = None]
           /\ saving' = [q \in HttpRequests |->
                IF q = r THEN None
                ELSE IF saving[q] # None /\ saving[q].flow = f
                     THEN [saving[q] EXCEPT !.deleted = TRUE] ELSE saving[q]]
           /\ deployment' = [deployment EXCEPT ![f] = NoDeployment]
           /\ apiKey' = [apiKey EXCEPT ![f] = [u \in Users |-> None]]
           /\ saved' = {s \in saved : s[1] # f}
  <2> HIDE DEF f
  <2>1. /\ flow' \in [FlowIds -> Row \cup {None}]
        /\ apiKey' \in [FlowIds -> [Users -> KeyRow \cup {None}]]
    BY <1>1, <1>2 DEF FlowInv, FlowRowsOK
  <2>2. NoDeployment \in Deployment
    BY DEF NoDeployment, Deployment
  <2>3. /\ deployment' \in [FlowIds -> Deployment] /\ FlowRowsOK'
        /\ \A g \in FlowIds \ {f} : deployment'[g] = deployment[g] /\ apiKey'[g] = apiKey[g]
    BY <1>1, <1>2, <2>1, <2>2 DEF FlowInv, FlowRowsOK
  <2>4. HashesOK'
    <3>1. \A u \in Users : apiKey'[f][u] = None
      BY <1>1, <1>2 DEF FlowInv, FlowRowsOK
    <3> QED BY <1>1, <2>3, <3>1 DEF FlowInv, HashesOK
  <2>5. \A q \in HttpRequests : saving'[q] # None =>
          /\ saving[q] # None
          /\ \/ saving'[q] = saving[q] /\ saving[q].flow # f
             \/ saving'[q] = [saving[q] EXCEPT !.deleted = TRUE]
    BY <1>2 DEF f
  <2>6. \A old \in SaveRequest : LET new == [old EXCEPT !.deleted = TRUE] IN
          new \in SaveRequest /\ new.pc = old.pc /\ new.body = old.body /\ new.deleted
    BY DEF SaveRequest
  <2>7. SavingOK'
    <3>1. DOMAIN saving' = HttpRequests
      BY <1>2
    <3> QED BY <2>5, <2>6, <3>1 DEF FlowInv, SavingOK
  <2>8. StagesOK'
    <3> SUFFICES ASSUME NEW q \in HttpRequests, saving'[q] # None,
                        saving'[q].pc \in {"key", "insertKey"}, ~saving'[q].deleted
                 PROVE  deployment'[saving'[q].flow].slug # None
      BY DEF StagesOK, HasSlug
    <3>1. saving[q] # None /\ saving[q] \in SaveRequest
      BY <2>5 DEF FlowInv, SavingOK
    <3>2. saving'[q] = saving[q] /\ saving[q].flow \in FlowIds \ {f}
      BY <2>5, <2>6, <3>1 DEF SaveRequest
    <3> QED BY <2>3, <3>1, <3>2 DEF FlowInv, StagesOK, HasSlug
  <2>9. SavedOK' /\ QueueOK'
    BY <1>1, <1>2, <2>3 DEF FlowInv, SavedOK, HasSlug, QueueOK
  <2> QED BY <2>3, <2>4, <2>7, <2>8, <2>9 DEF FlowInv
<1>3. CASE Reply(r) /\ UNCHANGED <<flow, deployment, apiKey, saved>>
  BY <1>1, <1>3, AnswerKeeps
<1> QED BY <1>2, <1>3 DEF DeleteFlow

LEMMA QueueKeeps ==
  ASSUME FlowInv, QueueOK', UNCHANGED <<flow, deployment, apiKey, saving, keys, saved>>
  PROVE  FlowInv'
<1> QED BY DEF FlowInv, FlowRowsOK, HashesOK, SavingOK, StagesOK, SavedOK, HasSlug

LEMMA RoundsKeep ==
  ASSUME FlowInv, NEW w \in Reconcilers, Reconcile(w) \/ BreakRound(w)
  PROVE  FlowInv'
<1>1. DOMAIN round = Reconcilers /\ "pc" \in DOMAIN round[w]
  BY DEF FlowInv, QueueOK
<1>2. PICK next : /\ round' = [round EXCEPT ![w] = next]
                  /\ "pc" \in DOMAIN next /\ next.pc \in {"idle", "schedulers", "repair"}
                  /\ UNCHANGED calls
  <2>1. CASE ReadFlows(w)
    <3> DEFINE next == [pc |-> "schedulers",
                        crons |-> [f \in {g \in FlowIds : Exists(g)} |-> flow[f].trigger]]
    <3>1. "pc" \in DOMAIN next /\ next.pc \in {"idle", "schedulers", "repair"}
      OBVIOUS
    <3>2. round' = [round EXCEPT ![w] = next] /\ UNCHANGED calls
      BY <2>1 DEF ReadFlows
    <3> QED BY <3>1, <3>2
  <2>2. CASE ReadSchedulers(w)
    <3> DEFINE next == [pc |-> "repair", crons |-> round[w].crons,
                        known |-> [f \in FlowIds |-> Pattern(f)]]
    <3>1. "pc" \in DOMAIN next /\ next.pc \in {"idle", "schedulers", "repair"}
      OBVIOUS
    <3>2. round' = [round EXCEPT ![w] = next] /\ UNCHANGED calls
      BY <2>2 DEF ReadSchedulers
    <3> QED BY <3>1, <3>2
  <2>3. CASE RepairOne(w)
    <3> SUFFICES ASSUME round' # [round EXCEPT ![w] = Idle]
                 PROVE  \E next : /\ round' = [round EXCEPT ![w] = next]
                                  /\ "pc" \in DOMAIN next
                                  /\ next.pc \in {"idle", "schedulers", "repair"}
                                  /\ UNCHANGED calls
      BY <2>3 DEF RepairOne, Idle
    <3>1. PICK f \in DOMAIN round[w].crons : round' = [round EXCEPT ![w].crons =
                 [g \in DOMAIN round[w].crons \ {f} |-> round[w].crons[g]]]
      BY <2>3 DEF RepairOne
    <3> DEFINE next == [round[w] EXCEPT !.crons =
                          [g \in DOMAIN round[w].crons \ {f} |-> round[w].crons[g]]]
    <3>2. round' = [round EXCEPT ![w] = next]
      BY <3>1
    <3>3. "pc" \in DOMAIN next /\ next.pc = round[w].pc
      BY <1>1
    <3> QED BY <2>3, <3>2, <3>3 DEF RepairOne
  <2>4. CASE EndRound(w) \/ BreakRound(w)
    BY <2>4 DEF EndRound, BreakRound, Idle
  <2> QED BY <2>1, <2>2, <2>3, <2>4 DEF Reconcile
<1>3. QueueOK'
  BY <1>2 DEF FlowInv, QueueOK
<1>4. UNCHANGED <<flow, deployment, apiKey, saving, keys, saved>>
  BY DEF Reconcile, ReadFlows, ReadSchedulers, RepairOne, EndRound, BreakRound
<1> QED BY <1>3, <1>4, QueueKeeps

LEMMA FlowStepKeeps == FlowInv /\ FlowNext => FlowInv'
<1> SUFFICES ASSUME FlowInv, FlowNext PROVE FlowInv'
  OBVIOUS
<1>1. CASE Edit
  <2>1. PICK r \in HttpRequests, f \in FlowIds, u \in Users :
          \/ \E body \in Bodies : CheckCreate(r, f, u, body)
          \/ \E body \in Bodies : CheckUpdate(r, f, u, body)
          \/ CheckDelete(r, f, u)
    BY <1>1 DEF Edit
  <2>2. ASSUME NEW body \in Bodies, CheckCreate(r, f, u, body) PROVE FlowInv'
    BY <2>2, ReceiveKeeps DEF CheckCreate
  <2>3. ASSUME NEW body \in Bodies, CheckUpdate(r, f, u, body) PROVE FlowInv'
    BY <2>3, ReceiveKeeps DEF CheckUpdate
  <2>4. CASE CheckDelete(r, f, u)
    BY <2>4, ReceiveKeeps DEF CheckDelete
  <2> QED BY <2>1, <2>2, <2>3, <2>4
<1>2. ASSUME NEW r \in HttpRequests, HandleSave(r) PROVE FlowInv'
  BY <1>2, InsertFlowKeeps, UpdateFlowKeeps, DeployKeeps, EnsureKeyKeeps, InsertKeyKeeps,
     UnscheduleKeeps, DeleteFlowKeeps DEF HandleSave
<1>3. CASE PerformCall \/ LoseCall
  <2>1. calls' \subseteq calls /\ UNCHANGED <<flow, deployment, apiKey, saving, keys, saved, round>>
    BY <1>3 DEF PerformCall, LoseCall
  <2> QED BY <2>1, QueueKeeps DEF FlowInv, QueueOK
<1>4. ASSUME NEW w \in Reconcilers, Reconcile(w) \/ BreakRound(w) PROVE FlowInv'
  BY <1>4, RoundsKeep
<1> QED BY <1>1, <1>2, <1>3, <1>4 DEF FlowNext

LEMMA ManagementKeeps == FlowInv /\ ManageKeys => FlowInv'
<1> SUFFICES ASSUME FlowInv, ManageKeys PROVE FlowInv'
  OBVIOUS
<1>1. PICK f \in FlowIds, u \in Users :
        \/ RenewKey(f, u)
        \/ \E by \in Users : RevokeKey(f, u, by)
        \/ \E slug \in Names, limit \in Limits : Configure(f, u, slug, limit)
  BY DEF ManageKeys
<1>2. UNCHANGED <<flow, saving, calls, round, saved>>
  BY <1>1 DEF RenewKey, RevokeKey, Configure
<1>3. SavingOK' /\ QueueOK'
  BY <1>2 DEF FlowInv, SavingOK, QueueOK
<1>4. keys \in 0..MaxKeys /\ MaxKeys \in Nat
  BY FlowBoundsAssumption DEF FlowInv, FlowRowsOK, FlowBoundsAssumption
<1>5. CASE \E slug \in Names, limit \in Limits : Configure(f, u, slug, limit)
  <2>1. PICK slug \in Names, limit \in Limits :
          /\ deployment' = [deployment EXCEPT ![f] = [slug |-> slug, limit |-> limit]]
          /\ UNCHANGED <<apiKey, keys>>
    BY <1>5 DEF Configure
  <2>2. deployment' \in [FlowIds -> Deployment]
    BY <2>1 DEF FlowInv, FlowRowsOK, Deployment
  <2>3. \A g \in FlowIds : HasSlug(g) => HasSlug(g)'
    BY <2>1, NoneIsNoRow DEF FlowInv, FlowRowsOK, HasSlug, NoneIsNoRow
  <2>4. StagesOK'
    BY <1>2, <2>3 DEF FlowInv, StagesOK, SavingOK, SaveRequest, HasSlug
  <2>5. FlowRowsOK' /\ HashesOK' /\ SavedOK'
    BY <1>2, <2>1, <2>2, <2>3 DEF FlowInv, FlowRowsOK, HashesOK, SavedOK
  <2> QED BY <1>3, <2>4, <2>5 DEF FlowInv
<1>6. CASE RenewKey(f, u) \/ \E by \in Users : RevokeKey(f, u, by)
  <2>1. UNCHANGED deployment
    BY <1>6 DEF RenewKey, RevokeKey
  <2>2. PICK key \in KeyRow :
          /\ apiKey' = [apiKey EXCEPT ![f][u] = key]
          /\ keys' \in 0..MaxKeys /\ keys <= keys' /\ key.hash \in {f} \X (1..keys')
    <3>1. CASE RenewKey(f, u)
      <4>1. NewKey(f) \in KeyRow /\ NewKey(f).hash = <<f, keys + 1>>
        BY <1>4 DEF NewKey, KeyRow
      <4>2. apiKey' = [apiKey EXCEPT ![f][u] = NewKey(f)] /\ keys < MaxKeys /\ keys' = keys + 1
        BY <3>1 DEF RenewKey
      <4>3. keys' \in 0..MaxKeys /\ keys <= keys' /\ NewKey(f).hash \in {f} \X (1..keys')
        BY <1>4, <4>1, <4>2
      <4> QED BY <4>1, <4>2, <4>3
    <3>2. CASE \E by \in Users : RevokeKey(f, u, by)
      <4>1. /\ apiKey[f][u] # None /\ apiKey' = [apiKey EXCEPT ![f][u].enabled = FALSE]
            /\ UNCHANGED keys
        BY <3>2 DEF RevokeKey
      <4>2. apiKey[f][u] \in KeyRow
        BY <4>1 DEF FlowInv, FlowRowsOK
      <4> DEFINE revoked == [apiKey[f][u] EXCEPT !.enabled = FALSE]
      <4>3. revoked \in KeyRow /\ revoked.hash = apiKey[f][u].hash
        BY <4>2 DEF KeyRow
      <4>4. apiKey' = [apiKey EXCEPT ![f][u] = revoked]
        BY <4>1
      <4> HIDE DEF revoked
      <4>5. keys' \in 0..MaxKeys /\ keys <= keys' /\ revoked.hash \in {f} \X (1..keys')
        BY <1>4, <4>1, <4>3 DEF FlowInv, HashesOK
      <4> QED BY <4>3, <4>4, <4>5
    <3> QED BY <1>6, <3>1, <3>2
  <2>3. /\ apiKey' \in [FlowIds -> [Users -> KeyRow \cup {None}]]
        /\ \A g \in FlowIds, v \in Users :
             apiKey'[g][v] = IF g = f /\ v = u THEN key ELSE apiKey[g][v]
    BY <2>2 DEF FlowInv, FlowRowsOK
  <2>4. FlowRowsOK'
    BY <1>2, <2>1, <2>2, <2>3 DEF FlowInv, FlowRowsOK
  <2>5. HashesOK'
    <3>1. 1..keys \subseteq 1..keys'
      BY <1>4, <2>2
    <3> QED BY <2>2, <2>3, <3>1 DEF FlowInv, HashesOK
  <2>6. StagesOK' /\ SavedOK'
    BY <1>2, <2>1, <2>3, KeyRowsArePresent DEF FlowInv, StagesOK, SavedOK, HasSlug
  <2> QED BY <1>3, <2>4, <2>5, <2>6 DEF FlowInv
<1> QED BY <1>1, <1>5, <1>6

LEMMA FlowInvStutters == FlowInv /\ UNCHANGED flowVars => FlowInv'
<1> QED BY DEF flowVars, FlowInv, FlowRowsOK, HashesOK, SavingOK, QueueOK, StagesOK, SavedOK, HasSlug

LEMMA FlowInvHolds == FlowSpec => []FlowInv
<1>1. FlowInv /\ [FlowNext]_flowVars => FlowInv'
  BY FlowStepKeeps, FlowInvStutters
<1> QED BY <1>1, FlowStarts, PTL DEF FlowSpec

LEMMA FlowInvIsTyped == FlowInv => FlowTypeOK
<1> SUFFICES ASSUME FlowInv PROVE FlowTypeOK
  OBVIOUS
<1>1. \A f \in FlowIds : deployment[f].slug \in Names \cup {None}
  BY DEF FlowInv, FlowRowsOK, Deployment
<1>2. \A f \in FlowIds, u \in Users :
        apiKey[f][u] \in [hash : {f} \X (1..keys), enabled : BOOLEAN] \cup {None}
  BY DEF FlowInv, FlowRowsOK, HashesOK, KeyRow
<1>3. \A r \in HttpRequests : saving[r] # None => saving[r].pc \in SaveStages
  BY DEF FlowInv, SavingOK, SaveRequest
<1> QED BY <1>1, <1>2, <1>3 DEF FlowInv, FlowTypeOK, FlowRowsOK, QueueOK, SavedOK, SaveStages

(* The rows, requests, calls and rounds have their types in every state,    *)
(* for any number of flows, users and requests.                            *)
THEOREM FlowsAreTyped == FlowSpec => []FlowTypeOK
<1> QED BY FlowInvIsTyped, FlowInvHolds, PTL

(* Whoever was answered 2xx when saving a webhook flow has a deployment and *)
(* a key of their own for as long as the flow exists: between the insert of *)
(* the deployment and the answer nothing but the deletion of the flow takes *)
(* either away, and that marks the saves in progress.                      *)
THEOREM AcknowledgedSavesHold == FlowSpec => []AcknowledgedSavesAreCallable
<1>1. FlowInv => AcknowledgedSavesAreCallable
  BY DEF FlowInv, SavedOK, HasSlug, AcknowledgedSavesAreCallable
<1> QED BY <1>1, FlowInvHolds, PTL

-------------------------------------------------------------------------------
(* What SchedulesConverge rests on.  A round keeps what it read; it is      *)
(* current when that is what the rows say, and its schedulers are as it    *)
(* read them or right already.                                             *)
IsCurrent(w) ==
  /\ round[w].pc = "schedulers" =>
       round[w].crons = [f \in {g \in FlowIds : Exists(g)} |-> flow[f].trigger]
  /\ round[w].pc = "repair" =>
       /\ DOMAIN round[w].crons \subseteq FlowIds
       /\ \A f \in DOMAIN round[w].crons :
            /\ Exists(f) /\ round[w].crons[f] = flow[f].trigger
            /\ round[w].known[f] = Pattern(f) \/ Agrees(f)
       /\ \A f \in FlowIds \ DOMAIN round[w].crons : Agrees(f)

(* Nothing is being saved or on its way to the queue, and what older rounds *)
(* had read is worked off.                                                 *)
Calm == /\ \A r \in HttpRequests : saving[r] = None
        /\ calls = {}
        /\ \A w \in Reconcilers : IsCurrent(w)

(* A round that repairs has both of the things it read. *)
RoundsOK ==
  /\ DOMAIN scheduler = FlowIds
  /\ \A w \in Reconcilers : round[w].pc = "repair" =>
       round[w] = [pc |-> "repair", crons |-> round[w].crons, known |-> round[w].known]

(* What a step of a round makes of it: it reads, ends - at its end, broken   *)
(* off, or at a cron that throws - or corrects one flow.                   *)
RoundReads(w) ==
  \/ round'[w] = [pc |-> "schedulers",
                  crons |-> [f \in {g \in FlowIds : Exists(g)} |-> flow[f].trigger]]
  \/ /\ round[w].pc = "schedulers"
     /\ round'[w] = [pc |-> "repair", crons |-> round[w].crons,
                     known |-> [f \in FlowIds |-> Pattern(f)]]
  \/ round'[w] = Idle
RoundCorrects(w, f) ==
  /\ round[w].pc = "repair"
  /\ round'[w] = [pc |-> "repair", known |-> round[w].known,
                  crons |-> [g \in DOMAIN round[w].crons \ {f} |-> round[w].crons[g]]]
  /\ scheduler' = [scheduler EXCEPT ![f] = Corrected(@, round[w].crons[f], round[w].known[f])]

LEMMA RoundStep ==
  ASSUME FlowInv, RoundsOK, NEW w \in Reconcilers, Reconcile(w) \/ BreakRound(w)
  PROVE  /\ \A v \in Reconcilers \ {w} : round'[v] = round[v]
         /\ UNCHANGED <<flow, saving, calls>>
         /\ \/ RoundReads(w) /\ scheduler' = scheduler
            \/ \E f \in DOMAIN round[w].crons : RoundCorrects(w, f)
<1>1. DOMAIN round = Reconcilers
  BY DEF FlowInv, QueueOK
<1>2. /\ \A v \in Reconcilers \ {w} : round'[v] = round[v]
      /\ UNCHANGED <<flow, saving, calls>>
  BY <1>1 DEF Reconcile, ReadFlows, ReadSchedulers, RepairOne, EndRound, BreakRound
<1>3. CASE ReadFlows(w)
  BY <1>1, <1>2, <1>3 DEF ReadFlows, RoundReads
<1>4. CASE ReadSchedulers(w)
  BY <1>1, <1>2, <1>4 DEF ReadSchedulers, RoundReads
<1>5. CASE EndRound(w) \/ BreakRound(w)
  BY <1>1, <1>2, <1>5 DEF EndRound, BreakRound, RoundReads
<1>6. CASE RepairOne(w) /\ round' = [round EXCEPT ![w] = Idle] /\ UNCHANGED scheduler
  BY <1>1, <1>2, <1>6 DEF RoundReads
<1>7. CASE RepairOne(w) /\ ~(round' = [round EXCEPT ![w] = Idle] /\ UNCHANGED scheduler)
  <2>1. PICK f \in DOMAIN round[w].crons :
          /\ round' = [round EXCEPT ![w].crons =
                         [g \in DOMAIN round[w].crons \ {f} |-> round[w].crons[g]]]
          /\ scheduler' = [scheduler EXCEPT ![f] =
                             Corrected(@, round[w].crons[f], round[w].known[f])]
    BY <1>7 DEF RepairOne
  <2>2. PICK rest : rest = [g \in DOMAIN round[w].crons \ {f} |-> round[w].crons[g]]
    OBVIOUS
  <2>3. round'[w] = [round[w] EXCEPT !.crons = rest]
    BY <1>1, <2>1, <2>2
  <2>4. round[w].pc = "repair"
        /\ round[w] = [pc |-> "repair", crons |-> round[w].crons, known |-> round[w].known]
    BY <1>7 DEF RoundsOK, RepairOne
  <2>5. round'[w] = [pc |-> "repair", known |-> round[w].known, crons |-> rest]
    BY <2>3, <2>4
  <2> QED BY <1>2, <2>1, <2>2, <2>4, <2>5 DEF RoundCorrects
<1> QED BY <1>3, <1>4, <1>5, <1>6, <1>7 DEF Reconcile

LEMMA RoundsOKHolds == FlowSpec => []RoundsOK
<1>1. FlowInit => RoundsOK
  BY DEF FlowInit, RoundsOK, Idle
<1>2. FlowInv /\ RoundsOK /\ [FlowNext]_flowVars => RoundsOK'
  <2> SUFFICES ASSUME FlowInv, RoundsOK, [FlowNext]_flowVars PROVE RoundsOK'
    OBVIOUS
  <2>1. CASE UNCHANGED <<round, scheduler>>
    BY <2>1 DEF RoundsOK
  <2>2. CASE PerformCall
    BY <2>2 DEF PerformCall, Perform, RoundsOK
  <2>3. ASSUME NEW w \in Reconcilers, Reconcile(w) \/ BreakRound(w) PROVE RoundsOK'
    <3>1. \A v \in Reconcilers \ {w} : round'[v] = round[v]
      BY <2>3, RoundStep
    <3>2. CASE RoundReads(w) /\ scheduler' = scheduler
      <4>1. round'[w].pc = "repair" =>
              round'[w] = [pc |-> "repair", crons |-> round'[w].crons, known |-> round'[w].known]
        BY <3>2 DEF RoundReads, Idle
      <4> QED BY <3>1, <3>2, <4>1 DEF RoundsOK
    <3>3. CASE \E f \in DOMAIN round[w].crons : RoundCorrects(w, f)
      <4>1. DOMAIN scheduler' = FlowIds
        BY <3>3 DEF RoundsOK, RoundCorrects
      <4>2. PICK rest : round'[w] = [pc |-> "repair", known |-> round[w].known, crons |-> rest]
        BY <3>3 DEF RoundCorrects
      <4>3. round'[w] = [pc |-> "repair", crons |-> round'[w].crons, known |-> round'[w].known]
        BY <4>2
      <4> QED BY <3>1, <4>1, <4>3 DEF RoundsOK
    <3> QED BY <2>3, <3>2, <3>3, RoundStep
  <2>4. CASE Edit
    BY <2>1, <2>4 DEF Edit, CheckCreate, CheckUpdate, CheckDelete
  <2>5. ASSUME NEW r \in HttpRequests, HandleSave(r) PROVE RoundsOK'
    BY <2>1, <2>5 DEF HandleSave, InsertFlow, UpdateFlow, Deploy, EnsureKey, InsertKey, Unschedule,
                      DeleteFlow
  <2>6. CASE LoseCall \/ UNCHANGED flowVars
    BY <2>1, <2>6 DEF LoseCall, flowVars
  <2> QED BY <2>2, <2>3, <2>4, <2>5, <2>6 DEF FlowNext
<1> QED BY <1>1, <1>2, FlowInvHolds, PTL DEF FlowSpec

(* A repair of a flow whose scheduler is as the round read it makes it the *)
(* one its cron asks for, and leaves one that is right.                    *)
LEMMA RepairsRight ==
  ASSUME FlowInv, RoundsOK, NEW f \in FlowIds, Exists(f), NEW known,
         known = Pattern(f) \/ Agrees(f), flow' = flow,
         scheduler' = [scheduler EXCEPT ![f] = Corrected(@, flow[f].trigger, known)]
  PROVE  Agrees(f)'
<1> DEFINE t == flow[f].trigger
<1>1. t \in Triggers /\ flow[f] # None
  BY DEF FlowInv, FlowRowsOK, Row, Exists
<1>2. scheduler'[f] = Corrected(scheduler[f], t, known)
  BY DEF RoundsOK
<1>3. CASE Cron(t) = known
  <2>1. scheduler'[f] = scheduler[f] /\ Pattern(f) = Cron(t)
    BY <1>2, <1>3 DEF Corrected, Agrees
  <2> QED BY <2>1 DEF Agrees, Pattern, Exists
<1>4. CASE Cron(t) # known /\ Cron(t) = None
  BY <1>2, <1>4 DEF Corrected, Agrees, Pattern, Exists
<1>5. CASE Cron(t) # known /\ Cron(t) # None
  <2>1. scheduler'[f] = [pattern |-> Cron(t), message |-> Message(t)]
    BY <1>2, <1>5 DEF Corrected
  <2>2. scheduler'[f] # None
    BY <1>1, <2>1, NoneIsNoScheduler DEF NoneIsNoScheduler
  <2> QED BY <2>1, <2>2 DEF Agrees, Pattern, Exists
<1> QED BY <1>3, <1>4, <1>5

(* In calm, a step of a round leaves the schedulers that are right, and the *)
(* rounds current.                                                         *)
LEMMA CalmReads ==
  ASSUME FlowInv, Calm, NEW w \in Reconcilers, RoundReads(w),
         \A v \in Reconcilers \ {w} : round'[v] = round[v], UNCHANGED <<flow, saving, calls, scheduler>>
  PROVE  Calm' /\ \A f \in FlowIds : Agrees(f) => Agrees(f)'
<1> DEFINE rows == [f \in {g \in FlowIds : Exists(g)} |-> flow[f].trigger]
<1>1. \A f \in FlowIds : Pattern(f)' = Pattern(f) /\ (Agrees(f)' <=> Agrees(f))
  BY DEF Pattern, Agrees, Exists
<1>2. \A v \in Reconcilers \ {w} : IsCurrent(v)'
  BY <1>1 DEF Calm, IsCurrent, Exists
<1>3. rows' = rows
  BY DEF Exists
<1>4. IsCurrent(w)'
  <2>1. CASE round'[w] = [pc |-> "schedulers", crons |-> rows]
    <3>1. round'[w].pc = "schedulers" /\ round'[w].crons = rows
      BY <2>1
    <3> QED BY <1>3, <3>1 DEF IsCurrent
  <2>2. CASE /\ round[w].pc = "schedulers"
             /\ round'[w] = [pc |-> "repair", crons |-> round[w].crons,
                             known |-> [f \in FlowIds |-> Pattern(f)]]
    <3>1. /\ round'[w].pc = "repair" /\ round'[w].crons = round[w].crons
          /\ round'[w].known = [f \in FlowIds |-> Pattern(f)]
      BY <2>2
    <3>2. round[w].crons = rows
      BY <2>2 DEF Calm, IsCurrent
    <3> HIDE DEF rows
    <3>3. /\ DOMAIN rows \subseteq FlowIds
          /\ \A f \in DOMAIN rows : Exists(f) /\ rows[f] = flow[f].trigger
          /\ \A f \in FlowIds \ DOMAIN rows : Agrees(f)
      BY DEF rows, Agrees
    <3>4. \A f \in FlowIds : round'[w].known[f] = Pattern(f)'
      BY <1>1, <3>1
    <3>5. \A f \in FlowIds : Exists(f)' <=> Exists(f)
      BY DEF Exists
    <3>6. "repair" # "schedulers"
      OBVIOUS
    <3> QED BY <1>1, <3>1, <3>2, <3>3, <3>4, <3>5, <3>6 DEF IsCurrent
  <2>3. CASE round'[w] = Idle
    <3>1. round'[w].pc = "idle"
      BY <2>3 DEF Idle
    <3> QED BY <3>1 DEF IsCurrent
  <2> QED BY <2>1, <2>2, <2>3 DEF RoundReads
<1> QED BY <1>1, <1>2, <1>4 DEF Calm

LEMMA CalmCorrects ==
  ASSUME FlowInv, RoundsOK, Calm, NEW w \in Reconcilers,
         NEW f \in DOMAIN round[w].crons, RoundCorrects(w, f),
         \A v \in Reconcilers \ {w} : round'[v] = round[v], UNCHANGED <<flow, saving, calls>>
  PROVE  Calm' /\ \A g \in FlowIds : Agrees(g) => Agrees(g)'
<1>1. /\ f \in FlowIds /\ Exists(f) /\ round[w].crons[f] = flow[f].trigger
      /\ round[w].known[f] = Pattern(f) \/ Agrees(f)
      /\ round[w].pc = "repair" /\ IsCurrent(w)
  BY DEF Calm, IsCurrent, RoundCorrects
<1>2. Agrees(f)'
  BY <1>1, RepairsRight DEF RoundCorrects
<1>3. \A g \in FlowIds \ {f} : Pattern(g)' = Pattern(g) /\ (Agrees(g)' <=> Agrees(g))
  <2>1. \A g \in FlowIds \ {f} : scheduler'[g] = scheduler[g]
    BY DEF RoundsOK, RoundCorrects
  <2> QED BY <2>1 DEF Pattern, Agrees, Exists
<1>4. \A g \in FlowIds : Exists(g)' <=> Exists(g)
  BY DEF Exists
<1>5. \A v \in Reconcilers \ {w} : IsCurrent(v)'
  <2> SUFFICES ASSUME NEW v \in Reconcilers \ {w} PROVE IsCurrent(v)'
    OBVIOUS
  <2>1. IsCurrent(v) /\ round'[v] = round[v]
    BY DEF Calm
  <2>2. [g \in {h \in FlowIds : Exists(h)} |-> flow[g].trigger]'
          = [g \in {h \in FlowIds : Exists(h)} |-> flow[g].trigger]
    BY DEF Exists
  <2>3. \A g \in FlowIds : \A known : known = Pattern(g) \/ Agrees(g) => known = Pattern(g)' \/ Agrees(g)'
    BY <1>2, <1>3
  <2>4. \A g \in FlowIds : Agrees(g) => Agrees(g)'
    BY <1>2, <1>3
  <2> QED BY <1>4, <2>1, <2>2, <2>3, <2>4 DEF IsCurrent
<1>6. IsCurrent(w)'
  <2>1. /\ round'[w].pc = "repair" /\ round'[w].known = round[w].known
        /\ round'[w].crons = [g \in DOMAIN round[w].crons \ {f} |-> round[w].crons[g]]
    BY DEF RoundCorrects
  <2>2. /\ DOMAIN round'[w].crons = DOMAIN round[w].crons \ {f}
        /\ \A g \in DOMAIN round[w].crons \ {f} : round'[w].crons[g] = round[w].crons[g]
    BY <2>1
  <2>3. /\ DOMAIN round[w].crons \subseteq FlowIds
        /\ \A g \in DOMAIN round[w].crons :
             /\ Exists(g) /\ round[w].crons[g] = flow[g].trigger
             /\ round[w].known[g] = Pattern(g) \/ Agrees(g)
        /\ \A g \in FlowIds \ DOMAIN round[w].crons : Agrees(g)
    BY <1>1 DEF IsCurrent
  <2>4. DOMAIN round'[w].crons \subseteq FlowIds
    BY <2>2, <2>3
  <2>5. \A g \in DOMAIN round'[w].crons :
          /\ Exists(g)' /\ round'[w].crons[g] = flow'[g].trigger
          /\ round'[w].known[g] = Pattern(g)' \/ Agrees(g)'
    BY <1>3, <1>4, <2>1, <2>2, <2>3
  <2>6. \A g \in FlowIds \ DOMAIN round'[w].crons : Agrees(g)'
    BY <1>2, <1>3, <2>2, <2>3
  <2> QED BY <2>1, <2>4, <2>5, <2>6 DEF IsCurrent
<1> QED BY <1>2, <1>3, <1>5, <1>6 DEF Calm

(* Once no save is under way, no call on its way and no round acts on what *)
(* it read before that, it stays so until somebody edits: a scheduler that *)
(* is right stays right, and a round that runs to its end leaves all of     *)
(* them right, whatever the other workers' rounds do beside it and wherever *)
(* they are broken off. A round throws only for the cron of a flow that    *)
(* still has it. With the fairness of the rounds, this is why              *)
(* SchedulesConverge.                                                      *)
CalmStep ==
  Calm /\ ~Edit =>
    /\ Calm'
    /\ \A f \in FlowIds : Agrees(f) => Agrees(f)'
    /\ \A w \in Reconcilers : EndRound(w) => \A f \in FlowIds : Agrees(f)
    /\ \A w \in Reconcilers :
         RepairOne(w) /\ round'[w] = Idle => \E f \in FlowIds : ~Parses(f)
THEOREM RoundsSettleSchedules == FlowSpec => [][CalmStep]_flowVars
<1>1. FlowInv /\ RoundsOK /\ [FlowNext]_flowVars => [CalmStep]_flowVars
  <2> SUFFICES ASSUME FlowInv, RoundsOK, FlowNext, Calm, ~Edit
               PROVE  /\ Calm'
                      /\ \A f \in FlowIds : Agrees(f) => Agrees(f)'
                      /\ \A w \in Reconcilers : EndRound(w) => \A f \in FlowIds : Agrees(f)
                      /\ \A w \in Reconcilers :
                           RepairOne(w) /\ round'[w] = Idle => \E f \in FlowIds : ~Parses(f)
    BY DEF CalmStep
  <2>1. PICK w \in Reconcilers : Reconcile(w) \/ BreakRound(w)
    BY DEF FlowNext, Calm, HandleSave, InsertFlow, UpdateFlow, Deploy, EnsureKey, InsertKey,
           Unschedule, DeleteFlow, PerformCall, LoseCall
  <2>2. Calm' /\ \A f \in FlowIds : Agrees(f) => Agrees(f)'
    <3>1. /\ \A v \in Reconcilers \ {w} : round'[v] = round[v]
          /\ UNCHANGED <<flow, saving, calls>>
          /\ \/ RoundReads(w) /\ scheduler' = scheduler
             \/ \E f \in DOMAIN round[w].crons : RoundCorrects(w, f)
      BY <2>1, RoundStep
    <3>2. CASE RoundReads(w) /\ scheduler' = scheduler
      BY <3>1, <3>2, CalmReads
    <3>3. ASSUME NEW f \in DOMAIN round[w].crons, RoundCorrects(w, f)
          PROVE  Calm' /\ \A g \in FlowIds : Agrees(g) => Agrees(g)'
      BY <3>1, <3>3, CalmCorrects
    <3> QED BY <3>1, <3>2, <3>3
  <2>3. ASSUME NEW v \in Reconcilers, EndRound(v), NEW f \in FlowIds PROVE Agrees(f)
    BY <2>3 DEF EndRound, Calm, IsCurrent
  <2>4. ASSUME NEW v \in Reconcilers, RepairOne(v), round'[v] = Idle
        PROVE  \E f \in FlowIds : ~Parses(f)
    <3>1. DOMAIN round = Reconcilers /\ round[v].pc = "repair" /\ IsCurrent(v)
      BY <2>4 DEF RepairOne, Calm, FlowInv, QueueOK
    <3>2. PICK f \in DOMAIN round[v].crons :
            \/ Throws(round[v].crons[f], round[v].known[f])
            \/ round' = [round EXCEPT ![v].crons =
                  [g \in DOMAIN round[v].crons \ {f} |-> round[v].crons[g]]]
      BY <2>4 DEF RepairOne
    <3>3. CASE Throws(round[v].crons[f], round[v].known[f])
      BY <3>1, <3>3 DEF Throws, Parses, IsCurrent
    <3>4. CASE round' = [round EXCEPT ![v].crons =
                 [g \in DOMAIN round[v].crons \ {f} |-> round[v].crons[g]]]
      <4>1. PICK rest : round' = [round EXCEPT ![v].crons = rest]
        BY <3>4
      <4>2. round'[v] = [pc |-> "repair", crons |-> rest, known |-> round[v].known]
        BY <3>1, <4>1 DEF RoundsOK
      <4> QED BY <2>4, <4>2 DEF Idle
    <3> QED BY <3>2, <3>3, <3>4
  <2> QED BY <2>2, <2>3, <2>4
<1> QED BY <1>1, FlowInvHolds, RoundsOKHolds, PTL DEF FlowSpec

-------------------------------------------------------------------------------
(* A step makes at most one key. A row it leaves has the hash it had and is *)
(* enabled only if it was, or has the hash of the new key.                 *)
KeysAreNew ==
  /\ keys' \in {keys, keys + 1}
  /\ \A f \in FlowIds, u \in Users : apiKey'[f][u] # None =>
       \/ /\ apiKey[f][u] # None /\ apiKey'[f][u].hash = apiKey[f][u].hash
          /\ apiKey'[f][u].enabled => apiKey[f][u].enabled
       \/ keys' = keys + 1 /\ apiKey'[f][u].hash = <<f, keys + 1>>

LEMMA NewKeyIsNew ==
  ASSUME FlowInv, NEW f \in FlowIds, NEW u \in Users, keys' = keys + 1,
         apiKey' = [apiKey EXCEPT ![f][u] = NewKey(f)]
  PROVE  KeysAreNew
<1>1. \A g \in FlowIds, v \in Users :
        apiKey'[g][v] = IF g = f /\ v = u THEN NewKey(f) ELSE apiKey[g][v]
  BY DEF FlowInv, FlowRowsOK
<1>2. NewKey(f).hash = <<f, keys + 1>>
  BY DEF NewKey
<1> HIDE DEF NewKey
<1> QED BY <1>1, <1>2 DEF KeysAreNew

LEMMA StepsMakeNewKeys == FlowInv /\ (FlowNext \/ ManageKeys) => KeysAreNew
<1> SUFFICES ASSUME FlowInv, FlowNext \/ ManageKeys PROVE KeysAreNew
  OBVIOUS
<1>1. CASE UNCHANGED <<apiKey, keys>>
  BY <1>1 DEF KeysAreNew
<1>2. CASE FlowNext /\ ~UNCHANGED <<apiKey, keys>>
  <2>1. PICK r \in HttpRequests : EnsureKey(r) \/ InsertKey(r) \/ DeleteFlow(r)
    BY <1>2 DEF FlowNext, Edit, HandleSave, CheckCreate, CheckUpdate, CheckDelete, InsertFlow,
       UpdateFlow, Deploy, Unschedule, PerformCall, LoseCall, Reconcile, ReadFlows, ReadSchedulers,
       RepairOne, EndRound, BreakRound
  <2>2. saving[r] # None /\ saving[r].flow \in FlowIds /\ saving[r].user \in Users
    BY <2>1 DEF FlowInv, SavingOK, SaveRequest, EnsureKey, InsertKey, DeleteFlow
  <2>3. CASE EnsureKey(r) \/ InsertKey(r)
    <3>1. /\ keys' = keys + 1
          /\ apiKey' = [apiKey EXCEPT ![saving[r].flow][saving[r].user] = NewKey(saving[r].flow)]
      BY <1>2, <2>3 DEF EnsureKey, InsertKey
    <3> QED BY <2>2, <3>1, NewKeyIsNew
  <2>4. CASE DeleteFlow(r)
    <3>1. keys' = keys /\ apiKey' = [apiKey EXCEPT ![saving[r].flow] = [u \in Users |-> None]]
      BY <1>2, <2>4 DEF DeleteFlow
    <3>2. \A f \in FlowIds, u \in Users : apiKey'[f][u] # None => apiKey'[f][u] = apiKey[f][u]
      BY <2>2, <3>1 DEF FlowInv, FlowRowsOK
    <3> QED BY <3>1, <3>2 DEF KeysAreNew
  <2> QED BY <2>1, <2>3, <2>4
<1>3. CASE ManageKeys /\ ~UNCHANGED <<apiKey, keys>>
  <2>1. PICK f \in FlowIds, u \in Users : RenewKey(f, u) \/ \E by \in Users : RevokeKey(f, u, by)
    BY <1>3 DEF ManageKeys, Configure
  <2>2. CASE RenewKey(f, u)
    BY <2>2, NewKeyIsNew DEF RenewKey
  <2>3. CASE \E by \in Users : RevokeKey(f, u, by)
    <3>1. /\ apiKey[f][u] # None /\ apiKey' = [apiKey EXCEPT ![f][u].enabled = FALSE]
          /\ UNCHANGED keys
      BY <2>3 DEF RevokeKey
    <3>2. apiKey[f][u] \in KeyRow
      BY <3>1 DEF FlowInv, FlowRowsOK
    <3> DEFINE key == [apiKey[f][u] EXCEPT !.enabled = FALSE]
    <3>3. key.hash = apiKey[f][u].hash /\ ~key.enabled
      BY <3>2 DEF KeyRow
    <3>4. \A g \in FlowIds, v \in Users :
            apiKey'[g][v] = IF g = f /\ v = u THEN key ELSE apiKey[g][v]
      BY <3>1 DEF FlowInv, FlowRowsOK
    <3> QED BY <3>1, <3>3, <3>4 DEF KeysAreNew
  <2> QED BY <2>1, <2>2, <2>3
<1> QED BY <1>1, <1>2, <1>3

(* A hash that was given out and opens nothing never opens anything again.  *)
LEMMA DeadKeysStayDead ==
  ASSUME FlowInv, KeysAreNew, NEW hash \in FlowIds \X (1..keys), ~KeyIsLive(hash)
  PROVE  ~KeyIsLive(hash)'
<1>1. keys \in Nat /\ hash[2] # keys + 1
  BY FlowBoundsAssumption DEF FlowInv, FlowRowsOK, FlowBoundsAssumption
<1>2. \A f \in FlowIds : hash # <<f, keys + 1>>
  BY <1>1
<1> QED BY <1>2 DEF KeysAreNew, KeyIsLive

-------------------------------------------------------------------------------
(* The limiters: their hits, and the history of what they let through.     *)
HitRecord == [call : Nat, at : Nat]
Limiter == [hits : [LimiterKeys -> SUBSET HitRecord], swept : Nat]
Acceptance == [limiter : Limiters, key : LimiterKeys, limit : Int, call : Nat, at : Nat]

LimitersOK ==
  /\ clock \in 0..MaxClock /\ called \in 0..MaxCalls
  /\ limiters \in [Limiters -> Limiter]
  /\ \A l \in Limiters : limiters[l].swept \in 0..clock
  /\ \A l \in Limiters, k \in LimiterKeys :
       /\ limiters[l].hits[k] \subseteq [call : 1..called, at : 0..clock]
       /\ IsFiniteSet(limiters[l].hits[k])

(* What a limiter let through within its window it has kept as a hit, and   *)
(* no two of them are hits of one call.                                    *)
AcceptedOK ==
  /\ accepted \in Seq(Acceptance)
  /\ \A i \in DOMAIN accepted : accepted[i].call \in 1..called
  /\ \A i, j \in DOMAIN accepted :
       i # j /\ accepted[i].limiter = accepted[j].limiter => accepted[i].call # accepted[j].call
  /\ \A i \in DOMAIN accepted :
       accepted[i].limit > 0 /\ accepted[i].at > clock - Window(accepted[i].limiter) =>
         [call |-> accepted[i].call, at |-> accepted[i].at]
           \in limiters[accepted[i].limiter].hits[accepted[i].key]

(* A limiter has no other hits than those of what it let through.          *)
HitsOK ==
  \A l \in Limiters, key \in LimiterKeys : \A h \in limiters[l].hits[key] :
    \E i \in DOMAIN accepted :
      /\ accepted[i].limiter = l /\ accepted[i].key = key /\ accepted[i].limit > 0
      /\ h = [call |-> accepted[i].call, at |-> accepted[i].at]

LEMMA BoundsAreNatural ==
  /\ MaxClock \in Nat /\ MaxCalls \in Nat /\ IpLimit \in Int /\ DefaultLimit \in Int
  /\ Limits \subseteq Int
  /\ \A l : Window(l) \in Nat
<1> QED BY WindowAssumption DEF WindowAssumption, Window

(* A sweep forgets nothing that still counts.                              *)
LEMMA SweepsForgetNothing ==
  ASSUME LimitersOK, NEW l \in Limiters
  PROVE  /\ Swept(l) \in Limiter /\ Swept(l).swept \in 0..clock
         /\ \A k \in LimiterKeys :
              /\ Swept(l).hits[k] \subseteq limiters[l].hits[k]
              /\ Recent(limiters[l].hits[k], l) \subseteq Swept(l).hits[k]
<1>1. clock \in Nat /\ limiters[l] \in Limiter /\ limiters[l].swept \in 0..clock
  BY BoundsAreNatural DEF LimitersOK
<1>2. CASE Swept(l) = limiters[l]
  BY <1>1, <1>2 DEF Recent
<1>3. CASE Swept(l) = Sweep(l)
  <2>1. /\ Sweep(l).hits = [k \in LimiterKeys |-> Recent(limiters[l].hits[k], l)]
        /\ Sweep(l).swept = clock
    BY DEF Sweep
  <2>2. \A k \in LimiterKeys : /\ Recent(limiters[l].hits[k], l) \subseteq limiters[l].hits[k]
                               /\ limiters[l].hits[k] \subseteq HitRecord
    BY <1>1 DEF Recent, Limiter
  <2>3. Sweep(l) \in Limiter
    BY <1>1, <2>2 DEF Sweep, Limiter
  <2> QED BY <1>1, <1>3, <2>1, <2>2, <2>3
<1> QED BY <1>2, <1>3 DEF Swept

(* What a limiter keeps of a call under one of its keys.                   *)
LEMMA HitsAreKept ==
  ASSUME LimitersOK, NEW l \in Limiters, NEW key \in LimiterKeys, NEW limit \in Int, NEW n \in Nat
  PROVE  LET new == Hit(l, key, limit, n) IN
         /\ new \in Limiter /\ new.swept \in 0..clock
         /\ \A k \in LimiterKeys :
              /\ new.hits[k] \subseteq limiters[l].hits[k] \cup {[call |-> n, at |-> clock]}
              /\ Recent(limiters[l].hits[k], l) \subseteq new.hits[k]
         /\ limit > 0 /\ Allows(l, key, limit) => [call |-> n, at |-> clock] \in new.hits[key]
<1> DEFINE new == Hit(l, key, limit, n)
           hit == [call |-> n, at |-> clock]
           recent == Recent(Swept(l).hits[key], l)
           kept == IF Cardinality(recent) < limit THEN recent \cup {hit} ELSE recent
<1>1. clock \in Nat /\ limiters[l] \in Limiter /\ limiters[l].swept \in 0..clock
  BY BoundsAreNatural DEF LimitersOK
<1>2. CASE limit <= 0
  <2>1. new = limiters[l]
    BY <1>2 DEF Hit
  <2> QED BY <1>1, <1>2, <2>1 DEF Recent
<1>3. CASE ~(limit <= 0)
  <2>1. /\ Swept(l) \in Limiter /\ Swept(l).swept \in 0..clock
        /\ \A k \in LimiterKeys :
             /\ Swept(l).hits[k] \subseteq limiters[l].hits[k]
             /\ Recent(limiters[l].hits[k], l) \subseteq Swept(l).hits[k]
    BY SweepsForgetNothing
  <2>2. new = [Swept(l) EXCEPT !.hits[key] = kept]
    BY <1>3 DEF Hit
  <2>3. hit \in HitRecord /\ recent \subseteq Swept(l).hits[key]
        /\ Recent(limiters[l].hits[key], l) \subseteq recent
    BY <1>1, <2>1 DEF HitRecord, Recent
  <2>4. Swept(l).hits[key] \subseteq HitRecord
    BY <2>1 DEF Limiter
  <2>5. limit > 0 /\ Allows(l, key, limit) => kept = recent \cup {hit}
    BY <1>3 DEF Allows
  <2>6. recent \subseteq kept /\ kept \subseteq recent \cup {hit}
    OBVIOUS
  <2> HIDE DEF recent, kept, hit, new
  <2>7. kept \in SUBSET HitRecord
    BY <2>3, <2>4, <2>6
  <2>8. new \in Limiter /\ new.swept = Swept(l).swept
        /\ \A k \in LimiterKeys : new.hits[k] = IF k = key THEN kept ELSE Swept(l).hits[k]
    BY <2>1, <2>2, <2>7 DEF Limiter
  <2>9. \A k \in LimiterKeys : /\ new.hits[k] \subseteq limiters[l].hits[k] \cup {hit}
                               /\ Recent(limiters[l].hits[k], l) \subseteq new.hits[k]
    BY <2>1, <2>3, <2>6, <2>8
  <2>10. limit > 0 /\ Allows(l, key, limit) => hit \in new.hits[key]
    BY <2>5, <2>8
  <2> QED BY <2>1, <2>8, <2>9, <2>10 DEF new, hit
<1> QED BY <1>2, <1>3

(* What it has afterwards it had before, or is the call it lets through.   *)
LEMMA HitsAreNewOnlyOf ==
  ASSUME LimitersOK, NEW l \in Limiters, NEW key \in LimiterKeys, NEW limit \in Int, NEW n \in Nat
  PROVE  \A k \in LimiterKeys : \A h \in Hit(l, key, limit, n).hits[k] :
           \/ h \in limiters[l].hits[k]
           \/ k = key /\ limit > 0 /\ Allows(l, key, limit) /\ h = [call |-> n, at |-> clock]
<1> DEFINE hit == [call |-> n, at |-> clock]
           recent == Recent(Swept(l).hits[key], l)
           kept == IF Cardinality(recent) < limit THEN recent \cup {hit} ELSE recent
<1>1. CASE limit <= 0
  BY <1>1 DEF Hit
<1>2. CASE ~(limit <= 0)
  <2>1. /\ Swept(l) \in Limiter
        /\ \A k \in LimiterKeys : Swept(l).hits[k] \subseteq limiters[l].hits[k]
    BY SweepsForgetNothing
  <2>2. Hit(l, key, limit, n) = [Swept(l) EXCEPT !.hits[key] = kept]
    BY <1>2 DEF Hit
  <2>3. recent \subseteq limiters[l].hits[key]
    BY <2>1 DEF Recent
  <2>4. kept = recent \/ (kept = recent \cup {hit} /\ limit > 0 /\ Allows(l, key, limit))
    BY <1>2 DEF Allows
  <2> HIDE DEF recent, kept, hit
  <2>5. \A k \in LimiterKeys :
          Hit(l, key, limit, n).hits[k] = IF k = key THEN kept ELSE Swept(l).hits[k]
    BY <2>1, <2>2 DEF Limiter
  <2>6. \A k \in LimiterKeys : \A h \in Hit(l, key, limit, n).hits[k] :
          h \in limiters[l].hits[k] \/ (k = key /\ limit > 0 /\ Allows(l, key, limit) /\ h = hit)
    BY <2>1, <2>3, <2>4, <2>5
  <2> QED BY <2>6 DEF hit
<1> QED BY <1>1, <1>2

RateKept == LimitersOK /\ AcceptedOK /\ HitsOK /\ NobodyExceedsTheRate

(* Which of the first n entries count against one under key at an instant.  *)
CountedOf(seq, n, l, key, at) ==
  {j \in 1..n : /\ seq[j].limiter = l /\ seq[j].key = key
                /\ seq[j].limit > 0 /\ seq[j].at > at - Window(l)}

(* Each of them is a recent hit of the limiter, of another call.           *)
LEMMA CountedAreHits ==
  ASSUME RateKept, NEW l \in Limiters, NEW key \in LimiterKeys
  PROVE  LET counted == CountedOf(accepted, Len(accepted), l, key, clock)
             hits == Recent(limiters[l].hits[key], l)
         IN  /\ IsFiniteSet(counted) /\ IsFiniteSet(hits)
             /\ Cardinality(counted) \in Nat /\ Cardinality(hits) \in Nat
             /\ Cardinality(counted) = Cardinality(hits)
<1> DEFINE counted == CountedOf(accepted, Len(accepted), l, key, clock)
           hits == Recent(limiters[l].hits[key], l)
           image == [j \in counted |-> [call |-> accepted[j].call, at |-> accepted[j].at]]
<1>1. /\ Len(accepted) \in Nat /\ DOMAIN accepted = 1..Len(accepted)
      /\ \A j \in DOMAIN accepted : accepted[j] \in Acceptance
  BY DEF RateKept, AcceptedOK
<1>2. counted \subseteq 1..Len(accepted)
  BY DEF CountedOf
<1>3. IsFiniteSet(counted)
  <2>1. IsFiniteSet(1..Len(accepted))
    BY <1>1, FS_Interval
  <2> HIDE DEF counted
  <2> QED BY <1>2, <2>1, FS_Subset
<1>4. IsFiniteSet(hits)
  BY FS_Subset DEF RateKept, LimitersOK, Recent
<1>5. image \in [counted -> hits]
  <2> SUFFICES ASSUME NEW j \in counted
               PROVE  [call |-> accepted[j].call, at |-> accepted[j].at] \in hits
    OBVIOUS
  <2>1. /\ j \in DOMAIN accepted /\ accepted[j].limiter = l /\ accepted[j].key = key
        /\ accepted[j].limit > 0 /\ accepted[j].at > clock - Window(l)
    BY <1>1 DEF CountedOf
  <2>2. [call |-> accepted[j].call, at |-> accepted[j].at] \in limiters[l].hits[key]
    BY <2>1 DEF RateKept, AcceptedOK
  <2> QED BY <2>1, <2>2 DEF Recent
<1>6. \A i, j \in counted : i # j => image[i] # image[j]
  BY <1>1, <1>2 DEF RateKept, AcceptedOK, CountedOf
<1> DEFINE entry == [h \in hits |-> CHOOSE j \in counted : image[j] = h]
<1>9. \A h \in hits : \E j \in counted : image[j] = h
  <2> SUFFICES ASSUME NEW h \in hits PROVE \E j \in counted : image[j] = h
    OBVIOUS
  <2>1. h \in limiters[l].hits[key] /\ h.at > clock - Window(l)
    BY DEF Recent
  <2>2. PICK j \in DOMAIN accepted :
          /\ accepted[j].limiter = l /\ accepted[j].key = key /\ accepted[j].limit > 0
          /\ h = [call |-> accepted[j].call, at |-> accepted[j].at]
    BY <2>1 DEF RateKept, HitsOK
  <2>3. accepted[j].at > clock - Window(l)
    BY <2>1, <2>2
  <2>4. j \in counted
    BY <1>1, <2>2, <2>3 DEF CountedOf
  <2> QED BY <2>2, <2>4
<1> HIDE DEF counted, hits, image
<1>10. \A h \in hits : entry[h] \in counted /\ image[entry[h]] = h
  BY <1>9
<1>11. entry \in [hits -> counted] /\ \A g, h \in hits : g # h => entry[g] # entry[h]
  <2>1. \A g, h \in hits : g # h => entry[g] # entry[h]
    BY <1>10
  <2>2. entry \in [hits -> counted]
    BY <1>10
  <2> QED BY <2>1, <2>2
<1> HIDE DEF entry
<1>12. ~(Cardinality(counted) < Cardinality(hits))
  BY <1>3, <1>4, <1>11, FS_PigeonHole
<1>7. Cardinality(counted) \in Nat /\ Cardinality(hits) \in Nat
  BY <1>3, <1>4, FS_CardinalityType
<1>8. ~(Cardinality(hits) < Cardinality(counted))
  BY <1>3, <1>4, <1>5, <1>6, FS_PigeonHole
<1> QED BY <1>3, <1>4, <1>7, <1>8, <1>12 DEF counted, hits

LEMMA RateStutters ==
  ASSUME RateKept, UNCHANGED <<clock, limiters, called, accepted>>
  PROVE  RateKept'
<1>1. LimitersOK' /\ AcceptedOK'
  BY DEF RateKept, LimitersOK, AcceptedOK
<1>2. HitsOK'
  BY DEF RateKept, HitsOK
<1>3. NobodyExceedsTheRate'
  BY DEF RateKept, NobodyExceedsTheRate
<1> QED BY <1>1, <1>2, <1>3 DEF RateKept

(* A limiter is asked about a call it has no entry of.                     *)
LEMMA AskingKeepsRate ==
  ASSUME RateKept, NEW l \in Limiters, NEW key \in LimiterKeys, NEW limit \in Int,
         called' \in {called, called + 1}, called' <= MaxCalls, NEW n \in 1..called',
         \A i \in DOMAIN accepted : accepted[i].limiter = l => accepted[i].call # n,
         clock' = clock, limiters' = [limiters EXCEPT ![l] = Hit(l, key, limit, n)],
         accepted' = IF Allows(l, key, limit) THEN Accept(l, key, limit, n) ELSE accepted
  PROVE  RateKept'
<1> DEFINE new == Hit(l, key, limit, n)
           entry == [limiter |-> l, key |-> key, limit |-> limit, call |-> n, at |-> clock]
           len == Len(accepted)
<1>1. /\ clock \in Nat /\ clock \in 0..MaxClock /\ called \in 0..MaxCalls /\ n \in Nat
      /\ MaxCalls \in Nat /\ called' \in 0..MaxCalls /\ called <= called'
      /\ \A k : Window(k) \in Nat
  BY BoundsAreNatural DEF RateKept, LimitersOK
<1>2. /\ new \in Limiter /\ new.swept \in 0..clock
      /\ \A k \in LimiterKeys :
           /\ new.hits[k] \subseteq limiters[l].hits[k] \cup {[call |-> n, at |-> clock]}
           /\ Recent(limiters[l].hits[k], l) \subseteq new.hits[k]
      /\ limit > 0 /\ Allows(l, key, limit) => [call |-> n, at |-> clock] \in new.hits[key]
  BY <1>1, HitsAreKept DEF RateKept
<1>11. \A k \in LimiterKeys : \A h \in new.hits[k] :
         \/ h \in limiters[l].hits[k]
         \/ k = key /\ limit > 0 /\ Allows(l, key, limit) /\ h = [call |-> n, at |-> clock]
  BY <1>1, HitsAreNewOnlyOf DEF RateKept
<1> HIDE DEF new
<1>3. /\ limiters' \in [Limiters -> Limiter]
      /\ \A m \in Limiters : limiters'[m] = IF m = l THEN new ELSE limiters[m]
  BY <1>2 DEF RateKept, LimitersOK, new
<1>4. LimitersOK'
  <2>1. \A m \in Limiters : limiters'[m].swept \in 0..clock
    BY <1>2, <1>3 DEF RateKept, LimitersOK
  <2>2. \A m \in Limiters, k \in LimiterKeys :
          limiters'[m].hits[k] \subseteq limiters[m].hits[k] \cup {[call |-> n, at |-> clock]}
    BY <1>2, <1>3
  <2>3. [call : 1..called, at : 0..clock] \subseteq [call : 1..called', at : 0..clock]
        /\ [call |-> n, at |-> clock] \in [call : 1..called', at : 0..clock]
    BY <1>1
  <2>4. \A m \in Limiters, k \in LimiterKeys :
          /\ limiters'[m].hits[k] \subseteq [call : 1..called', at : 0..clock]
          /\ IsFiniteSet(limiters'[m].hits[k])
    <3> SUFFICES ASSUME NEW m \in Limiters, NEW k \in LimiterKeys
                 PROVE  /\ limiters'[m].hits[k] \subseteq [call : 1..called', at : 0..clock]
                        /\ IsFiniteSet(limiters'[m].hits[k])
      OBVIOUS
    <3>1. limiters[m].hits[k] \subseteq [call : 1..called, at : 0..clock]
          /\ IsFiniteSet(limiters[m].hits[k])
      BY DEF RateKept, LimitersOK
    <3>2. IsFiniteSet(limiters[m].hits[k] \cup {[call |-> n, at |-> clock]})
      BY <3>1, FS_AddElement
    <3>3. IsFiniteSet(limiters'[m].hits[k])
      BY <2>2, <3>2, FS_Subset
    <3> QED BY <2>2, <2>3, <3>1, <3>3
  <2> QED BY <1>1, <1>3, <2>1, <2>4 DEF LimitersOK
<1>5. /\ len \in Nat /\ accepted \in Seq(Acceptance) /\ DOMAIN accepted = 1..len
      /\ \A i \in 1..len : accepted[i] \in Acceptance
  BY DEF RateKept, AcceptedOK
<1>6. entry \in Acceptance
  BY <1>1 DEF Acceptance
(* What was accepted before keeps its place in the hits.                   *)
<1>7. \A i \in 1..len :
        accepted[i].limit > 0 /\ accepted[i].at > clock - Window(accepted[i].limiter) =>
          [call |-> accepted[i].call, at |-> accepted[i].at]
            \in limiters'[accepted[i].limiter].hits[accepted[i].key]
  <2> SUFFICES ASSUME NEW i \in 1..len, accepted[i].limit > 0,
                      accepted[i].at > clock - Window(accepted[i].limiter)
               PROVE  [call |-> accepted[i].call, at |-> accepted[i].at]
                        \in limiters'[accepted[i].limiter].hits[accepted[i].key]
    OBVIOUS
  <2>1. accepted[i].limiter \in Limiters /\ accepted[i].key \in LimiterKeys
    BY <1>5 DEF Acceptance
  <2>2. [call |-> accepted[i].call, at |-> accepted[i].at]
          \in limiters[accepted[i].limiter].hits[accepted[i].key]
    BY <1>5 DEF RateKept, AcceptedOK
  <2>3. CASE accepted[i].limiter = l
    <3>1. [call |-> accepted[i].call, at |-> accepted[i].at]
            \in Recent(limiters[l].hits[accepted[i].key], l)
      BY <2>2, <2>3 DEF Recent
    <3> QED BY <1>2, <1>3, <2>1, <2>3, <3>1
  <2>4. CASE accepted[i].limiter # l
    BY <1>3, <2>1, <2>2, <2>4
  <2> QED BY <2>3, <2>4
(* A hit is an old one, or of the request that is let through.             *)
<1>10. ASSUME NEW m \in Limiters, NEW k \in LimiterKeys, NEW h \in limiters'[m].hits[k]
       PROVE  \/ \E i \in 1..len :
                   /\ accepted[i].limiter = m /\ accepted[i].key = k /\ accepted[i].limit > 0
                   /\ h = [call |-> accepted[i].call, at |-> accepted[i].at]
              \/ /\ m = l /\ k = key /\ limit > 0 /\ Allows(l, key, limit)
                 /\ h = [call |-> n, at |-> clock]
  <2>1. CASE h \in limiters[m].hits[k]
    BY <1>5, <2>1 DEF RateKept, HitsOK
  <2>2. CASE h \notin limiters[m].hits[k]
    BY <1>3, <1>10, <1>11, <2>2
  <2> QED BY <2>1, <2>2
<1>8. CASE accepted' = accepted /\ ~Allows(l, key, limit)
  <2>1. \A i \in DOMAIN accepted : accepted[i].call \in 1..called'
    BY <1>1, <1>5 DEF RateKept, AcceptedOK
  <2>3. AcceptedOK'
    BY <1>5, <1>7, <1>8, <2>1 DEF RateKept, AcceptedOK
  <2>2. NobodyExceedsTheRate'
    BY <1>8 DEF RateKept, NobodyExceedsTheRate
  <2>4. HitsOK'
    BY <1>5, <1>8, <1>10 DEF HitsOK
  <2> QED BY <1>4, <2>2, <2>3, <2>4 DEF RateKept
<1>9. CASE Allows(l, key, limit) /\ accepted' = Append(accepted, entry)
  <2>1. /\ accepted' \in Seq(Acceptance) /\ DOMAIN accepted' = 1..len + 1 /\ Len(accepted') = len + 1
        /\ \A i \in 1..len : accepted'[i] = accepted[i]
        /\ accepted'[len + 1] = entry
    <3>1. PICK a : a = accepted'
      OBVIOUS
    <3>2. a = Append(accepted, entry)
      BY <1>9, <3>1
    <3> HIDE DEF entry
    <3>3. /\ a \in Seq(Acceptance) /\ DOMAIN a = 1..len + 1 /\ Len(a) = len + 1
          /\ \A i \in 1..len : a[i] = accepted[i]
          /\ a[len + 1] = entry
      BY <1>5, <1>6, <3>2, AppendProperties, LenProperties
    <3> QED BY <3>1, <3>3
  <2>2. \A i \in DOMAIN accepted' : accepted'[i].call \in 1..called'
    <3>1. ASSUME NEW i \in 1..len PROVE accepted[i].call \in 1..called
      BY <1>5 DEF RateKept, AcceptedOK
    <3>2. called \in Nat
      BY DEF RateKept, LimitersOK
    <3>3. 1..called \subseteq 1..called'
      BY <3>2
    <3>4. entry.call \in 1..called'
      OBVIOUS
    <3> QED BY <1>5, <2>1, <3>1, <3>3, <3>4
  <2>3. \A i, j \in DOMAIN accepted' :
          i # j /\ accepted'[i].limiter = accepted'[j].limiter => accepted'[i].call # accepted'[j].call
    BY <1>5, <2>1 DEF RateKept, AcceptedOK
  <2>4. \A i \in DOMAIN accepted' :
          accepted'[i].limit > 0 /\ accepted'[i].at > clock - Window(accepted'[i].limiter) =>
            [call |-> accepted'[i].call, at |-> accepted'[i].at]
              \in limiters'[accepted'[i].limiter].hits[accepted'[i].key]
    <3>1. limit > 0 => [call |-> n, at |-> clock] \in limiters'[l].hits[key]
      BY <1>2, <1>3, <1>9
    <3>2. ASSUME NEW i \in 1..len
          PROVE  accepted'[i].limit > 0 /\ accepted'[i].at > clock - Window(accepted'[i].limiter) =>
                   [call |-> accepted'[i].call, at |-> accepted'[i].at]
                     \in limiters'[accepted'[i].limiter].hits[accepted'[i].key]
      BY <1>7, <2>1, <3>2
    <3>3. ASSUME limit > 0
          PROVE  [call |-> accepted'[len + 1].call, at |-> accepted'[len + 1].at]
                     \in limiters'[accepted'[len + 1].limiter].hits[accepted'[len + 1].key]
      BY <2>1, <3>1, <3>3
    <3>4. accepted'[len + 1].limit = limit
      BY <2>1
    <3>5. DOMAIN accepted' = 1..len \cup {len + 1}
      BY <1>5, <2>1
    <3> QED BY <3>2, <3>3, <3>4, <3>5
  <2>5. AcceptedOK'
    BY <2>1, <2>2, <2>3, <2>4 DEF AcceptedOK
  <2>6. NobodyExceedsTheRate'
    <3> SUFFICES ASSUME NEW i \in DOMAIN accepted', accepted'[i].limit > 0
                 PROVE  Cardinality(CountedOf(accepted', i, accepted'[i].limiter, accepted'[i].key,
                                            accepted'[i].at)) <= accepted'[i].limit
      BY DEF NobodyExceedsTheRate, CountedOf
    <3>1. CASE i \in 1..len
      <4>1. CountedOf(accepted', i, accepted'[i].limiter, accepted'[i].key, accepted'[i].at)
              = CountedOf(accepted, i, accepted[i].limiter, accepted[i].key, accepted[i].at)
        BY <1>5, <2>1, <3>1 DEF CountedOf
      <4> QED BY <1>5, <2>1, <3>1, <4>1 DEF RateKept, NobodyExceedsTheRate, CountedOf
    <3>2. CASE i = len + 1
      <4> DEFINE before == CountedOf(accepted, len, l, key, clock)
                 hits == Recent(limiters[l].hits[key], l)
      <4>1. accepted'[i] = entry /\ limit > 0
        BY <2>1, <3>2
      <4>2. CountedOf(accepted', i, l, key, clock) \subseteq before \cup {len + 1}
        <5> SUFFICES ASSUME NEW j \in CountedOf(accepted', i, l, key, clock), j # len + 1
                     PROVE  j \in before
          OBVIOUS
        <5>1. j \in 1..len
          BY <1>5, <3>2 DEF CountedOf
        <5> QED BY <2>1, <5>1 DEF CountedOf
      <4>3. /\ IsFiniteSet(before) /\ Cardinality(before) \in Nat /\ Cardinality(hits) \in Nat
            /\ Cardinality(before) = Cardinality(hits)
        BY CountedAreHits
      <4>4. Cardinality(hits) < limit
        <5>1. Recent(Swept(l).hits[key], l) = hits
          BY SweepsForgetNothing DEF RateKept, Recent
        <5> QED BY <1>9, <4>1, <5>1 DEF Allows
      <4>5. len + 1 \notin before
        BY <1>5 DEF CountedOf
      <4> HIDE DEF before, hits
      <4>6. Cardinality(before \cup {len + 1}) = Cardinality(before) + 1
        BY <4>3, <4>5, FS_AddElement
      <4>7. Cardinality(before \cup {len + 1}) <= limit
        BY <4>3, <4>4, <4>6
      <4>8. /\ IsFiniteSet(before \cup {len + 1})
            /\ Cardinality(CountedOf(accepted', i, l, key, clock)) <= Cardinality(before \cup {len + 1})
            /\ IsFiniteSet(CountedOf(accepted', i, l, key, clock))
        BY <4>2, <4>3, FS_AddElement, FS_Subset
      <4>9. /\ Cardinality(before \cup {len + 1}) \in Nat
            /\ Cardinality(CountedOf(accepted', i, l, key, clock)) \in Nat
        BY <4>8, FS_CardinalityType
      <4>10. Cardinality(CountedOf(accepted', i, l, key, clock)) <= limit
        BY <4>7, <4>8, <4>9
      <4> QED BY <4>1, <4>10
    <3> QED BY <1>5, <2>1, <3>1, <3>2
  <2>7. HitsOK'
    <3> SUFFICES ASSUME NEW m \in Limiters, NEW k \in LimiterKeys, NEW h \in limiters'[m].hits[k]
                 PROVE  \E i \in DOMAIN accepted' :
                          /\ accepted'[i].limiter = m /\ accepted'[i].key = k /\ accepted'[i].limit > 0
                          /\ h = [call |-> accepted'[i].call, at |-> accepted'[i].at]
      BY DEF HitsOK
    <3>1. CASE \E i \in 1..len :
                 /\ accepted[i].limiter = m /\ accepted[i].key = k /\ accepted[i].limit > 0
                 /\ h = [call |-> accepted[i].call, at |-> accepted[i].at]
      <4>1. PICK i \in 1..len :
                 /\ accepted[i].limiter = m /\ accepted[i].key = k /\ accepted[i].limit > 0
                 /\ h = [call |-> accepted[i].call, at |-> accepted[i].at]
        BY <3>1
      <4>2. i \in DOMAIN accepted' /\ accepted'[i] = accepted[i]
        BY <1>5, <2>1
      <4> QED BY <4>1, <4>2
    <3>2. CASE m = l /\ k = key /\ limit > 0 /\ h = [call |-> n, at |-> clock]
      <4>1. len + 1 \in DOMAIN accepted' /\ accepted'[len + 1] = entry
        BY <1>5, <2>1
      <4>2. entry.limiter = m /\ entry.key = k /\ entry.limit > 0
            /\ h = [call |-> entry.call, at |-> entry.at]
        BY <3>2
      <4> QED BY <4>1, <4>2
    <3> QED BY <1>10, <3>1, <3>2
  <2> QED BY <1>4, <2>5, <2>6, <2>7 DEF RateKept
<1> QED BY <1>8, <1>9 DEF Accept

LEMMA TimeKeepsRate ==
  ASSUME RateKept, clock < MaxClock, clock' = clock + 1, UNCHANGED <<limiters, called, accepted>>
  PROVE  RateKept'
<1>1. clock \in Nat /\ clock' \in 0..MaxClock /\ \A l : Window(l) \in Nat
  BY BoundsAreNatural DEF RateKept, LimitersOK
<1>2. LimitersOK'
  <2>1. 0..clock \subseteq 0..clock'
    BY <1>1
  <2>2. [call : 1..called, at : 0..clock] \subseteq [call : 1..called, at : 0..clock']
    BY <2>1
  <2> QED BY <1>1, <2>1, <2>2 DEF RateKept, LimitersOK
<1>3. AcceptedOK'
  <2>1. \A i \in DOMAIN accepted : accepted[i].at \in Nat
    <3>1. \A i \in DOMAIN accepted : accepted[i] \in Acceptance
      BY DEF RateKept, AcceptedOK
    <3> QED BY <3>1 DEF Acceptance
  <2>2. \A i \in DOMAIN accepted : accepted[i].at > clock' - Window(accepted[i].limiter)
                                     => accepted[i].at > clock - Window(accepted[i].limiter)
    BY <1>1, <2>1
  <2> QED BY <2>2 DEF RateKept, AcceptedOK
<1>4. NobodyExceedsTheRate' /\ HitsOK'
  BY DEF RateKept, NobodyExceedsTheRate, HitsOK
<1> QED BY <1>2, <1>3, <1>4 DEF RateKept

-------------------------------------------------------------------------------
(* The calls in progress, and what they have presented and been allowed.   *)
Target == [flow : FlowIds, limit : Limits \cup {0}, slug : Names \cup FlowIds]
CallRecord ==
  [pc : {"authenticate", "load", "insert"}, number : Nat, target : Target,
   credential : Credential, live : BOOLEAN]

Opened(credential, f) ==
  /\ credential.type = "secret" => credential.value = Secret[f]
  /\ credential.type = "key" => credential.hash[1] = f

(* A key that was not live on arrival was given out before, so that it      *)
(* cannot become live while the call is served.                            *)
CallOK(c) ==
  /\ call[c] \in CallRecord
  /\ call[c].number \in 1..called
  /\ call[c].credential.type = "key" => call[c].credential.hash \in FlowIds \X (1..keys)
  /\ call[c].pc = "authenticate" =>
       /\ ~call[c].live => call[c].credential.type = "key" /\ ~KeyIsLive(call[c].credential.hash)
       /\ \A i \in DOMAIN accepted : accepted[i].limiter # "ip" => accepted[i].call # call[c].number
  /\ call[c].pc # "authenticate" =>
       Opened(call[c].credential, call[c].target.flow) /\ call[c].live

CallsOK ==
  /\ DOMAIN call = Callers
  /\ \A c \in Callers : call[c] # None => CallOK(c)
  /\ \A c, d \in Callers :
       c # d /\ call[c] # None /\ call[d] # None => call[c].number # call[d].number

RunsOK ==
  /\ runs \in Seq([flow : FlowIds, credential : Credential, live : BOOLEAN])
  /\ RunsWhatWasAuthenticated

WebhookInv == FlowInv /\ RateKept /\ CallsOK /\ RunsOK

(* Before the first call, at any hour.                                     *)
LEMMA CallsBegin ==
  ASSUME FlowInv, clock \in 0..MaxClock, called = 0, accepted = <<>>, runs = <<>>,
         limiters = [l \in Limiters |-> [hits |-> [k \in LimiterKeys |-> {}], swept |-> 0]],
         call = [c \in Callers |-> None]
  PROVE  WebhookInv
<1>2. called = 0 /\ accepted = <<>> /\ runs = <<>>
      /\ limiters = [l \in Limiters |-> [hits |-> [k \in LimiterKeys |-> {}], swept |-> 0]]
  OBVIOUS
<1>3. LimitersOK
  <2>1. limiters \in [Limiters -> Limiter]
    BY <1>2 DEF Limiter
  <2>2. \A l \in Limiters :
          limiters[l].swept = 0 /\ \A k \in LimiterKeys : limiters[l].hits[k] = {}
    BY <1>2
  <2>3. \A l \in Limiters, k \in LimiterKeys :
          /\ limiters[l].hits[k] \subseteq [call : 1..called, at : 0..clock]
          /\ IsFiniteSet(limiters[l].hits[k])
    BY <2>2, FS_EmptySet
  <2>4. clock \in 0..MaxClock /\ called \in 0..MaxCalls /\ 0 \in 0..clock
    BY BoundsAreNatural
  <2> QED BY <2>1, <2>2, <2>3, <2>4 DEF LimitersOK
<1>4. AcceptedOK /\ HitsOK /\ NobodyExceedsTheRate
  <2>1. \A l \in Limiters, k \in LimiterKeys : limiters[l].hits[k] = {}
    BY <1>2
  <2>2. HitsOK
    BY <2>1 DEF HitsOK
  <2> QED BY <1>2, <2>2 DEF AcceptedOK, NobodyExceedsTheRate
<1>5. CallsOK
  BY DEF CallsOK
<1>6. RunsOK
  BY <1>2 DEF RunsOK, RunsWhatWasAuthenticated
<1> QED BY <1>3, <1>4, <1>5, <1>6 DEF WebhookInv, RateKept

LEMMA WebhookStarts == WebhookInit => WebhookInv
<1> SUFFICES ASSUME WebhookInit PROVE WebhookInv
  OBVIOUS
<1>1. FlowInv /\ clock \in 0..MaxClock
  BY FlowStarts, BoundsAreNatural DEF WebhookInit
<1> QED BY <1>1, CallsBegin DEF WebhookInit

(* Steps on the rows leave the calls alone, but a key may be made, revoked  *)
(* or lost.                                                                *)
LEMMA RowStepsKeepCalls ==
  ASSUME WebhookInv, KeysAreNew, UNCHANGED callVars
  PROVE  CallsOK'
<1>1. UNCHANGED <<call, called, accepted>>
  BY DEF callVars
<1>2. FlowIds \X (1..keys) \subseteq FlowIds \X (1..keys')
  BY FlowBoundsAssumption DEF WebhookInv, FlowInv, FlowRowsOK, FlowBoundsAssumption, KeysAreNew
<1>3. ASSUME NEW c \in Callers, call[c] # None PROVE CallOK(c)'
  <2>1. CallOK(c)
    BY <1>3 DEF WebhookInv, CallsOK
  <2>2. ASSUME call[c].pc = "authenticate", ~call[c].live
        PROVE  call[c].credential.type = "key" /\ ~KeyIsLive(call[c].credential.hash)'
    <3> DEFINE hash == call[c].credential.hash
    <3>1. call[c].credential.type = "key" /\ hash \in FlowIds \X (1..keys) /\ ~KeyIsLive(hash)
      BY <2>1, <2>2 DEF CallOK
    <3>2. hash' = hash
      BY <1>1
    <3> HIDE DEF hash
    <3>3. \A h \in FlowIds \X (1..keys) : ~KeyIsLive(h) => ~KeyIsLive(h)'
      BY DeadKeysStayDead DEF WebhookInv
    <3>4. ~KeyIsLive(hash)'
      BY <3>1, <3>2, <3>3 DEF KeyIsLive
    <3> QED BY <3>1, <3>4 DEF hash, KeyIsLive
  <2> QED BY <1>1, <1>2, <2>1, <2>2 DEF CallOK, KeyIsLive
<1> QED BY <1>1, <1>3 DEF WebhookInv, CallsOK

LEMMA RowStepsKeep ==
  ASSUME WebhookInv, FlowNext \/ ManageKeys, UNCHANGED callVars
  PROVE  WebhookInv'
<1>1. FlowInv'
  BY FlowStepKeeps, ManagementKeeps DEF WebhookInv
<1>2. KeysAreNew
  BY StepsMakeNewKeys DEF WebhookInv
<1>3. CallsOK'
  BY <1>2, RowStepsKeepCalls
<1>4. RateKept' /\ RunsOK'
  BY RateStutters DEF WebhookInv, callVars, RunsOK, RunsWhatWasAuthenticated
<1> QED BY <1>1, <1>3, <1>4 DEF WebhookInv

(* A call is counted against its address; it goes on as next.              *)
LEMMA CountKeeps ==
  ASSUME WebhookInv, NEW c \in Callers, call[c] = None, NEW next, CountIp(c, next),
         \/ next = None
         \/ /\ next \in CallRecord /\ next.pc = "authenticate" /\ next.number = called + 1
            /\ next.credential.type = "key" => next.credential.hash \in FlowIds \X (1..keys)
            /\ ~next.live => next.credential.type = "key" /\ ~KeyIsLive(next.credential.hash),
         UNCHANGED flowVars, UNCHANGED <<clock, runs>>
  PROVE  WebhookInv'
<1>1. called \in Nat /\ called' = called + 1 /\ called' <= MaxCalls /\ MaxCalls \in Nat
  BY BoundsAreNatural DEF CountIp, WebhookInv, RateKept, LimitersOK
<1>2. \A i \in DOMAIN accepted : accepted[i].call # called'
  BY <1>1 DEF WebhookInv, RateKept, AcceptedOK
<1>3. RateKept'
  <2>1. /\ limiters' = [limiters EXCEPT !["ip"] = Hit("ip", "ip", IpLimit, called')]
        /\ accepted' = IF Allows("ip", "ip", IpLimit) THEN Accept("ip", "ip", IpLimit, called')
                       ELSE accepted
    BY DEF CountIp
  <2>2. "ip" \in Limiters /\ "ip" \in LimiterKeys /\ IpLimit \in Int /\ RateKept
        /\ called' \in 1..called'
    BY <1>1, BoundsAreNatural DEF Limiters, LimiterKeys, WebhookInv
  <2>3. clock' = clock /\ called' \in {called, called + 1} /\ called' <= MaxCalls
    BY <1>1
  <2>4. \A i \in DOMAIN accepted : accepted[i].limiter = "ip" => accepted[i].call # called'
    BY <1>2
  <2> DEFINE n == called'
  <2> HIDE DEF n
  <2>5. n \in 1..called' /\ n = called'
    BY <2>2 DEF n
  <2> QED BY <2>1, <2>2, <2>3, <2>4, <2>5, AskingKeepsRate
<1>4. FlowInv'
  BY FlowInvStutters DEF WebhookInv
<1>5. RunsOK'
  BY DEF WebhookInv, RunsOK, RunsWhatWasAuthenticated
<1>6. /\ DOMAIN call' = Callers
      /\ \A d \in Callers : d # c => call'[d] = call[d]
      /\ call'[c] = None \/ call'[c] = next
  BY DEF CountIp, WebhookInv, CallsOK
<1>7. UNCHANGED <<keys, apiKey>>
  BY DEF flowVars
<1>8. \A i \in DOMAIN accepted' : accepted'[i].limiter # "ip" =>
        i \in DOMAIN accepted /\ accepted'[i] = accepted[i]
  <2>1. CASE accepted' = accepted
    BY <2>1
  <2>2. CASE accepted' = Accept("ip", "ip", IpLimit, called')
    <3> DEFINE entry == [limiter |-> "ip", key |-> "ip", limit |-> IpLimit, call |-> called',
                         at |-> clock]
    <3>1. accepted \in Seq(Acceptance)
      BY DEF WebhookInv, RateKept, AcceptedOK
    <3>2. entry \in Acceptance
      BY <1>1, BoundsAreNatural DEF Acceptance, Limiters, LimiterKeys, WebhookInv, RateKept, LimitersOK
    <3>3. accepted' = Append(accepted, entry)
      BY <2>2 DEF Accept
    <3>4. entry.limiter = "ip"
      OBVIOUS
    <3> HIDE DEF entry
    <3>5. /\ DOMAIN accepted = 1..Len(accepted) /\ Len(accepted) \in Nat
          /\ DOMAIN accepted' = 1..Len(accepted) + 1
          /\ \A i \in 1..Len(accepted) : accepted'[i] = accepted[i]
          /\ accepted'[Len(accepted) + 1] = entry
      BY <3>1, <3>2, <3>3, AppendProperties, LenProperties
    <3> QED BY <3>4, <3>5
  <2> QED BY <2>1, <2>2 DEF CountIp
<1>9. ASSUME NEW d \in Callers, call'[d] # None PROVE CallOK(d)'
  <2>1. CASE d # c
    <3>1. CallOK(d) /\ call'[d] = call[d]
      BY <1>6, <1>9, <2>1 DEF WebhookInv, CallsOK
    <3>2. call'[d].number \in 1..called'
      BY <1>1, <3>1 DEF CallOK
    <3> QED BY <1>7, <1>8, <3>1, <3>2 DEF CallOK, KeyIsLive
  <2>2. CASE d = c
    <3>1. call'[d] = next /\ next # None
      BY <1>6, <1>9, <2>2
    <3>2. next.number \in 1..called' /\ next.number = called'
      BY <1>1, <3>1
    <3> QED BY <1>2, <1>7, <1>8, <3>1, <3>2 DEF CallOK, KeyIsLive
  <2> QED BY <2>1, <2>2
<1>10. ASSUME NEW d \in Callers, NEW e \in Callers, d # e, call'[d] # None, call'[e] # None
       PROVE  call'[d].number # call'[e].number
  <2>1. \A b \in Callers : b # c /\ call'[b] # None => call'[b].number \in 1..called
    BY <1>6 DEF WebhookInv, CallsOK, CallOK
  <2>2. call'[c] # None => call'[c].number = called + 1
    BY <1>6
  <2>3. CASE d = c \/ e = c
    BY <1>1, <1>10, <2>1, <2>2, <2>3
  <2>4. CASE d # c /\ e # c
    BY <1>6, <1>10, <2>4 DEF WebhookInv, CallsOK
  <2> QED BY <2>3, <2>4
<1>11. CallsOK'
  BY <1>6, <1>9, <1>10 DEF CallsOK
<1> QED BY <1>3, <1>4, <1>5, <1>11 DEF WebhookInv

LEMMA ArriveKeeps ==
  ASSUME WebhookInv, NEW c \in Callers, NEW target \in Names \cup FlowIds,
         NEW credential \in Keys \cup Secrets, Arrive(c, target, credential), UNCHANGED flowVars
  PROVE  WebhookInv'
<1> DEFINE live == credential.type = "key" => KeyIsLive(credential.hash)
<1>1. PICK found \in Resolves(target) :
        CountIp(c, [pc |-> "authenticate", number |-> called', target |-> found,
                    credential |-> credential, live |-> live])
  BY DEF Arrive
<1> DEFINE next == [pc |-> "authenticate", number |-> called', target |-> found,
                    credential |-> credential, live |-> live]
<1>2. called \in Nat /\ called' = called + 1
  BY <1>1, BoundsAreNatural DEF CountIp, WebhookInv, RateKept, LimitersOK
<1>3. found \in Target
  BY DEF Resolves, Target, WebhookInv, FlowInv, FlowRowsOK, Deployment
<1>4. credential \in Credential
      /\ (credential.type = "key" => credential.hash \in FlowIds \X (1..keys))
  <2>1. keys \in 0..MaxKeys /\ MaxKeys \in Nat
    BY FlowBoundsAssumption DEF WebhookInv, FlowInv, FlowRowsOK, FlowBoundsAssumption
  <2>2. 1..keys \subseteq 1..MaxKeys
    BY <2>1
  <2> QED BY <2>2 DEF Credential, Keys, Secrets
<1>5. live \in BOOLEAN
  OBVIOUS
<1>6. ~live => credential.type = "key" /\ ~KeyIsLive(credential.hash)
  OBVIOUS
<1> HIDE DEF live
<1>7. next \in CallRecord
  BY <1>2, <1>3, <1>4, <1>5 DEF CallRecord
<1>8. /\ next.pc = "authenticate" /\ next.number = called + 1
      /\ next.credential = credential /\ next.live = live
  BY <1>2
<1>9. CountIp(c, next)
  BY <1>1
<1> HIDE DEF next
<1> QED BY <1>4, <1>6, <1>7, <1>8, <1>9, CountKeeps DEF Arrive

(* A call ends, or goes on having authenticated; what is accepted meanwhile *)
(* is of this call.                                                        *)
LEMMA ServingKeepsCalls ==
  ASSUME WebhookInv, NEW c \in Callers, call[c] # None, NEW next,
         call' = [call EXCEPT ![c] = next],
         \/ next = None
         \/ /\ next \in CallRecord /\ next.pc # "authenticate" /\ next.number = call[c].number
            /\ next.credential = call[c].credential /\ next.live
            /\ Opened(next.credential, next.target.flow),
         \A i \in DOMAIN accepted' :
           \/ i \in DOMAIN accepted /\ accepted'[i] = accepted[i]
           \/ accepted'[i].call = call[c].number,
         called' = called, UNCHANGED flowVars
  PROVE  CallsOK'
<1>1. UNCHANGED <<keys, apiKey>>
  BY DEF flowVars
<1>2. /\ DOMAIN call' = Callers
      /\ \A d \in Callers : call'[d] = IF d = c THEN next ELSE call[d]
  BY DEF WebhookInv, CallsOK
<1>3. CallOK(c) /\ \A d \in Callers : call[d] # None => CallOK(d)
  BY DEF WebhookInv, CallsOK
<1>4. ASSUME NEW d \in Callers, call'[d] # None PROVE CallOK(d)'
  <2>1. CASE d = c
    <3>1. call'[d] = next /\ next # None
      BY <1>2, <1>4, <2>1
    <3>2. next.credential.type = "key" => next.credential.hash \in FlowIds \X (1..keys)
      BY <1>3, <3>1 DEF CallOK
    <3>3. next.number \in 1..called'
      BY <1>3, <3>1 DEF CallOK
    <3> QED BY <1>1, <3>1, <3>2, <3>3 DEF CallOK
  <2>2. CASE d # c
    <3>1. call'[d] = call[d] /\ CallOK(d)
      BY <1>2, <1>3, <1>4, <2>2
    <3>2. ASSUME call[d].pc = "authenticate", NEW i \in DOMAIN accepted', accepted'[i].limiter # "ip"
          PROVE  accepted'[i].call # call[d].number
      <4>1. call[c].number # call[d].number
        BY <1>4, <2>2, <3>1 DEF WebhookInv, CallsOK
      <4> QED BY <3>1, <3>2, <4>1 DEF CallOK
    <3> QED BY <1>1, <3>1, <3>2 DEF CallOK, KeyIsLive
  <2> QED BY <2>1, <2>2
<1>5. \A d, e \in Callers :
        d # e /\ call'[d] # None /\ call'[e] # None => call'[d].number # call'[e].number
  <2>1. \A d \in Callers : call'[d] # None => call[d] # None /\ call'[d].number = call[d].number
    BY <1>2
  <2> QED BY <2>1 DEF WebhookInv, CallsOK
<1> QED BY <1>2, <1>4, <1>5 DEF CallsOK

(* ... in particular one that is refused, or passes without being counted. *)
LEMMA UncountedKeeps ==
  ASSUME WebhookInv, NEW c \in Callers, call[c] # None, NEW next,
         call' = [call EXCEPT ![c] = next],
         \/ next = None
         \/ /\ next \in CallRecord /\ next.pc # "authenticate" /\ next.number = call[c].number
            /\ next.credential = call[c].credential /\ next.live
            /\ Opened(next.credential, next.target.flow),
         UNCHANGED <<clock, limiters, called, accepted>>, UNCHANGED flowVars
  PROVE  FlowInv' /\ RateKept' /\ CallsOK'
<1>1. CallsOK'
  BY ServingKeepsCalls
<1>2. FlowInv'
  BY FlowInvStutters DEF WebhookInv
<1>3. RateKept'
  BY RateStutters DEF WebhookInv
<1> QED BY <1>1, <1>2, <1>3

LEMMA RunsStay == RunsOK /\ UNCHANGED runs => RunsOK'
<1> QED BY DEF RunsOK, RunsWhatWasAuthenticated

(* A credential that authenticates for a flow is that flow's, and was live  *)
(* when the call arrived.                                                  *)
LEMMA AuthenticatedOpens ==
  ASSUME WebhookInv, NEW c \in Callers, call[c] # None, call[c].pc = "authenticate",
         Authenticates(call[c].credential, call[c].target.flow)
  PROVE  Opened(call[c].credential, call[c].target.flow) /\ call[c].live
<1> DEFINE credential == call[c].credential
           f == call[c].target.flow
<1>1. CallOK(c) /\ call[c] \in CallRecord
  BY DEF WebhookInv, CallsOK, CallOK
<1>2. credential \in Credential /\ f \in FlowIds /\ call[c].live \in BOOLEAN
  BY <1>1 DEF CallRecord, Target
<1>3. CASE credential.type = "key"
  <2>1. KeyOpens(credential.hash, f)
    BY <1>3 DEF Authenticates
  <2>2. PICK u \in Users : apiKey[f][u] # None /\ apiKey[f][u].hash = credential.hash
                           /\ apiKey[f][u].enabled
    BY <2>1 DEF KeyOpens
  <2>3. credential.hash[1] = f
    BY <1>2, <2>2 DEF WebhookInv, FlowInv, HashesOK
  <2>4. KeyIsLive(credential.hash)
    BY <1>2, <2>2 DEF KeyIsLive
  <2>5. call[c].live
    BY <1>1, <1>3, <2>4 DEF CallOK
  <2> QED BY <1>3, <2>3, <2>5 DEF Opened
<1>4. CASE credential.type = "secret"
  <2>1. ConfiguredSecret(f) = credential.value
    BY <1>4 DEF Authenticates
  <2>2. credential \in Secrets
    BY <1>2, <1>4 DEF Credential
  <2>3. credential.value # None
    BY <2>2 DEF Secrets
  <2>4. credential.value = Secret[f]
    BY <2>1, <2>3 DEF ConfiguredSecret
  <2>5. call[c].live
    BY <1>1, <1>4 DEF CallOK
  <2> QED BY <1>4, <2>4, <2>5 DEF Opened
<1>5. credential.type \in {"key", "secret"}
  BY <1>2 DEF Credential, Secrets
<1> QED BY <1>3, <1>4, <1>5

LEMMA AuthenticateKeeps ==
  ASSUME WebhookInv, NEW c \in Callers, Authenticate(c), UNCHANGED flowVars
  PROVE  WebhookInv'
<1> DEFINE target == call[c].target
           l == SlugLimiter(target.limit)
           limit == SlugLimit(target.limit)
           n == call[c].number
<1>1. call[c] # None /\ call[c].pc = "authenticate" /\ CallOK(c) /\ call[c] \in CallRecord
      /\ UNCHANGED <<clock, runs, called>>
  BY DEF Authenticate, WebhookInv, CallsOK, CallOK
<1>2. target \in Target /\ n \in 1..called /\ called <= MaxCalls /\ called \in Nat
  BY <1>1, BoundsAreNatural DEF CallRecord, CallOK, WebhookInv, RateKept, LimitersOK
<1>3. l \in Limiters /\ l # "ip" /\ target.slug \in LimiterKeys /\ limit \in Int
  <2>1. target.slug \in LimiterKeys
    BY <1>2 DEF Target, LimiterKeys
  <2>2. target.limit \in Int
    <3>1. target.limit \in Limits \cup {0}
      BY <1>2 DEF Target
    <3>2. \A x \in Limits \cup {0} : x \in Int
      BY WindowAssumption DEF WindowAssumption
    <3> QED BY <3>1, <3>2, Zenon
  <2> QED BY <2>1, <2>2, BoundsAreNatural DEF SlugLimiter, SlugLimit, Limiters
<1>4. RunsOK'
  BY <1>1, RunsStay DEF WebhookInv
<1>5. CASE Refuse(c) /\ UNCHANGED <<limiters, accepted>>
  BY <1>1, <1>4, <1>5, UncountedKeeps DEF Refuse, WebhookInv
<1>6. CASE /\ Authenticates(call[c].credential, target.flow)
           /\ limiters' = [limiters EXCEPT ![l] = Hit(l, target.slug, limit, n)]
           /\ IF Allows(l, target.slug, limit)
              THEN /\ call' = [call EXCEPT ![c].pc = "load"]
                   /\ accepted' = Accept(l, target.slug, limit, n)
              ELSE Refuse(c) /\ UNCHANGED accepted
  <2> DEFINE slug == target.slug
  <2> HIDE DEF l, limit, slug, n
  <2>1. /\ limiters' = [limiters EXCEPT ![l] = Hit(l, slug, limit, n)]
        /\ accepted' = IF Allows(l, slug, limit) THEN Accept(l, slug, limit, n) ELSE accepted
    BY <1>6 DEF slug
  <2>2. \A i \in DOMAIN accepted : accepted[i].limiter = l => accepted[i].call # n
    BY <1>1, <1>3 DEF CallOK, n
  <2>3. RateKept'
    <3>1. l \in Limiters /\ slug \in LimiterKeys /\ limit \in Int /\ n \in 1..called'
          /\ called' \in {called, called + 1} /\ called' <= MaxCalls /\ clock' = clock /\ RateKept
      BY <1>1, <1>2, <1>3 DEF slug, WebhookInv
    <3> QED BY <2>1, <2>2, <3>1, AskingKeepsRate
  <2>4. FlowInv'
    BY FlowInvStutters DEF WebhookInv
  <2>5. \A i \in DOMAIN accepted' :
          \/ i \in DOMAIN accepted /\ accepted'[i] = accepted[i]
          \/ accepted'[i].call = n
    <3>1. CASE accepted' = accepted
      BY <3>1
    <3>2. CASE accepted' = Accept(l, slug, limit, n)
      <4> DEFINE entry == [limiter |-> l, key |-> slug, limit |-> limit, call |-> n, at |-> clock]
      <4>1. accepted \in Seq(Acceptance) /\ clock \in Nat
        BY BoundsAreNatural DEF WebhookInv, RateKept, AcceptedOK, LimitersOK
      <4>2. entry \in Acceptance /\ entry.call = n
        BY <1>2, <1>3, <4>1 DEF Acceptance, slug
      <4>3. accepted' = Append(accepted, entry)
        BY <3>2 DEF Accept
      <4> HIDE DEF entry
      <4>4. /\ DOMAIN accepted = 1..Len(accepted) /\ Len(accepted) \in Nat
            /\ DOMAIN accepted' = 1..Len(accepted) + 1
            /\ \A i \in 1..Len(accepted) : accepted'[i] = accepted[i]
            /\ accepted'[Len(accepted) + 1] = entry
        BY <4>1, <4>2, <4>3, AppendProperties, LenProperties
      <4> QED BY <4>2, <4>4
    <3> QED BY <2>1, <3>1, <3>2
  <2>6. CallsOK'
    <3>1. CASE Refuse(c)
      BY <1>1, <2>5, <3>1, ServingKeepsCalls DEF Refuse, n
    <3>2. CASE call' = [call EXCEPT ![c].pc = "load"]
      <4> DEFINE next == [call[c] EXCEPT !.pc = "load"]
      <4>1. call' = [call EXCEPT ![c] = next]
        BY <3>2
      <4>2. /\ next \in CallRecord /\ next.pc # "authenticate" /\ next.number = call[c].number
            /\ next.credential = call[c].credential /\ next.live = call[c].live
            /\ next.target = call[c].target
        BY <1>1 DEF CallRecord
      <4>3. Opened(call[c].credential, call[c].target.flow) /\ call[c].live
        BY <1>1, <1>6, AuthenticatedOpens
      <4> HIDE DEF next
      <4> QED BY <1>1, <2>5, <4>1, <4>2, <4>3, ServingKeepsCalls DEF n
    <3> QED BY <1>6, <3>1, <3>2
  <2> QED BY <1>4, <2>3, <2>4, <2>6 DEF WebhookInv
<1> QED BY <1>5, <1>6 DEF Authenticate

LEMMA LoadFlowKeeps ==
  ASSUME WebhookInv, NEW c \in Callers, LoadFlow(c) \/ InvalidBody(c), UNCHANGED flowVars
  PROVE  WebhookInv'
<1>1. call[c] # None /\ call[c].pc = "load" /\ CallOK(c) /\ call[c] \in CallRecord
      /\ UNCHANGED <<clock, limiters, runs, called, accepted>>
  BY DEF LoadFlow, InvalidBody, WebhookInv, CallsOK, CallOK
<1>2. RunsOK'
  BY <1>1, RunsStay DEF WebhookInv
<1>3. CASE Refuse(c)
  BY <1>1, <1>2, <1>3, UncountedKeeps DEF Refuse, WebhookInv
<1>4. CASE call' = [call EXCEPT ![c].pc = "insert"]
  <2> DEFINE next == [call[c] EXCEPT !.pc = "insert"]
  <2>1. call' = [call EXCEPT ![c] = next]
    BY <1>4
  <2>2. /\ next \in CallRecord /\ next.pc # "authenticate" /\ next.number = call[c].number
        /\ next.credential = call[c].credential /\ next.live = call[c].live
        /\ next.target = call[c].target
    BY <1>1 DEF CallRecord
  <2>3. Opened(call[c].credential, call[c].target.flow) /\ call[c].live
    BY <1>1 DEF CallOK
  <2> HIDE DEF next
  <2> QED BY <1>1, <1>2, <2>1, <2>2, <2>3, UncountedKeeps DEF WebhookInv
<1> QED BY <1>3, <1>4 DEF LoadFlow, InvalidBody

LEMMA InsertRunKeeps ==
  ASSUME WebhookInv, NEW c \in Callers, InsertRun(c), UNCHANGED flowVars
  PROVE  WebhookInv'
<1> DEFINE run == [flow |-> call[c].target.flow, credential |-> call[c].credential,
                   live |-> call[c].live]
           Runs == [flow : FlowIds, credential : Credential, live : BOOLEAN]
<1>1. call[c] # None /\ call[c].pc = "insert" /\ CallOK(c) /\ call[c] \in CallRecord
      /\ UNCHANGED <<clock, limiters, called, accepted>> /\ Refuse(c)
      /\ (runs' = runs \/ runs' = Append(runs, run))
  BY DEF InsertRun, WebhookInv, CallsOK, CallOK
<1>2. FlowInv' /\ RateKept' /\ CallsOK'
  BY <1>1, UncountedKeeps DEF Refuse
<1>3. run \in Runs
  BY <1>1 DEF CallRecord, Target
<1>4. Opened(run.credential, run.flow) /\ run.live
  BY <1>1 DEF CallOK
<1> HIDE DEF run, Runs
<1>5. RunsOK'
  <2>1. CASE runs' = runs
    BY <2>1, RunsStay DEF WebhookInv
  <2>2. CASE runs' = Append(runs, run)
    <3>1. runs \in Seq(Runs)
      BY DEF WebhookInv, RunsOK, Runs
    <3>2. /\ runs' \in Seq(Runs) /\ DOMAIN runs = 1..Len(runs) /\ Len(runs) \in Nat
          /\ DOMAIN runs' = 1..Len(runs) + 1
          /\ \A i \in 1..Len(runs) : runs'[i] = runs[i]
          /\ runs'[Len(runs) + 1] = run
      BY <1>3, <2>2, <3>1, AppendProperties, LenProperties
    <3>3. ASSUME NEW i \in DOMAIN runs' PROVE Opened(runs'[i].credential, runs'[i].flow) /\ runs'[i].live
      BY <1>4, <3>2 DEF WebhookInv, RunsOK, RunsWhatWasAuthenticated, Opened
    <3> QED BY <3>2, <3>3 DEF RunsOK, RunsWhatWasAuthenticated, Opened, Runs
  <2> QED BY <1>1, <2>1, <2>2
<1> QED BY <1>2, <1>5 DEF WebhookInv

LEMMA ServeKeeps ==
  ASSUME WebhookInv, Serve \/ Tick, UNCHANGED flowVars
  PROVE  WebhookInv'
<1>1. CASE Serve
  <2>1. PICK c \in Callers :
          \/ \E target \in Names \cup FlowIds, credential \in Keys \cup Secrets :
               Arrive(c, target, credential)
          \/ Authenticate(c) \/ LoadFlow(c) \/ InvalidBody(c) \/ InsertRun(c)
          \/ \E slug \in Names : Poll(c, slug)
    BY <1>1 DEF Serve
  <2>2. ASSUME NEW slug \in Names, Poll(c, slug) PROVE WebhookInv'
    <3>1. call[c] = None /\ CountIp(c, None) /\ UNCHANGED <<clock, runs>>
      BY <2>2 DEF Poll
    <3> QED BY <3>1, CountKeeps
  <2> QED BY <2>1, <2>2, ArriveKeeps, AuthenticateKeeps, LoadFlowKeeps, InsertRunKeeps
<1>2. CASE Tick
  <2>1. clock < MaxClock /\ clock' = clock + 1 /\ UNCHANGED <<limiters, call, runs, called, accepted>>
    BY <1>2 DEF Tick
  <2>2. RateKept'
    BY <2>1, TimeKeepsRate DEF WebhookInv
  <2>3. FlowInv' /\ RunsOK'
    BY <2>1, FlowInvStutters, RunsStay DEF WebhookInv
  <2>4. CallsOK'
    BY <2>1 DEF WebhookInv, CallsOK, CallOK, flowVars, KeyIsLive
  <2> QED BY <2>2, <2>3, <2>4 DEF WebhookInv
<1> QED BY <1>1, <1>2

LEMMA WebhookStepKeeps == WebhookInv /\ [WebhookNext]_webhookVars => WebhookInv'
<1>1. ASSUME WebhookInv, WebhookNext PROVE WebhookInv'
  BY <1>1, RowStepsKeep, ServeKeeps DEF WebhookNext
<1>2. ASSUME WebhookInv, UNCHANGED webhookVars PROVE WebhookInv'
  BY <1>2, FlowInvStutters, RateStutters DEF webhookVars, callVars, WebhookInv, CallsOK, CallOK, KeyIsLive,
     RunsOK, RunsWhatWasAuthenticated, flowVars
<1> QED BY <1>1, <1>2

LEMMA WebhookInvHolds == WebhookSpec => []WebhookInv
<1> QED BY WebhookStarts, WebhookStepKeeps, PTL DEF WebhookSpec

LEMMA WebhookInvIsTyped == WebhookInv => WebhookTypeOK
<1> SUFFICES ASSUME WebhookInv PROVE WebhookTypeOK
  OBVIOUS
<1>1. \A c \in Callers : call[c] # None =>
        /\ call[c].pc \in {"authenticate", "load", "insert"}
        /\ call[c].target.flow \in FlowIds
        /\ call[c].target.limit \in Limits \cup {0}
        /\ call[c].credential \in Credential
  BY DEF WebhookInv, CallsOK, CallOK, CallRecord, Target
<1> QED BY <1>1 DEF WebhookInv, RateKept, LimitersOK, RunsOK, WebhookTypeOK

(* Clock, limiters, calls and runs have their types in every state.        *)
THEOREM CallsAreTyped == WebhookSpec => []WebhookTypeOK
<1> QED BY WebhookInvIsTyped, WebhookInvHolds, PTL

LEMMA LimitersAreExact == WebhookInv => RateHolds
<1> SUFFICES ASSUME WebhookInv PROVE RateHolds
  OBVIOUS
<1>1. RateKept
  BY DEF WebhookInv
<1>2. ASSUME NEW l \in Limiters, NEW key \in LimiterKeys, NEW limit \in Limits \cup {DefaultLimit, IpLimit}
      PROVE  Allows(l, key, limit) <=> limit <= 0 \/ Cardinality(InWindow(l, key)) < limit
  <2>1. InWindow(l, key) = CountedOf(accepted, Len(accepted), l, key, clock)
    BY DEF InWindow, CountedOf
  <2>2. Recent(Swept(l).hits[key], l) = Recent(limiters[l].hits[key], l)
    BY <1>1, SweepsForgetNothing DEF RateKept, Recent
  <2>3. Cardinality(InWindow(l, key)) = Cardinality(Recent(limiters[l].hits[key], l))
    BY <1>1, <2>1, CountedAreHits
  <2> QED BY <2>2, <2>3 DEF Allows
<1> QED BY <1>1, <1>2 DEF RateHolds, NobodyIsRefusedEarly, RateKept

(* The limiters keep an exact sliding window: in the window before any      *)
(* request one of them let through, it let through fewer under that key than *)
(* its limit, and one it refuses now finds the whole limit in the window.   *)
(* What it let through within the window and the hits it has kept of it are *)
(* the same, entry by entry, each of a call of its own; sweeps take away    *)
(* nothing that still counts, and it is the hits the limiter counts.        *)
THEOREM LimitersHold == WebhookSpec => []RateHolds
<1> QED BY LimitersAreExact, WebhookInvHolds, PTL

(* A run is of the flow whose key or secret the caller presented, and its   *)
(* key was live when the call arrived: a hash that opens nothing never      *)
(* opens anything again, so what authenticates later was live before.      *)
THEOREM RunsAreAuthenticated == WebhookSpec => []RunsWhatWasAuthenticated
<1>1. WebhookInv => RunsWhatWasAuthenticated
  BY DEF WebhookInv, RunsOK
<1> QED BY <1>1, WebhookInvHolds, PTL
===============================================================================
