----------------------------- MODULE WebhookCalls -----------------------------
(***************************************************************************)
(* Public webhook calls against the rows of FlowRoutes                     *)
(* (src/backend/src/routes/webhook-openapi.ts, webhook-security.ts,        *)
(* webhook-api-keys.ts): resolving the slug, the limits, the credentials,  *)
(* the run that a call starts, polling for it, and the management of keys  *)
(* and deployments beside it.                                              *)
(*                                                                         *)
(* The route of the same path in webhook.ts is mounted second and is never *)
(* reached. One backend process: its limiters are in memory. Time passes   *)
(* in ticks.                                                               *)
(***************************************************************************)
EXTENDS FlowRoutes, Sequences

CONSTANTS
  Callers,          \* calls in progress at once
  Secret,           \* Secret[f]: the webhook secret of f's trigger, or None
  Limits,           \* rate limits an editor may configure
  DefaultLimit,     \* WEBHOOK_RATE_LIMIT_DEFAULT, per hour
  IpLimit,          \* WEBHOOK_IP_RATE_LIMIT, per minute
  Minute, Hour,     \* in ticks
  MaxClock,         \* bound
  MaxCalls          \* bound: calls and polls

ASSUME WindowAssumption ==
  /\ Minute \in Nat /\ Hour \in Nat /\ MaxClock \in Nat /\ MaxCalls \in Nat
  /\ DefaultLimit \in Nat /\ IpLimit \in Nat /\ Limits \subseteq Int

VARIABLES
  clock,
  limiters,  \* limiters[l]: its hits by key, each with its call, and when it last swept
  call,      \* call[c]: a call in progress, or None
  runs,      \* executions inserted, in order
  called,    \* calls so far
  accepted   \* history: what the limiters let through, in order

callVars == <<clock, limiters, call, runs, called, accepted>>
webhookVars == <<flowVars, callVars>>

Limiters == {"ip", "minute", "hour"}
Window(l) == IF l = "hour" THEN Hour ELSE Minute
LimiterKeys == {"ip"} \cup Names \cup FlowIds

WebhookInit ==
  /\ FlowInit
  /\ clock = 0
  /\ limiters = [l \in Limiters |-> [hits |-> [k \in LimiterKeys |-> {}], swept |-> 0]]
  /\ call = [c \in Callers |-> None]
  /\ runs = <<>> /\ called = 0 /\ accepted = <<>>

-------------------------------------------------------------------------------
(* SlidingWindowLimiter *)

Recent(hits, l) == {h \in hits : h.at > clock - Window(l)}

Sweep(l) == [hits |-> [k \in LimiterKeys |-> Recent(limiters[l].hits[k], l)], swept |-> clock]

Swept(l) == IF clock - limiters[l].swept > Window(l) THEN Sweep(l) ELSE limiters[l]

(* Mutation: <= for <. *)
AllowsOneMore(l, key, limit) == limit <= 0 \/ Cardinality(Recent(Swept(l).hits[key], l)) <= limit

Allows(l, key, limit) == limit <= 0 \/ Cardinality(Recent(Swept(l).hits[key], l)) < limit

(* check: the limiter after call n under key, allowed or not. A limit of   *)
(* zero or less never limits and leaves no hit.                            *)
Hit(l, key, limit, n) ==
  IF limit <= 0 THEN limiters[l]
  ELSE LET hits == Recent(Swept(l).hits[key], l)
       IN  [Swept(l) EXCEPT !.hits[key] =
              IF Cardinality(hits) < limit THEN hits \cup {[call |-> n, at |-> clock]} ELSE hits]

Accept(l, key, limit, n) ==
  Append(accepted, [limiter |-> l, key |-> key, limit |-> limit, call |-> n, at |-> clock])

SlugLimiter(limit) == IF limit > 0 THEN "minute" ELSE "hour"
SlugLimit(limit) == IF limit > 0 THEN limit ELSE DefaultLimit

(* Every request from outside is counted against its address first; one    *)
(* over the limit answers 429 and ends there.                              *)
CountIp(c, next) ==
  /\ called < MaxCalls /\ called' = called + 1
  /\ limiters' = [limiters EXCEPT !["ip"] = Hit("ip", "ip", IpLimit, called')]
  /\ IF Allows("ip", "ip", IpLimit)
     THEN call' = [call EXCEPT ![c] = next] /\ accepted' = Accept("ip", "ip", IpLimit, called')
     ELSE UNCHANGED <<call, accepted>>

-------------------------------------------------------------------------------
(* Credentials: a wh_ key, by its hash, or the secret of the trigger.      *)

Keys == [type : {"key"}, hash : FlowIds \X (1..keys)]
Secrets == [type : {"secret"}, value : {Secret[f] : f \in FlowIds} \ {None}]

KeyIsLive(hash) == \E f \in FlowIds, u \in Users :
  apiKey[f][u] # None /\ apiKey[f][u].hash = hash /\ apiKey[f][u].enabled

(* Mutation: the key is looked up by its hash alone. *)
KeyOpensAnyFlow(hash, f) == KeyIsLive(hash)

KeyOpens(hash, f) == \E u \in Users :
  apiKey[f][u] # None /\ apiKey[f][u].hash = hash /\ apiKey[f][u].enabled

ConfiguredSecret(f) == IF Exists(f) /\ flow[f].trigger = Webhook THEN Secret[f] ELSE None

Authenticates(credential, f) ==
  CASE credential.type = "key" -> KeyOpens(credential.hash, f)
    [] credential.type = "secret" -> ConfiguredSecret(f) = credential.value

-------------------------------------------------------------------------------
(* POST /api/webhook/:slug *)

(* The slug of a deployment, or else the id of a flow.                     *)
Resolves(target) ==
  LET owners == {f \in FlowIds : deployment[f].slug = target}
      found == IF owners # {} THEN owners ELSE {f \in {target} \cap FlowIds : Exists(f)}
  IN  {[flow |-> f, limit |-> deployment[f].limit,
        slug |-> IF deployment[f].slug # None THEN deployment[f].slug ELSE f] : f \in found}

Arrive(c, target, credential) ==
  /\ call[c] = None
  /\ \E found \in Resolves(target) :
       CountIp(c, [pc |-> "authenticate", number |-> called', target |-> found,
                   credential |-> credential,
                   live |-> credential.type = "key" => KeyIsLive(credential.hash)])
  /\ UNCHANGED <<clock, runs>>

Refuse(c) == call' = [call EXCEPT ![c] = None]

(* The limit counts authenticated calls only, under the slug resolved.     *)
Authenticate(c) ==
  /\ call[c] # None /\ call[c].pc = "authenticate"
  /\ LET target == call[c].target
         l == SlugLimiter(target.limit)
         limit == SlugLimit(target.limit)
     IN
     \/ /\ ~Authenticates(call[c].credential, target.flow)
        /\ Refuse(c) /\ UNCHANGED <<limiters, accepted>>
     \/ /\ Authenticates(call[c].credential, target.flow)
        /\ limiters' = [limiters EXCEPT ![l] = Hit(l, target.slug, limit, call[c].number)]
        /\ IF Allows(l, target.slug, limit)
           THEN /\ call' = [call EXCEPT ![c].pc = "load"]
                /\ accepted' = Accept(l, target.slug, limit, call[c].number)
           ELSE Refuse(c) /\ UNCHANGED accepted
  /\ UNCHANGED <<clock, runs, called>>

(* The flow is read again, and the body checked against its input schema.  *)
LoadFlow(c) ==
  /\ call[c] # None /\ call[c].pc = "load"
  /\ LET f == call[c].target.flow IN
     \/ Exists(f) /\ flow[f].trigger = Webhook /\ call' = [call EXCEPT ![c].pc = "insert"]
     \/ ~(Exists(f) /\ flow[f].trigger = Webhook) /\ Refuse(c)
  /\ UNCHANGED <<clock, limiters, runs, called, accepted>>

InvalidBody(c) ==
  /\ call[c] # None /\ call[c].pc = "load"
  /\ Refuse(c)
  /\ UNCHANGED <<clock, limiters, runs, called, accepted>>

(* The row refers to the flow, so one deleted meanwhile makes it fail.     *)
InsertRun(c) ==
  /\ call[c] # None /\ call[c].pc = "insert"
  /\ LET f == call[c].target.flow IN
     runs' = IF Exists(f)
             THEN Append(runs, [flow |-> f, credential |-> call[c].credential, live |-> call[c].live])
             ELSE runs
  /\ Refuse(c)
  /\ UNCHANGED <<clock, limiters, called, accepted>>

(* GET /api/webhook/:slug/executions and .../:executionId: they read, and   *)
(* are counted against the address like any call. Only a slug resolves.     *)
Poll(c, slug) ==
  /\ call[c] = None
  /\ \E f \in FlowIds : deployment[f].slug = slug
  /\ CountIp(c, None)
  /\ UNCHANGED <<clock, runs>>

Tick ==
  /\ clock < MaxClock /\ clock' = clock + 1
  /\ UNCHANGED <<limiters, call, runs, called, accepted>>

-------------------------------------------------------------------------------
(* Management: each is reads, and one statement that decides.              *)

ManagesKeys(f, u) == Exists(f) /\
  (u \in SystemAdmins \/ flow[f].group = None
     \/ (flow[f].group # None /\ Role[u][flow[f].group] # "none"))

RenewKey(f, u) ==
  /\ ManagesKeys(f, u) /\ deployment[f].slug # None
  /\ keys < MaxKeys /\ keys' = keys + 1
  /\ edits < MaxEdits /\ edits' = edits + 1
  /\ apiKey' = [apiKey EXCEPT ![f][u] = NewKey(f)]
  /\ UNCHANGED <<flow, deployment, saving, scheduler, calls, round, mishaps, saved>>

(* By its user, or by an administrator for anyone.                         *)
RevokeKey(f, u, by) ==
  /\ (by = u /\ ManagesKeys(f, u)) \/ by \in SystemAdmins
  /\ edits < MaxEdits /\ edits' = edits + 1
  /\ apiKey[f][u] # None
  /\ apiKey' = [apiKey EXCEPT ![f][u].enabled = FALSE]
  /\ UNCHANGED <<flow, deployment, saving, scheduler, calls, round, keys, mishaps, saved>>

(* A slug another flow has is refused; changing the slug of a group's flow *)
(* takes an administrator of the group.                                    *)
Configure(f, u, slug, limit) ==
  /\ ManagesKeys(f, u) /\ ~SlugTaken(slug, f)
  /\ deployment[f].slug \notin {None, slug} =>
       u \in SystemAdmins \/ flow[f].group = None
         \/ (flow[f].group # None /\ Role[u][flow[f].group] = "admin")
  /\ edits < MaxEdits /\ edits' = edits + 1
  /\ deployment' = [deployment EXCEPT ![f] = [slug |-> slug, limit |-> limit]]
  /\ UNCHANGED <<flow, apiKey, saving, scheduler, calls, round, keys, mishaps, saved>>

ManageKeys ==
  \E f \in FlowIds, u \in Users :
    \/ RenewKey(f, u)
    \/ \E by \in Users : RevokeKey(f, u, by)
    \/ \E slug \in Names, limit \in Limits : Configure(f, u, slug, limit)

-------------------------------------------------------------------------------
Serve ==
  \E c \in Callers :
    \/ \E target \in Names \cup FlowIds, credential \in Keys \cup Secrets : Arrive(c, target, credential)
    \/ Authenticate(c) \/ LoadFlow(c) \/ InvalidBody(c) \/ InsertRun(c)
    \/ \E slug \in Names : Poll(c, slug)

WebhookNext ==
  \/ FlowNext /\ UNCHANGED callVars
  \/ ManageKeys /\ UNCHANGED callVars
  \/ (Serve \/ Tick) /\ UNCHANGED flowVars

WebhookSpec == WebhookInit /\ [][WebhookNext]_webhookVars

-------------------------------------------------------------------------------
(* Types of the variables of a call. *)
Credential == [type : {"key"}, hash : FlowIds \X (1..MaxKeys)] \cup Secrets
WebhookTypeOK ==
  /\ clock \in 0..MaxClock /\ called \in 0..MaxCalls
  /\ \A l \in Limiters :
       /\ limiters[l].swept \in 0..clock
       /\ \A k \in LimiterKeys : limiters[l].hits[k] \subseteq [call : 1..called, at : 0..clock]
  /\ \A c \in Callers : call[c] # None =>
       /\ call[c].pc \in {"authenticate", "load", "insert"}
       /\ call[c].target.flow \in FlowIds
       /\ call[c].target.limit \in Limits \cup {0}
       /\ call[c].credential \in Credential
  /\ runs \in Seq([flow : FlowIds, credential : Credential, live : BOOLEAN])

(* In the Window before any request that was let through fewer were let     *)
(* through under its key than its limit.                                   *)
NobodyExceedsTheRate ==
  \A i \in DOMAIN accepted :
    LET a == accepted[i] IN
    a.limit > 0 =>
      Cardinality({j \in 1..i : /\ accepted[j].limiter = a.limiter /\ accepted[j].key = a.key
                                /\ accepted[j].limit > 0
                                /\ accepted[j].at > a.at - Window(a.limiter)}) <= a.limit

(* A request is refused only if as many as the limit were let through under *)
(* its key within the Window before it.                                    *)
InWindow(l, key) ==
  {j \in DOMAIN accepted : /\ accepted[j].limiter = l /\ accepted[j].key = key
                           /\ accepted[j].limit > 0 /\ accepted[j].at > clock - Window(l)}
NobodyIsRefusedEarly ==
  \A l \in Limiters, key \in LimiterKeys, limit \in Limits \cup {DefaultLimit, IpLimit} :
    Allows(l, key, limit) <=> limit <= 0 \/ Cardinality(InWindow(l, key)) < limit

(* A sliding window, exactly: whatever other keys, sweeps and refused       *)
(* requests did to the limiter in between, what counts is what was let     *)
(* through in the Window before.                                           *)
RateHolds == NobodyExceedsTheRate /\ NobodyIsRefusedEarly

(* A run is one of the flow whose key or secret the caller presented, even *)
(* if the slug was given to another flow while the call was served; and a  *)
(* key that was revoked or renewed before the call arrived opens nothing:  *)
(* no later save, renewal or revocation brings a hash back to life.        *)
RunsWhatWasAuthenticated ==
  \A i \in DOMAIN runs :
    LET r == runs[i] IN
    /\ r.credential.type = "secret" => r.credential.value = Secret[r.flow]
    /\ r.credential.type = "key" => r.credential.hash[1] = r.flow
    /\ r.live
===============================================================================
