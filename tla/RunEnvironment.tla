----------------------------- MODULE RunEnvironment -----------------------------
(***************************************************************************)
(* The variables an execution runs with (worker/src/executor/context.ts):   *)
(* the flow's own ones, static or kept as secrets, and what the caller of   *)
(* this run overrides, through the delays and approvals of one execution.   *)
(*                                                                         *)
(* The worker builds them anew at each job from what the job carries of the *)
(* flow and from the secrets and vaults as they are then. Every reference   *)
(* is to one secret name, which may exist in several scopes, and to one     *)
(* path, which every vault has. Whether a group's vault is enabled is never *)
(* asked. The runs of the debugger keep their context and are not here.     *)
(***************************************************************************)
EXTENDS Naturals, NoValue

CONSTANTS
  EnvNames,       \* names of variables
  EnvGroups,      \* groups
  EnvVaults,      \* rows of secret_vaults there may be
  MaxAttempts,    \* attempts of a job
  MaxEnvWrites    \* bound: writes to the flow, the secrets and the vaults

ASSUME RunEnvironmentAssumption == MaxAttempts \in Nat \ {0} /\ MaxEnvWrites \in Nat

VARIABLES
  flowRow,    \* the flow's env_vars, by name, and its group
  secretAt,   \* secretAt[o]: the version of the secret in scope o, or None
  boundVault, \* boundVault[g]: group_vault_config of g, or None
  connected,  \* vaults whose last test succeeded
  runRow,     \* the execution: its overrides, has it a snapshot, does it wait; None before
  envJob,     \* the job of the execution, or None
  env,        \* what the run under way was given, and from what; or None
  earlier,    \* what the run before the last pause was given
  resumed,    \* what ended that pause: "delay", "approval", or None
  envWrites

envVars == <<flowRow, secretAt, boundVault, connected, runRow, envJob, env, earlier, resumed,
             envWrites>>
secretsNow == <<secretAt, boundVault, connected>>
storedEnv == <<flowRow, secretsNow>>

Kinds == {"static", "core_secret", "cyberark"}
SecretScopes == {"app", "flow"} \cup EnvGroups
Overrides == [EnvNames -> Kinds \cup {None}]
NoOverrides == [n \in EnvNames |-> None]

(* None is no row of an execution, and no way for a pause to end.           *)
ASSUME EnvNoneAssumption ==
  /\ None \notin [overrides : Overrides, snapshot : BOOLEAN, waits : BOOLEAN]
  /\ None # "delay"

EnvInit ==
  /\ flowRow \in [vars : [EnvNames -> Kinds \cup {None}], group : EnvGroups \cup {None}]
  /\ secretAt \in [SecretScopes -> {0, None}]
  /\ boundVault \in [EnvGroups -> EnvVaults \cup {None}] /\ connected \in SUBSET EnvVaults
  /\ runRow = None /\ envJob = None /\ env = None /\ earlier = None /\ resumed = None
  /\ envWrites = 0

-------------------------------------------------------------------------------
(* What a reference stands for *)

(* The vault bound to the flow's group, else one that is connected: the     *)
(* same one as long as none is written.                                     *)
VaultFor(group) ==
  IF group # None /\ boundVault[group] # None THEN boundVault[group]
  ELSE IF connected = {} THEN None ELSE CHOOSE v \in connected : TRUE

SecretIn(owner) == IF secretAt[owner] = None THEN None ELSE <<owner, secretAt[owner]>>
VaultValue(group) == IF VaultFor(group) = None THEN None ELSE <<"vault", VaultFor(group)>>

(* A flow's own reference is looked up among the secrets of the application. *)
OwnValue(kind, group) ==
  CASE kind = "static" -> <<"flow's text", 0>>
    [] kind = "core_secret" -> SecretIn("app")
    [] kind = "cyberark" -> VaultValue(group)

(* One that overrides is looked up in the flow, its group, the application. *)
OverridingValue(kind, group) ==
  CASE kind = "static" -> <<"caller's text", 0>>
    [] kind = "core_secret" ->
         IF secretAt["flow"] # None THEN SecretIn("flow")
         ELSE IF group # None /\ secretAt[group] # None THEN SecretIn(group) ELSE SecretIn("app")
    [] kind = "cyberark" -> VaultValue(group)

(* An override that finds nothing leaves the flow's value. A job without    *)
(* the flow's variables has none to override.                               *)
Environment(job) ==
  [n \in EnvNames |->
    IF job.vars = None \/ job.vars[n] = None THEN None
    ELSE LET own == OwnValue(job.vars[n], job.group)
             over == job.overrides[n]
         IN IF over # None /\ OverridingValue(over, job.group) # None
            THEN OverridingValue(over, job.group) ELSE own]

-------------------------------------------------------------------------------
(* The execution *)

JobWith(vars, group, overrides) ==
  [vars |-> vars, group |-> group, overrides |-> overrides, attempt |-> 1]

(* POST /flows/:id/execute: a run of the canvas has no group.               *)
StartRun(overrides, ofCanvas) ==
  /\ runRow = None /\ runRow' = [overrides |-> overrides, snapshot |-> TRUE, waits |-> FALSE]
  /\ envJob' = JobWith(flowRow.vars, IF ofCanvas THEN None ELSE flowRow.group, overrides)
  /\ UNCHANGED <<storedEnv, env, earlier, resumed, envWrites>>

CallForRun(overrides) ==
  /\ runRow = None /\ runRow' = [overrides |-> overrides, snapshot |-> FALSE, waits |-> FALSE]
  /\ envJob' = JobWith(flowRow.vars, flowRow.group, overrides)
  /\ UNCHANGED <<storedEnv, env, earlier, resumed, envWrites>>

(* A scheduled job names the flow, which the worker loads, and has one      *)
(* attempt.                                                                 *)
FireRun ==
  /\ runRow = None /\ runRow' = [overrides |-> NoOverrides, snapshot |-> FALSE, waits |-> FALSE]
  /\ envJob' = [JobWith(flowRow.vars, flowRow.group, NoOverrides) EXCEPT !.attempt = MaxAttempts]
  /\ UNCHANGED <<storedEnv, env, earlier, resumed, envWrites>>

ResolveEnvironment ==
  /\ envJob # None /\ env = None /\ env' = [of |-> Environment(envJob), from |-> secretsNow]
  /\ UNCHANGED <<storedEnv, runRow, envJob, earlier, resumed, envWrites>>

(* A secret that does not open or a vault that refuses fails the job before *)
(* its first node, as any later failure does.                               *)
FailRun ==
  /\ envJob # None /\ env' = None
  /\ envJob' = IF envJob.attempt < MaxAttempts THEN [envJob EXCEPT !.attempt = @ + 1] ELSE None
  /\ UNCHANGED <<storedEnv, runRow, earlier, resumed, envWrites>>

(* The run of a pause is over; what it was given is kept to compare.        *)
EndForPause(how) == earlier' = env /\ env' = None /\ resumed' = how

(* Mutation: the delayed job carries the flow alone. *)
DelayedFlow(job) == JobWith(job.vars, job.group, NoOverrides)

(* The delayed job carries the flow of this one and its overrides.          *)
DelayedJob(job) == JobWith(job.vars, job.group, job.overrides)

PauseRunForDelay ==
  /\ envJob # None /\ env # None /\ EndForPause("delay") /\ envJob' = DelayedJob(envJob)
  /\ UNCHANGED <<storedEnv, runRow, envWrites>>

PauseRunForApproval ==
  /\ envJob # None /\ env # None /\ EndForPause("approval") /\ envJob' = None
  /\ runRow' = [runRow EXCEPT !.waits = TRUE]
  /\ UNCHANGED <<storedEnv, envWrites>>

(* Approval: the graph is the snapshot's, or the flow's as it is now with   *)
(* its group. The variables of neither are put into the job.                *)
ApproveRun ==
  /\ runRow # None /\ runRow.waits /\ runRow' = [runRow EXCEPT !.waits = FALSE]
  /\ envJob' = JobWith(None, IF runRow.snapshot THEN None ELSE flowRow.group, runRow.overrides)
  /\ UNCHANGED <<storedEnv, env, earlier, resumed, envWrites>>

-------------------------------------------------------------------------------
(* Meanwhile *)

WriteEnv ==
  /\ envWrites < MaxEnvWrites /\ envWrites' = envWrites + 1
  /\ UNCHANGED <<runRow, envJob, env, earlier, resumed>>

(* PUT /flows/:id; a job keeps what it was made with.                       *)
EditVars(vars, group) ==
  /\ WriteEnv /\ flowRow' = [vars |-> vars, group |-> group]
  /\ UNCHANGED secretsNow

(* POST, PUT and DELETE of a secret.                                        *)
PutSecret(o) ==
  /\ WriteEnv /\ secretAt' = [secretAt EXCEPT ![o] = IF @ = None THEN 0 ELSE @ + 1]
  /\ UNCHANGED <<flowRow, boundVault, connected>>

RemoveSecret(o) ==
  /\ secretAt[o] # None /\ WriteEnv /\ secretAt' = [secretAt EXCEPT ![o] = None]
  /\ UNCHANGED <<flowRow, boundVault, connected>>

(* PUT /group-vault-config/:groupId, or POST of a vault for the group.      *)
BindVault(g, v) ==
  /\ WriteEnv /\ boundVault' = [boundVault EXCEPT ![g] = v]
  /\ UNCHANGED <<flowRow, secretAt, connected>>

(* POST /secret-vaults/:id/test                                             *)
TestVault(v, success) ==
  /\ WriteEnv /\ connected' = IF success THEN connected \cup {v} ELSE connected \ {v}
  /\ UNCHANGED <<flowRow, secretAt, boundVault>>

(* DELETE /secret-vaults/:id: its bindings go first.                        *)
RemoveVault(v) ==
  /\ WriteEnv /\ connected' = connected \ {v}
  /\ boundVault' = [g \in EnvGroups |-> IF boundVault[g] = v THEN None ELSE boundVault[g]]
  /\ UNCHANGED <<flowRow, secretAt>>

EnvNext ==
  \/ \E o \in Overrides : CallForRun(o) \/ \E ofCanvas \in BOOLEAN : StartRun(o, ofCanvas)
  \/ FireRun \/ ResolveEnvironment \/ FailRun \/ PauseRunForDelay \/ PauseRunForApproval \/ ApproveRun
  \/ \E vars \in Overrides, g \in EnvGroups \cup {None} : EditVars(vars, g)
  \/ \E o \in SecretScopes : PutSecret(o) \/ RemoveSecret(o)
  \/ \E v \in EnvVaults :
       \/ RemoveVault(v) \/ \E success \in BOOLEAN : TestVault(v, success)
       \/ \E g \in EnvGroups : BindVault(g, v)

EnvSpec == EnvInit /\ [][EnvNext]_envVars

-------------------------------------------------------------------------------
(* Types of the variables. *)
EnvTypeOK ==
  /\ flowRow.vars \in Overrides /\ flowRow.group \in EnvGroups \cup {None}
  /\ \A o \in SecretScopes : secretAt[o] = None \/ secretAt[o] \in 0..MaxEnvWrites
  /\ connected \subseteq EnvVaults /\ resumed \in {"delay", "approval", None}
  /\ envJob # None => envJob.attempt \in 1..MaxAttempts /\ envJob.overrides \in Overrides

SameAsBefore == env # None /\ env.from = earlier.from => env.of = earlier.of

(* A delay does not change what an execution runs with, and its overrides   *)
(* survive it: unless a secret or a vault was written, and whatever became  *)
(* of the flow, the run that goes on sees what the one before saw.          *)
DelaysKeepEnvironment == resumed = "delay" => SameAsBefore

(* "The resumed execution sees the same env", after an approval as well.    *)
ResumedSeesSameEnv == resumed # None => SameAsBefore
================================================================================
