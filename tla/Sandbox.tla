-------------------------------- MODULE Sandbox --------------------------------
(***************************************************************************)
(* The sidecar (sidecar/src/index.ts), which keeps one directory for each   *)
(* execution and runs commands in it, the Landlock helper it starts them   *)
(* through (sidecar/cmd/landlock-helper/main.c), and the worker's client.   *)
(*                                                                         *)
(* A handler of the sidecar has no await before it spawns the helper, so    *)
(* what it does up to there is one step. The helper and its command run     *)
(* beside it: they meet tear-downs, the reaper and their own timer at any   *)
(* point. A directory that is removed and made again is another inode:      *)
(* directories carry a number. Commands stay in their process group.        *)
(***************************************************************************)
EXTENDS Integers, NoValue

CONSTANTS
  Execs,        \* executions: names of directories
  Slots,        \* calls of /exec or /eval under way
  MaxDirs,      \* bound: directories made
  MaxRestarts,  \* bound: restarts of the sidecar
  MaxStarts     \* bound: commands started

ASSUME SandboxAssumption ==
  MaxDirs \in Nat /\ MaxRestarts \in Nat /\ MaxStarts \in Nat

VARIABLES
  dirs,       \* dirs[e]: [inode, old: its mtime is past the limit, key: id_rsa], or None
  inodes,     \* inodes used so far
  helpers,    \* helpers[s]: the process group of a call, or None
  restarts, starts

sandboxVars == <<dirs, inodes, helpers, restarts, starts>>

SandboxInit ==
  /\ dirs = [e \in Execs |-> None] /\ inodes = 0
  /\ helpers = [s \in Slots |-> None]
  /\ restarts = 0 /\ starts = 0

-------------------------------------------------------------------------------
(* Handlers of the sidecar *)

(* POST /setup. Of a directory that is there only .gitconfig is written     *)
(* anew, which is no change of the directory.                              *)
SetUpDirectory(e) ==
  /\ dirs[e] = None /\ inodes < MaxDirs
  /\ inodes' = inodes + 1
  /\ dirs' = [dirs EXCEPT ![e] = [inode |-> inodes + 1, old |-> FALSE, key |-> FALSE]]
  /\ UNCHANGED <<helpers, restarts, starts>>

(* The helper is spawned: the leader of a group, with a timer.              *)
Spawned(e) ==
  [of |-> e, home |-> dirs[e].inode, stage |-> "spawned", caged |-> FALSE,
   writes |-> {}, children |-> FALSE, timer |-> TRUE, worked |-> FALSE]

(* POST /exec: without a directory 404. An SSH key in the environment       *)
(* becomes a file of the directory: making the file touches the directory,  *)
(* writing it again does not.                                              *)
StartCommand(s, e) ==
  /\ helpers[s] = None /\ dirs[e] # None /\ starts < MaxStarts
  /\ starts' = starts + 1
  /\ helpers' = [helpers EXCEPT ![s] = Spawned(e)]
  /\ \E withKey \in BOOLEAN :
       dirs' = [dirs EXCEPT ![e].key = @ \/ withKey,
                            ![e].old = @ /\ ~(withKey /\ ~dirs[e].key)]
  /\ UNCHANGED <<inodes, restarts>>

(* POST /eval: the condition is a file under home, and no secret is passed. *)
StartCondition(s, e) ==
  /\ helpers[s] = None /\ dirs[e] # None /\ starts < MaxStarts
  /\ starts' = starts + 1
  /\ helpers' = [helpers EXCEPT ![s] = Spawned(e)]
  /\ UNCHANGED <<dirs, inodes, restarts>>

InUse(e) == \E s \in Slots :
  helpers[s] # None /\ dirs[e] # None /\ dirs[e].inode \in helpers[s].writes

(* POST /teardown. While a command makes files in the directory, removing   *)
(* it may fail half-way, and the answer is 500.                            *)
TearDownDirectory(e) ==
  /\ dirs[e] # None
  /\ \/ dirs' = [dirs EXCEPT ![e] = None]
     \/ InUse(e) /\ dirs' = [dirs EXCEPT ![e].old = FALSE, ![e].key = FALSE]
  /\ UNCHANGED <<inodes, helpers, restarts, starts>>

-------------------------------------------------------------------------------
(* The helper *)

At(s, stage) == helpers[s] # None /\ helpers[s].stage = stage

Exited(s) == [helpers EXCEPT ![s].stage = "exited"]

(* landlock_create_ruleset for every right the kernel knows.                *)
MakeRuleset(s) ==
  /\ At(s, "spawned")
  /\ \/ helpers' = [helpers EXCEPT ![s].stage = "rules"]
     \/ helpers' = Exited(s)
  /\ UNCHANGED <<dirs, inodes, restarts, starts>>

(* The rules are for what the paths name now: the directory may be gone.    *)
AddRules(s) ==
  /\ At(s, "rules")
  /\ IF dirs[helpers[s].of] = None THEN helpers' = Exited(s)
     ELSE helpers' = [helpers EXCEPT ![s].stage = "ruled",
                                     ![s].writes = {dirs[helpers[s].of].inode}]
  /\ UNCHANGED <<dirs, inodes, restarts, starts>>

(* Mutation: without Landlock the command runs all the same. *)
RestrictSelfIfPossible(s) ==
  /\ At(s, "ruled")
  /\ \E caged \in BOOLEAN :
       helpers' = [helpers EXCEPT ![s].stage = "restricted", ![s].caged = caged]
  /\ UNCHANGED <<dirs, inodes, restarts, starts>>

RestrictSelf(s) ==
  /\ At(s, "ruled")
  /\ \/ helpers' = [helpers EXCEPT ![s].stage = "restricted", ![s].caged = TRUE]
     \/ helpers' = Exited(s)
  /\ UNCHANGED <<dirs, inodes, restarts, starts>>

ExecuteCommand(s) ==
  /\ At(s, "restricted")
  /\ helpers' = [helpers EXCEPT ![s].stage = "running"]
  /\ UNCHANGED <<dirs, inodes, restarts, starts>>

-------------------------------------------------------------------------------
(* The command and its group *)

Fork(s) ==
  /\ At(s, "running") /\ ~helpers[s].children
  /\ helpers' = [helpers EXCEPT ![s].children = TRUE]
  /\ UNCHANGED <<dirs, inodes, restarts, starts>>

(* It makes an entry in the directory itself; below home nothing is seen    *)
(* of what it does.                                                        *)
TouchDirectory(s) ==
  /\ At(s, "running") /\ ~helpers[s].worked
  /\ helpers' = [helpers EXCEPT ![s].worked = TRUE]
  /\ dirs' = [e \in Execs |->
       IF dirs[e] # None /\ dirs[e].inode \in helpers[s].writes
       THEN [dirs[e] EXCEPT !.old = FALSE] ELSE dirs[e]]
  /\ UNCHANGED <<inodes, restarts, starts>>

(* It ends, or the sidecar kills it because of too much stderr: only the    *)
(* leader, either way.                                                     *)
EndCommand(s) ==
  /\ At(s, "running") /\ helpers' = Exited(s)
  /\ UNCHANGED <<dirs, inodes, restarts, starts>>

EndChildren(s) ==
  /\ helpers[s] # None /\ helpers[s].children
  /\ helpers' = [helpers EXCEPT ![s].children = FALSE]
  /\ UNCHANGED <<dirs, inodes, restarts, starts>>

(* The timer kills the whole group.                                        *)
(* Mutation: the timer kills the helper instead of its group. *)
KillLeader(s) ==
  /\ helpers[s] # None /\ helpers[s].timer
  /\ helpers' = [helpers EXCEPT ![s].timer = FALSE, ![s].stage = "exited"]
  /\ UNCHANGED <<dirs, inodes, restarts, starts>>

KillGroup(s) ==
  /\ helpers[s] # None /\ helpers[s].timer
  /\ helpers' = [helpers EXCEPT ![s].timer = FALSE, ![s].stage = "exited",
                                ![s].children = FALSE]
  /\ UNCHANGED <<dirs, inodes, restarts, starts>>

(* 'close': the leader has exited and nobody holds its output any more. The *)
(* call is answered.                                                       *)
CloseCommand(s) ==
  /\ At(s, "exited") /\ ~helpers[s].children
  /\ helpers' = [helpers EXCEPT ![s] = None]
  /\ UNCHANGED <<dirs, inodes, restarts, starts>>

-------------------------------------------------------------------------------
(* Age *)

GrowOld(e) ==
  /\ dirs[e] # None /\ ~dirs[e].old
  /\ dirs' = [dirs EXCEPT ![e].old = TRUE]
  /\ UNCHANGED <<inodes, helpers, restarts, starts>>

(* What is removed does not depend on whether an execution still uses it.   *)
IsExpired(e) == dirs[e] # None /\ dirs[e].old

ReapOldDirectories ==
  /\ \E e \in Execs : IsExpired(e)
  /\ dirs' = [e \in Execs |-> IF IsExpired(e) THEN None ELSE dirs[e]]
  /\ UNCHANGED <<inodes, helpers, restarts, starts>>

(* The container is started again: its processes are gone, its volume is not. *)
RestartSidecar ==
  /\ restarts < MaxRestarts /\ restarts' = restarts + 1
  /\ helpers' = [s \in Slots |-> None]
  /\ UNCHANGED <<dirs, inodes, starts>>

SandboxNext ==
  \/ \E e \in Execs : SetUpDirectory(e) \/ TearDownDirectory(e) \/ GrowOld(e)
  \/ \E s \in Slots, e \in Execs : StartCommand(s, e) \/ StartCondition(s, e)
  \/ \E s \in Slots :
       \/ MakeRuleset(s) \/ AddRules(s) \/ RestrictSelf(s) \/ ExecuteCommand(s)
       \/ Fork(s) \/ TouchDirectory(s) \/ EndCommand(s) \/ EndChildren(s)
       \/ KillGroup(s) \/ CloseCommand(s)
  \/ ReapOldDirectories \/ RestartSidecar

(* The sidecar's timers fire and its events are handled; a command need not *)
(* end, nor a worker tear anything down.                                    *)
SandboxFairness ==
  \A s \in Slots : WF_sandboxVars(KillGroup(s)) /\ WF_sandboxVars(CloseCommand(s))

SandboxSpec == SandboxInit /\ [][SandboxNext]_sandboxVars

SandboxFairSpec == SandboxSpec /\ SandboxFairness

-------------------------------------------------------------------------------
(* Types of the variables. *)
SandboxTypeOK ==
  /\ inodes \in 0..MaxDirs
  /\ \A e \in Execs : dirs[e] = None \/
       (dirs[e].inode \in 1..inodes /\ {dirs[e].old, dirs[e].key} \subseteq BOOLEAN)
  /\ \A s \in Slots : helpers[s] = None \/
       /\ helpers[s].of \in Execs
       /\ helpers[s].stage \in {"spawned", "rules", "ruled", "restricted", "running", "exited"}
       /\ helpers[s].writes \subseteq 1..inodes

(* Whatever fails or is removed between two steps of the helper, a command  *)
(* runs only restricted, and never with a right on the directory of another *)
(* execution ("there is no insecure fallback").                            *)
CommandsAreConfined ==
  \A s \in Slots : At(s, "running") =>
    /\ helpers[s].caged
    /\ \A e \in Execs \ {helpers[s].of} :
         dirs[e] # None => dirs[e].inode \notin helpers[s].writes

(* Every command is answered for, whatever it leaves running in its group.  *)
CallsAreAnswered == \A s \in Slots : (helpers[s] # None) ~> (helpers[s] = None)
================================================================================
