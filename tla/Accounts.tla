-------------------------------- MODULE Accounts --------------------------------
(***************************************************************************)
(* Accounts, roles and group memberships (backend/src/routes/auth.ts,       *)
(* admin.ts, groups.ts): registration, local and single sign-on logins, the *)
(* refresh of a session that brings memberships in line with the identity   *)
(* provider, and the administration of all of it.                           *)
(*                                                                         *)
(* Requests are split at their statements, none of which shares a           *)
(* transaction. group_members has no unique index: memberships are counted. *)
(* A group's name is unique, whoever provides the group.                    *)
(***************************************************************************)
EXTENDS Integers, FiniteSets, NoValue

CONSTANTS
  People,         \* users
  Requests,       \* requests under way
  GroupNames,     \* names of groups
  AdminMapping, EditorMapping,   \* sso_config: names that make a role
  MaxLogins,      \* bound: requests of people
  MaxChores       \* bound: requests of administrators

ASSUME AccountsAssumption ==
  /\ AdminMapping \cup EditorMapping \subseteq GroupNames
  /\ IsFiniteSet(GroupNames) /\ MaxLogins \in Nat /\ MaxChores \in Nat

ASSUME AccountsNoneAssumption ==
  None \notin Requests /\ None \notin GroupNames /\ None \notin {"local", "sso"}

VARIABLES
  account,     \* account[u]: the role of its row, or None without a row
  cookie,      \* cookie[u]: the role in u's token, or None
  refreshable, \* refreshable[u]: the row has the provider's refresh token
  groupOf,     \* groupOf[g]: the provider of group g, or None without a row
  members,     \* members[g][u]: how many rows of group_members
  req,         \* req[r]: the request r, or None
  logins, chores

accountVars == <<account, cookie, refreshable, groupOf, members, req, logins, chores>>

Roles == {"admin", "editor", "reader"}

AccountsInit ==
  /\ account = [u \in People |-> None] /\ cookie = [u \in People |-> None]
  /\ refreshable = [u \in People |-> FALSE]
  /\ \E local \in SUBSET GroupNames :
       groupOf = [g \in GroupNames |-> IF g \in local THEN "local" ELSE None]
  /\ members = [g \in GroupNames |-> [u \in People |-> 0]]
  /\ req = [r \in Requests |-> None] /\ logins = 0 /\ chores = 0

GroupsOf(provider) == {g \in GroupNames : groupOf[g] = provider}
IsLocal(g) == groupOf[g] = "local"
MembershipsOf(u) == {g \in GroupNames : members[g][u] > 0}

(* Other requests of u's, and what an administrator does to it, interfere.  *)
Disturb(r, u) == [q \in Requests |->
  IF q # r /\ req[q] # None /\ req[q].user = u THEN [req[q] EXCEPT !.alone = FALSE]
  ELSE req[q]]

-------------------------------------------------------------------------------
(* POST /register *)

Doubled(u) == \E g \in GroupNames : members[g][u] > 1
Doing(r, where) == req[r] # None /\ req[r].at = where

(* role is the one of the row this request has read.                        *)
Start(r, u, where, claims) ==
  [at |-> where, user |-> u, claims |-> claims, todo |-> claims, item |-> None,
   first |-> FALSE, role |-> account[u],
   alone |-> ~Doubled(u) /\ \A q \in Requests \ {r} : req[q] # None => req[q].user # u,
   before |-> MembershipsOf(u) \cap GroupsOf("local")]

Register(r, u) ==
  /\ req[r] = None /\ logins < MaxLogins /\ logins' = logins + 1
  /\ account[u] = None
  /\ req' = [Disturb(r, u) EXCEPT ![r] = Start(r, u, "counting", {})]
  /\ UNCHANGED <<account, cookie, refreshable, groupOf, members, chores>>

(* The password is hashed first, so that the count is not so old.           *)
CountUsers(r) ==
  /\ req[r] # None /\ req[r].at = "counting"
  /\ req' = [req EXCEPT ![r].at = "registering",
                        ![r].first = \A u \in People : account[u] = None]
  /\ UNCHANGED <<account, cookie, refreshable, groupOf, members, logins, chores>>

InsertUser(r) ==
  /\ req[r] # None /\ req[r].at = "registering"
  /\ LET u == req[r].user
         role == IF req[r].first THEN "admin" ELSE "reader"
     IN IF account[u] # None THEN UNCHANGED <<account, cookie>>      \* the email is taken
        ELSE /\ account' = [account EXCEPT ![u] = role]
             /\ cookie' = [cookie EXCEPT ![u] = role]
  /\ req' = [req EXCEPT ![r] = None]
  /\ UNCHANGED <<refreshable, groupOf, members, logins, chores>>

(* POST /login, POST /logout.                                              *)
Login(u) ==
  /\ account[u] # None /\ cookie[u] # account[u] /\ logins < MaxLogins
  /\ logins' = logins + 1
  /\ cookie' = [cookie EXCEPT ![u] = account[u]]
  /\ UNCHANGED <<account, refreshable, groupOf, members, req, chores>>

Logout(u) ==
  /\ cookie[u] # None /\ cookie' = [cookie EXCEPT ![u] = None]
  /\ UNCHANGED <<account, refreshable, groupOf, members, req, logins, chores>>

-------------------------------------------------------------------------------
(* GET /sso/callback *)

(* The user is found by the provider's id or by email, or made a reader.    *)
SsoCallback(r, u, claims) ==
  /\ req[r] = None /\ logins < MaxLogins /\ logins' = logins + 1
  /\ account' = [account EXCEPT ![u] = IF @ = None THEN "reader" ELSE @]
  /\ req' = [Disturb(r, u) EXCEPT
       ![r] = [Start(r, u, "joining", claims) EXCEPT !.role = account'[u]]]
  /\ UNCHANGED <<cookie, refreshable, groupOf, members, chores>>

Fails(r) == req' = [req EXCEPT ![r] = None]

(* The next claim: its group is made when it is missing, which fails when a *)
(* local group has the name, and the membership is looked up.               *)
FindGroup(r) ==
  /\ Doing(r, "joining") /\ req[r].item = None
  /\ \E g \in req[r].todo :
       IF groupOf[g] = "local" THEN Fails(r) /\ UNCHANGED groupOf
       ELSE /\ groupOf' = [groupOf EXCEPT ![g] = "sso"]
            /\ req' = [req EXCEPT ![r].todo = @ \ {g},
                 ![r].item = IF members[g][req[r].user] = 0 THEN g ELSE None]
  /\ UNCHANGED <<account, cookie, refreshable, members, logins, chores>>

Add(g, u) == members' = [members EXCEPT ![g][u] = @ + 1]

JoinGroup(r) ==
  /\ Doing(r, "joining") /\ req[r].item # None
  /\ Add(req[r].item, req[r].user)
  /\ req' = [Disturb(r, req[r].user) EXCEPT ![r].item = None]
  /\ UNCHANGED <<account, cookie, refreshable, groupOf, logins, chores>>

(* Memberships of the provider's groups that are not among the claims.      *)
(* Mutation: groups of whatever origin. *)
StaleOfAnyOrigin(u, claims) == MembershipsOf(u) \ claims

Stale(u, claims) == (MembershipsOf(u) \cap GroupsOf("sso")) \ claims

FindStale(r) ==
  /\ Doing(r, "joining") /\ req[r].item = None /\ req[r].todo = {}
  /\ req' = [req EXCEPT ![r].at = "leaving",
                        ![r].todo = Stale(req[r].user, req[r].claims)]
  /\ UNCHANGED <<account, cookie, refreshable, groupOf, members, logins, chores>>

LeaveGroup(r) ==
  /\ Doing(r, "leaving")
  /\ \E g \in req[r].todo :
       /\ members' = [members EXCEPT ![g][req[r].user] = 0]
       /\ req' = [Disturb(r, req[r].user) EXCEPT ![r].todo = @ \ {g}]
  /\ UNCHANGED <<account, cookie, refreshable, groupOf, logins, chores>>

RoleFor(claims) ==
  IF claims \cap AdminMapping # {} THEN "admin"
  ELSE IF claims \cap EditorMapping # {} THEN "editor" ELSE "reader"

(* Role, token and cookie: the answer.                                     *)
EndCallback(r) ==
  /\ Doing(r, "leaving") /\ req[r].todo = {}
  /\ LET u == req[r].user
         role == RoleFor(req[r].claims)
     IN /\ account' = [account EXCEPT ![u] = IF req[r].role = role THEN @ ELSE role]
        /\ cookie' = [cookie EXCEPT ![u] = role]
        /\ refreshable' = [refreshable EXCEPT ![u] = TRUE]
        /\ req' = [Disturb(r, u) EXCEPT ![r].at = "entered"]
  /\ UNCHANGED <<groupOf, members, logins, chores>>

AnswerRequest(r) ==
  /\ Doing(r, "entered") /\ Fails(r)
  /\ UNCHANGED <<account, cookie, refreshable, groupOf, members, logins, chores>>

-------------------------------------------------------------------------------
(* GET /me, when the provider's token has expired *)

(* All memberships are compared with the claims, local ones too: how many  *)
(* there are, and each name. When the provider refuses the session goes on. *)
RefreshSession(r, u, claims) ==
  /\ req[r] = None /\ logins < MaxLogins /\ logins' = logins + 1
  /\ cookie[u] # None /\ refreshable[u]
  /\ LET rows == UNION {{g} \X (1..members[g][u]) : g \in GroupNames}
         same == Cardinality(rows) = Cardinality(claims) /\ MembershipsOf(u) \subseteq claims
     IN req' = [Disturb(r, u) EXCEPT
          ![r] = Start(r, u, IF same THEN "entered" ELSE "clearing", claims)]
  /\ UNCHANGED <<account, cookie, refreshable, groupOf, members, chores>>

ClearGroups(r) ==
  /\ Doing(r, "clearing")
  /\ LET u == req[r].user
     IN /\ members' = [g \in GroupNames |->
             IF groupOf[g] = "sso" THEN [members[g] EXCEPT ![u] = 0] ELSE members[g]]
        /\ req' = [Disturb(r, u) EXCEPT ![r].at = "rejoining"]
  /\ UNCHANGED <<account, cookie, refreshable, groupOf, logins, chores>>

RejoinGroup(r) ==
  /\ Doing(r, "rejoining")
  /\ \E g \in req[r].todo :
       IF groupOf[g] = "local"
       THEN Fails(r) /\ UNCHANGED <<groupOf, members>>
       ELSE /\ groupOf' = [groupOf EXCEPT ![g] = "sso"]
            /\ Add(g, req[r].user)
            /\ req' = [Disturb(r, req[r].user) EXCEPT ![r].todo = @ \ {g}]
  /\ UNCHANGED <<account, cookie, refreshable, logins, chores>>

(* The row's role changes; the token in the cookie stays.                   *)
EndRefresh(r) ==
  /\ Doing(r, "rejoining") /\ req[r].todo = {}
  /\ account' = [account EXCEPT ![req[r].user] = RoleFor(req[r].claims)]
  /\ req' = [Disturb(r, req[r].user) EXCEPT ![r].at = "entered"]
  /\ UNCHANGED <<cookie, refreshable, groupOf, members, logins, chores>>

-------------------------------------------------------------------------------
(* Administration *)

Chore == chores < MaxChores /\ chores' = chores + 1 /\ UNCHANGED <<refreshable, logins>>

(* Single steps. The groups of a provider are not edited here.              *)
CreateGroup(g) ==
  /\ Chore /\ groupOf[g] = None
  /\ groupOf' = [groupOf EXCEPT ![g] = "local"]
  /\ UNCHANGED <<account, cookie, members, req>>

(* Members first. A membership that comes in between makes it fail.         *)
DeleteGroup(g) ==
  /\ Chore /\ IsLocal(g)
  /\ members' = [members EXCEPT ![g] = [u \in People |-> 0]]
  /\ groupOf' = [groupOf EXCEPT ![g] = None]
  /\ req' = [q \in Requests |-> IF req[q] = None THEN None ELSE [req[q] EXCEPT !.alone = FALSE]]
  /\ UNCHANGED <<account, cookie>>

AddMember(g, u) ==
  /\ Chore /\ IsLocal(g) /\ account[u] # None /\ members[g][u] = 0
  /\ Add(g, u)
  /\ req' = Disturb(None, u)
  /\ UNCHANGED <<account, cookie, groupOf>>

RemoveMember(g, u) ==
  /\ IsLocal(g) /\ members[g][u] > 0
  /\ members' = [members EXCEPT ![g][u] = 0]
  /\ req' = Disturb(None, u)
  /\ UNCHANGED <<account, cookie, refreshable, groupOf, logins, chores>>

(* PUT /users/:id/groups: only local groups are left and joined.            *)
SetGroups(u, chosen) ==
  /\ Chore /\ account[u] # None
  /\ members' = [g \in GroupNames |->
       IF IsLocal(g) THEN [members[g] EXCEPT ![u] = IF g \in chosen THEN 1 ELSE 0]
       ELSE members[g]]
  /\ req' = Disturb(None, u)
  /\ UNCHANGED <<account, cookie, groupOf>>

SetRole(u, role) ==
  /\ Chore /\ account[u] # None
  /\ account' = [account EXCEPT ![u] = role]
  /\ UNCHANGED <<cookie, groupOf, members, req>>

(* A user in a group cannot be deleted: the membership refers to the row. A *)
(* deletion while the user logs in is left out. The token stays good.       *)
DeleteUser(u) ==
  /\ chores < MaxChores /\ chores' = chores + 1
  /\ account[u] # None /\ MembershipsOf(u) = {}
  /\ \A r \in Requests : req[r] # None => req[r].user # u
  /\ account' = [account EXCEPT ![u] = None]
  /\ refreshable' = [refreshable EXCEPT ![u] = FALSE]
  /\ UNCHANGED <<cookie, groupOf, members, req, logins>>

AccountsNext ==
  \/ \E r \in Requests :
       \/ CountUsers(r) \/ InsertUser(r) \/ FindGroup(r) \/ JoinGroup(r) \/ FindStale(r)
       \/ LeaveGroup(r) \/ EndCallback(r) \/ AnswerRequest(r)
       \/ ClearGroups(r) \/ RejoinGroup(r) \/ EndRefresh(r)
  \/ \E r \in Requests, u \in People :
       \/ Register(r, u)
       \/ \E claims \in SUBSET GroupNames : SsoCallback(r, u, claims) \/ RefreshSession(r, u, claims)
  \/ \E u \in People :
       \/ Login(u) \/ Logout(u) \/ DeleteUser(u)
       \/ \E g \in GroupNames : AddMember(g, u) \/ RemoveMember(g, u)
       \/ \E chosen \in SUBSET GroupNames : SetGroups(u, chosen)
       \/ \E role \in Roles : SetRole(u, role)
  \/ \E g \in GroupNames : CreateGroup(g) \/ DeleteGroup(g)

AccountsSpec == AccountsInit /\ [][AccountsNext]_accountVars

-------------------------------------------------------------------------------
(* Types of the variables. *)
AccountsTypeOK ==
  /\ \A u \in People : {account[u], cookie[u]} \subseteq Roles \cup {None}
  /\ \A g \in GroupNames : groupOf[g] \in {"local", "sso", None}
  /\ \A g \in GroupNames, u \in People : members[g][u] \in Nat

(* A single sign-on login, or a refresh, nobody interfered with leaves the   *)
(* user in exactly the provider's groups of its claims, and in the local    *)
(* groups it was in before.                                                 *)
LoginSyncsGroups ==
  \A r \in Requests : Doing(r, "entered") /\ req[r].alone =>
    LET mine == MembershipsOf(req[r].user)
    IN /\ mine \cap GroupsOf("sso") = req[r].claims \ GroupsOf("local")
       /\ mine \cap GroupsOf("local") = req[r].before
================================================================================
