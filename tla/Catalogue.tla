-------------------------------- MODULE Catalogue --------------------------------
(***************************************************************************)
(* What flows are built from (backend/src/routes/llm-endpoints.ts,          *)
(* mcp-servers.ts, embedding-providers.ts, agent-contexts.ts): rows that    *)
(* belong to everybody or to a group, who may write them, the one default   *)
(* endpoint, and the tools an MCP server had when it was last asked.        *)
(*                                                                         *)
(* A write reads the row, checks the user against the row it has read, and  *)
(* writes: steps of their own. The hub's connection is the backend's.       *)
(***************************************************************************)
EXTENDS Integers, FiniteSets, NoValue

CONSTANTS
  Endpoints, Servers, Providers, Contexts,   \* rows there may be
  SiteAdmins,     \* users with the 'admin' permission
  Writers,        \* users with the app-wide write permissions
  GroupAdmins,    \* users with the permissions for groups only
  Teams,          \* groups
  Urls,           \* addresses of MCP servers
  Writes,         \* writes under way
  MaxWrites       \* bound: writes

ASSUME CatalogueAssumption ==
  Writers \cap GroupAdmins = {} /\ SiteAdmins \subseteq Writers /\ MaxWrites \in Nat
ASSUME RowsAreValues == None \notin [group : Teams \cup {None}, url : Urls \cup {None}]

VARIABLES
  rowOf,      \* rowOf[r]: the row of r, or None
  defaults,   \* endpoints marked as the default
  administers,\* administers[u]: the groups u is an admin of
  write,      \* write[w]: the write w, or None
  hubUrl,     \* hubUrl[s]: where the hub's connection to s goes, or None
  tools,      \* tools[s]: the address whose tools the row of s lists, or None
  writes,
  crossed     \* two writes of a default endpoint overlapped

catalogueVars == <<rowOf, defaults, administers, write, hubUrl, tools, writes, crossed>>

Resources == Endpoints \cup Servers \cup Providers \cup Contexts
Owners == Teams \cup {None}

CatalogueInit ==
  /\ rowOf = [r \in Resources |-> None] /\ defaults = {}
  /\ administers \in [Writers \cup GroupAdmins -> SUBSET Teams]
  /\ write = [w \in Writes |-> None]
  /\ hubUrl = [s \in Servers |-> None] /\ tools = [s \in Servers |-> None]
  /\ writes = 0 /\ crossed = FALSE

(* A row of a group is its group admins', a row of everybody the writers'.  *)
MayWrite(u, owner) ==
  \/ u \in SiteAdmins
  \/ owner = None /\ u \in Writers
  \/ owner # None /\ owner \in administers[u]

Fresh(owner, url) == [group |-> owner, url |-> url]
Counted == writes < MaxWrites /\ writes' = writes + 1

Create(r, row) ==
  /\ Counted /\ rowOf[r] = None /\ rowOf' = [rowOf EXCEPT ![r] = row]
  /\ UNCHANGED <<defaults, administers, write, hubUrl, crossed>>

CreateEndpoint(u, e, owner) ==
  /\ MayWrite(u, owner) /\ Create(e, Fresh(owner, None)) /\ UNCHANGED tools

(* The tools are those the body lists: none are asked for yet.              *)
CreateServer(u, s, owner, url) ==
  /\ MayWrite(u, owner) /\ Create(s, Fresh(owner, url))
  /\ tools' = [tools EXCEPT ![s] = None]

(* A provider for everybody may be created with the group permission too.   *)
CreateProvider(u, p, owner) ==
  /\ MayWrite(u, owner) \/ owner = None
  /\ Create(p, Fresh(owner, None)) /\ UNCHANGED tools

(* Contexts are checked by permission only.                                 *)
CreateContext(u, c, owner) ==
  Create(c, Fresh(owner, None)) /\ UNCHANGED tools

-------------------------------------------------------------------------------
(* PUT: read and check, then write *)

Job(kind, r, owner, url, at) == [kind |-> kind, row |-> r, group |-> owner, url |-> url, at |-> at]
AtWrite(w, at) == write[w] # None /\ write[w].at = at
EndWrite(w) == write' = [write EXCEPT ![w] = None]

CheckWrite(u, w, r, owner, url, kind) ==
  /\ Counted /\ write[w] = None /\ rowOf[r] # None
  /\ r \in Contexts \/ MayWrite(u, rowOf[r].group)
  /\ (kind = "default") => (r \in Endpoints)
  /\ (kind = "refresh") => (r \in Servers)
  /\ write' = [write EXCEPT ![w] = Job(kind, r, owner, url,
       CASE kind = "default" -> "clearing" [] kind = "refresh" -> "connecting"
         [] OTHER -> kind)]
  /\ crossed' = (crossed \/ (kind = "default" /\
       \E v \in Writes : write[v] # None /\ write[v].kind = "default"))
  /\ UNCHANGED <<rowOf, defaults, administers, hubUrl, tools>>

(* The default is taken from every endpoint before it is given to one.      *)
(* Mutation: only from those of the row's own group. *)
ClearDefaultOfGroup(w) ==
  /\ AtWrite(w, "clearing")
  /\ defaults' = {e \in defaults : rowOf[e].group # write[w].group}
  /\ write' = [write EXCEPT ![w].at = "put"]
  /\ UNCHANGED <<rowOf, administers, hubUrl, tools, writes, crossed>>

ClearDefault(w) ==
  /\ AtWrite(w, "clearing") /\ defaults' = {}
  /\ write' = [write EXCEPT ![w].at = "put"]
  /\ UNCHANGED <<rowOf, administers, hubUrl, tools, writes, crossed>>

(* The row may be gone by now; its group may be another one. The body may   *)
(* take the mark of the default away, or not mention it.                    *)
UpdateEndpoint(w) ==
  /\ AtWrite(w, "put") /\ write[w].row \in Endpoints /\ EndWrite(w)
  /\ LET job == write[w]
     IN IF rowOf[job.row] = None THEN UNCHANGED <<rowOf, defaults>>
        ELSE /\ rowOf' = [rowOf EXCEPT ![job.row].group = job.group]
             /\ IF job.kind = "default" THEN defaults' = defaults \cup {job.row}
                ELSE defaults' \in {defaults, defaults \ {job.row}}
  /\ UNCHANGED <<administers, hubUrl, tools, writes, crossed>>

UpdateRow(w, kinds) ==
  /\ AtWrite(w, "put") /\ write[w].row \in kinds /\ EndWrite(w)
  /\ LET job == write[w]
     IN rowOf' = IF rowOf[job.row] = None THEN rowOf
                 ELSE [rowOf EXCEPT ![job.row] = Fresh(job.group, job.url)]
  /\ UNCHANGED <<defaults, administers, hubUrl, tools, writes, crossed>>

(* The connection of the hub stays with the old address.                    *)
UpdateServer(w) == UpdateRow(w, Servers)
UpdateProvider(w) == UpdateRow(w, Providers)
UpdateContext(w) == UpdateRow(w, Contexts)

DeleteRowOf(w, kinds) ==
  /\ AtWrite(w, "delete") /\ write[w].row \in kinds /\ EndWrite(w)
  /\ rowOf' = [rowOf EXCEPT ![write[w].row] = None]
  /\ defaults' = defaults \ {write[w].row}
  /\ UNCHANGED <<administers, hubUrl, tools, writes, crossed>>

DeleteEndpoint(w) == DeleteRowOf(w, Endpoints)
DeleteServer(w) == DeleteRowOf(w, Servers)
DeleteProvider(w) == DeleteRowOf(w, Providers)
DeleteContext(w) == DeleteRowOf(w, Contexts)

-------------------------------------------------------------------------------
(* POST /mcp-servers/:id/refresh *)

(* The address is the one of the row that was read for the check; the job   *)
(* keeps it. A connection that fails ends the request with none.            *)
Reconnect(w) ==
  /\ AtWrite(w, "connecting")
  /\ LET s == write[w].row
     IN \/ hubUrl' = [hubUrl EXCEPT ![s] = None] /\ EndWrite(w)
        \/ /\ hubUrl' = [hubUrl EXCEPT ![s] = write[w].url]
           /\ write' = [write EXCEPT ![w].at = "listing"]
  /\ UNCHANGED <<rowOf, defaults, administers, tools, writes, crossed>>

(* The tools are asked of whatever connection the hub has by now.           *)
ListTools(w) ==
  /\ AtWrite(w, "listing") /\ EndWrite(w)
  /\ LET s == write[w].row
     IN tools' = IF hubUrl[s] = None \/ rowOf[s] = None THEN tools
                 ELSE [tools EXCEPT ![s] = hubUrl[s]]
  /\ UNCHANGED <<rowOf, defaults, administers, hubUrl, writes, crossed>>

CatalogueNext ==
  \/ \E u \in Writers \cup GroupAdmins, owner \in Owners :
       \/ \E e \in Endpoints : CreateEndpoint(u, e, owner)
       \/ \E s \in Servers, url \in Urls : CreateServer(u, s, owner, url)
       \/ \E p \in Providers : CreateProvider(u, p, owner)
       \/ \E c \in Contexts : CreateContext(u, c, owner)
       \/ \E w \in Writes, r \in Resources, kind \in {"put", "default", "delete", "refresh"} :
            \E url \in IF kind = "refresh" /\ r \in Servers /\ rowOf[r] # None THEN {rowOf[r].url}
                       ELSE IF r \in Servers THEN Urls ELSE {None} :
              CheckWrite(u, w, r, owner, url, kind)
  \/ \E w \in Writes :
       \/ ClearDefault(w) \/ UpdateEndpoint(w) \/ UpdateServer(w) \/ UpdateProvider(w)
       \/ UpdateContext(w) \/ DeleteEndpoint(w) \/ DeleteServer(w) \/ DeleteProvider(w)
       \/ DeleteContext(w) \/ Reconnect(w) \/ ListTools(w)

CatalogueSpec == CatalogueInit /\ [][CatalogueNext]_catalogueVars

-------------------------------------------------------------------------------
(* Types of the variables. *)
CatalogueTypeOK ==
  /\ \A r \in Resources : rowOf[r] # None => rowOf[r].group \in Owners
  /\ defaults \subseteq Endpoints /\ crossed \in BOOLEAN /\ writes \in 0..MaxWrites
  /\ \A s \in Servers : {hubUrl[s], tools[s]} \subseteq Urls \cup {None}

(* There is at most one default endpoint, and it is a row, as long as no    *)
(* two requests that set the default overlap.                               *)
OneDefaultEndpoint ==
  ~crossed => Cardinality(defaults) <= 1 /\ \A e \in defaults : rowOf[e] # None
================================================================================
