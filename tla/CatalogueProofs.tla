---------------------------- MODULE CatalogueProofs ----------------------------
(***************************************************************************)
(* Of rows that several statements keep, for any number of them and of      *)
(* requests.                                                               *)
(*                                                                         *)
(* Catalogue: there is one default endpoint at most. Between taking the     *)
(* mark from all endpoints and giving it to one, only another write that    *)
(* sets the default could give it to somebody else.                         *)
(*                                                                         *)
(* Knowledge: a document has its chunks from the moment they are inserted   *)
(* until somebody begins to delete it.                                      *)
(*                                                                         *)
(* Accounts: a login or a refresh that nobody disturbs at its user leaves   *)
(* it in the groups of its claims. SyncedTo says, at each statement of the  *)
(* request, how far its user's memberships have been brought in line.       *)
(*                                                                         *)
(* SecretKeys: stored secrets open. A re-encryption names one version for   *)
(* all it writes and encrypts with the key that is current at each row: as  *)
(* long as nobody changes the current key under it, that key is the one it  *)
(* names.                                                                  *)
(***************************************************************************)
EXTENDS Accounts, Catalogue, Knowledge, SecretKeys, FiniteSetTheorems, TLAPS

RowValues == [group : Owners, url : Urls \cup {None}]
WriteSteps == {"put", "delete", "clearing", "connecting", "listing"}
Jobs ==
  [kind : {"put", "default", "delete", "refresh"}, row : Resources, group : Owners,
   url : Urls \cup {None}, at : WriteSteps]

CatalogueRowsOK ==
  /\ rowOf \in [Resources -> RowValues \cup {None}]
  /\ defaults \subseteq Endpoints /\ crossed \in BOOLEAN /\ writes \in 0..MaxWrites
  /\ hubUrl \in [Servers -> Urls \cup {None}] /\ tools \in [Servers -> Urls \cup {None}]

WritesOK ==
  /\ DOMAIN write = Writes /\ write = [w \in Writes |-> write[w]]
  /\ \A w \in Writes : write[w] = None \/ write[w] \in Jobs

Setting(w) == write[w] # None /\ write[w].kind = "default"

(* One write at most sets the default, and finds none when it does.         *)
OneSets ==
  /\ \A v, w \in Writes : Setting(v) /\ Setting(w) => v = w
  /\ \A w \in Writes : Setting(w) /\ write[w].at = "put" => defaults = {}

OneIsSet ==
  /\ \A d, e \in defaults : d = e
  /\ \A e \in defaults : rowOf[e] # None

CatalogueInv == CatalogueRowsOK /\ WritesOK /\ (~crossed => OneSets /\ OneIsSet)

LEMMA RowsArePresent == None \notin RowValues
<1> QED BY RowsAreValues DEF RowValues, Owners

LEMMA CatalogueStarts == CatalogueInit => CatalogueInv
<1> SUFFICES ASSUME CatalogueInit PROVE CatalogueInv
  OBVIOUS
<1>1. CatalogueRowsOK
  <2>1. rowOf \in [Resources -> RowValues \cup {None}]
    BY DEF CatalogueInit
  <2>2. hubUrl \in [Servers -> Urls \cup {None}] /\ tools \in [Servers -> Urls \cup {None}]
    BY DEF CatalogueInit
  <2>3. defaults \subseteq Endpoints /\ crossed \in BOOLEAN /\ writes \in 0..MaxWrites
    <3>1. MaxWrites \in Nat
      BY CatalogueAssumption DEF CatalogueAssumption
    <3>2. defaults = {} /\ crossed = FALSE /\ writes = 0
      BY DEF CatalogueInit
    <3>3. crossed \in BOOLEAN
      BY <3>2, Zenon
    <3>4. defaults \subseteq Endpoints /\ writes \in 0..MaxWrites
      BY <3>1, <3>2
    <3> QED BY <3>3, <3>4
  <2> QED BY <2>1, <2>2, <2>3 DEF CatalogueRowsOK
<1>2. WritesOK
  BY DEF CatalogueInit, WritesOK
<1>3. OneSets /\ OneIsSet
  BY DEF CatalogueInit, OneSets, OneIsSet, Setting
<1> QED BY <1>1, <1>2, <1>3 DEF CatalogueInv

(* A row that is created is nobody's default.                               *)
LEMMA CreateKeeps ==
  ASSUME CatalogueInv, NEW r \in Resources, NEW row \in RowValues, Create(r, row),
         tools' \in [Servers -> Urls \cup {None}]
  PROVE  CatalogueInv'
<1>1. CatalogueRowsOK'
  BY CatalogueAssumption DEF Create, Counted, CatalogueInv, CatalogueRowsOK
<1>2. WritesOK'
  BY DEF Create, CatalogueInv, WritesOK
<1>3. ASSUME OneSets, OneIsSet PROVE OneSets' /\ OneIsSet'
  <2>1. \A e \in Resources : rowOf[e] # None => rowOf'[e] # None
    BY RowsArePresent DEF Create, CatalogueInv, CatalogueRowsOK
  <2>2. \A e \in defaults : e \in Resources
    BY DEF CatalogueInv, CatalogueRowsOK, Resources
  <2> QED BY <1>3, <2>1, <2>2 DEF Create, OneSets, OneIsSet, Setting
<1> QED BY <1>1, <1>2, <1>3 DEF Create, CatalogueInv

(* A write begins; a second one that sets the default counts as crossed.    *)
LEMMA CheckKeeps ==
  ASSUME CatalogueInv, NEW u, NEW w \in Writes, NEW r \in Resources, NEW owner \in Owners,
         NEW url \in Urls \cup {None}, NEW kind \in {"put", "default", "delete", "refresh"},
         CheckWrite(u, w, r, owner, url, kind)
  PROVE  CatalogueInv'
<1> DEFINE at == CASE kind = "default" -> "clearing" [] kind = "refresh" -> "connecting"
                   [] OTHER -> kind
           job == Job(kind, r, owner, url, at)
<1>1. /\ write' = [write EXCEPT ![w] = job] /\ write[w] = None
      /\ UNCHANGED <<rowOf, defaults, hubUrl, tools>>
      /\ crossed' = (crossed \/ (kind = "default" /\ \E v \in Writes : Setting(v)))
      /\ writes < MaxWrites /\ writes' = writes + 1
  BY DEF CheckWrite, Counted, Setting
<1>2. at \in WriteSteps /\ (kind = "default" => at # "put")
  BY DEF WriteSteps
<1> HIDE DEF at
<1>3. job \in Jobs /\ job.kind = kind /\ job.at = at
  BY <1>2 DEF Jobs, Job
<1> HIDE DEF job
<1>4. CatalogueRowsOK'
  BY <1>1, CatalogueAssumption DEF CatalogueInv, CatalogueRowsOK
<1>5. \A v \in Writes : write'[v] = IF v = w THEN job ELSE write[v]
  BY <1>1 DEF CatalogueInv, WritesOK
<1>6. WritesOK'
  BY <1>1, <1>3, <1>5 DEF CatalogueInv, WritesOK
<1>7. ASSUME ~crossed' PROVE OneSets' /\ OneIsSet'
  <2>1. OneSets /\ OneIsSet /\ (kind = "default" => \A v \in Writes : ~Setting(v))
    BY <1>1, <1>7 DEF CatalogueInv, CatalogueRowsOK
  <2>2. OneIsSet'
    BY <1>1, <2>1 DEF OneIsSet
  <2>3. \A v \in Writes : v # w => (Setting(v)' <=> Setting(v))
    BY <1>5 DEF Setting
  <2>4. Setting(w)' => kind = "default"
    BY <1>3, <1>5 DEF Setting
  <2>5. OneSets'
    BY <1>1, <1>2, <1>3, <1>5, <2>1, <2>3, <2>4 DEF OneSets
  <2> QED BY <2>2, <2>5
<1> QED BY <1>4, <1>6, <1>7 DEF CatalogueInv

(* A write moves on, or ends: what it does to the rows and to the default.   *)
LEMMA WriteMoves ==
  ASSUME CatalogueInv, NEW w \in Writes, NEW job, NEW row,
         write[w] # None, row = write[w].row,
         write' = [write EXCEPT ![w] = job],
         job = None \/ (job \in Jobs /\ job.kind = write[w].kind),
         CatalogueRowsOK', crossed' = crossed,
         \A r \in Resources : r # row => rowOf'[r] = rowOf[r],
         \A e \in defaults' : rowOf[e] # None => rowOf'[e] # None,
         \/ defaults' = {}
         \/ defaults' \subseteq defaults /\ (job = None \/ job.at # "put")
         \/ /\ write[w].kind = "default" /\ write[w].at = "put" /\ job = None
            /\ defaults' = defaults \cup {row} /\ rowOf'[row] # None
  PROVE  CatalogueInv'
<1>1. \A v \in Writes : write'[v] = IF v = w THEN job ELSE write[v]
  BY DEF CatalogueInv, WritesOK
<1>2. WritesOK'
  BY <1>1 DEF CatalogueInv, WritesOK
<1>3. ASSUME ~crossed, OneSets, OneIsSet PROVE OneSets' /\ OneIsSet'
  <2>1. \A v \in Writes : Setting(v)' => Setting(v)
    BY <1>1 DEF Setting
  <2>2. \A v \in Writes : v # w => write'[v] = write[v]
    BY <1>1
  <2>3. CASE defaults' = {}
    BY <1>3, <2>1, <2>3 DEF OneSets, OneIsSet
  <2>4. CASE defaults' \subseteq defaults /\ (job = None \/ job.at # "put")
    <3>1. \A v \in Writes : Setting(v)' /\ write'[v].at = "put" => Setting(v) /\ write[v].at = "put"
      BY <1>1, <2>1, <2>2, <2>4 DEF Setting
    <3> QED BY <1>3, <2>1, <2>4, <3>1 DEF OneSets, OneIsSet
  <2>5. CASE /\ write[w].kind = "default" /\ write[w].at = "put" /\ job = None
             /\ defaults' = defaults \cup {row} /\ rowOf'[row] # None
    <3>1. Setting(w) /\ defaults = {}
      BY <1>3, <2>5 DEF Setting, OneSets
    <3>2. \A v \in Writes : ~Setting(v)'
      BY <1>1, <1>3, <2>1, <2>5, <3>1 DEF Setting, OneSets
    <3> QED BY <2>5, <3>1, <3>2 DEF OneSets, OneIsSet
  <2> QED BY <2>3, <2>4, <2>5
<1> QED BY <1>2, <1>3 DEF CatalogueInv

LEMMA WritesKeep ==
  ASSUME CatalogueInv, NEW w \in Writes,
         \/ ClearDefault(w) \/ UpdateEndpoint(w)
         \/ \E kinds \in SUBSET Resources : UpdateRow(w, kinds) \/ DeleteRowOf(w, kinds)
         \/ Reconnect(w) \/ ListTools(w)
  PROVE  CatalogueInv'
<1> DEFINE old == write[w]
<1>1. old # None /\ crossed' = crossed /\ writes' = writes
  BY DEF AtWrite, ClearDefault, UpdateEndpoint, UpdateRow, DeleteRowOf, Reconnect, ListTools
<1>2. old \in Jobs /\ CatalogueRowsOK
  BY <1>1 DEF CatalogueInv, WritesOK
<1>3. old.row \in Resources /\ old.group \in Owners /\ old.url \in Urls \cup {None}
  BY <1>2 DEF Jobs
<1>4. \A r \in Resources, g \in Owners :
        rowOf[r] # None => [rowOf[r] EXCEPT !.group = g] \in RowValues
  BY <1>2 DEF CatalogueRowsOK, RowValues
<1>5. \A g \in Owners, url \in Urls \cup {None} : Fresh(g, url) \in RowValues
  BY DEF Fresh, RowValues
<1>6. \A e \in defaults : e \in Resources
  BY <1>2 DEF CatalogueRowsOK, Resources
<1>7. CASE ClearDefault(w)
  <2>1. PICK new : new = [old EXCEPT !.at = "put"]
    OBVIOUS
  <2>2. new \in Jobs /\ new.kind = old.kind
    BY <1>2, <2>1 DEF Jobs, WriteSteps
  <2>3. /\ write' = [write EXCEPT ![w] = new] /\ defaults' = {} /\ UNCHANGED <<rowOf, hubUrl, tools>>
    BY <1>7, <2>1 DEF ClearDefault
  <2>4. CatalogueRowsOK'
    BY <1>1, <1>2, <2>3 DEF CatalogueRowsOK
  <2> QED BY <1>1, <2>2, <2>3, <2>4, WriteMoves
<1>8. CASE UpdateEndpoint(w)
  <2>1. /\ write' = [write EXCEPT ![w] = None] /\ UNCHANGED <<hubUrl, tools>>
        /\ old.at = "put" /\ old.row \in Endpoints
    BY <1>8 DEF UpdateEndpoint, AtWrite, EndWrite
  <2>2. CASE rowOf[old.row] = None
    <3>1. UNCHANGED <<rowOf, defaults>>
      BY <1>8, <2>2 DEF UpdateEndpoint
    <3>2. CatalogueRowsOK'
      BY <1>1, <1>2, <2>1, <3>1 DEF CatalogueRowsOK
    <3> QED BY <1>1, <2>1, <3>1, <3>2, WriteMoves
  <2>3. CASE rowOf[old.row] # None
    <3>1. /\ rowOf' = [rowOf EXCEPT ![old.row].group = old.group]
          /\ IF old.kind = "default" THEN defaults' = defaults \cup {old.row}
             ELSE defaults' \in {defaults, defaults \ {old.row}}
      BY <1>8, <2>3 DEF UpdateEndpoint
    <3>2. [rowOf[old.row] EXCEPT !.group = old.group] \in RowValues
      BY <1>3, <1>4, <2>3
    <3>3. rowOf' \in [Resources -> RowValues \cup {None}] /\ rowOf'[old.row] # None
      BY <1>2, <1>3, <3>1, <3>2, RowsArePresent DEF CatalogueRowsOK
    <3>4. CatalogueRowsOK'
      BY <1>1, <1>2, <2>1, <3>1, <3>3 DEF CatalogueRowsOK
    <3>5. \A r \in Resources : r # old.row => rowOf'[r] = rowOf[r]
      BY <1>2, <3>1 DEF CatalogueRowsOK
    <3>6. \A e \in defaults' : rowOf[e] # None => rowOf'[e] # None
      BY <1>3, <1>6, <3>1, <3>3, <3>5
    <3>7. CASE old.kind = "default"
      BY <1>1, <2>1, <3>1, <3>3, <3>4, <3>5, <3>6, <3>7, WriteMoves
    <3>8. CASE old.kind # "default"
      <4>1. defaults' \subseteq defaults
        BY <3>1, <3>8
      <4> QED BY <1>1, <2>1, <3>4, <3>5, <3>6, <4>1, WriteMoves
    <3> QED BY <3>7, <3>8
  <2> QED BY <2>2, <2>3
<1>9. ASSUME NEW kinds \in SUBSET Resources, UpdateRow(w, kinds) PROVE CatalogueInv'
  <2>1. /\ write' = [write EXCEPT ![w] = None] /\ UNCHANGED <<defaults, hubUrl, tools>>
        /\ rowOf' = IF rowOf[old.row] = None THEN rowOf
                     ELSE [rowOf EXCEPT ![old.row] = Fresh(old.group, old.url)]
    BY <1>9 DEF UpdateRow, EndWrite
  <2>2. Fresh(old.group, old.url) \in RowValues /\ Fresh(old.group, old.url) # None
    BY <1>3, <1>5, RowsArePresent
  <2>3. /\ rowOf' \in [Resources -> RowValues \cup {None}]
        /\ \A r \in Resources : r # old.row => rowOf'[r] = rowOf[r]
        /\ \A r \in Resources : rowOf[r] # None => rowOf'[r] # None
    BY <1>2, <1>3, <2>1, <2>2 DEF CatalogueRowsOK
  <2>4. CatalogueRowsOK'
    BY <1>1, <1>2, <2>1, <2>3 DEF CatalogueRowsOK
  <2> QED BY <1>1, <1>6, <2>1, <2>3, <2>4, WriteMoves
<1>10. ASSUME NEW kinds \in SUBSET Resources, DeleteRowOf(w, kinds) PROVE CatalogueInv'
  <2>1. /\ write' = [write EXCEPT ![w] = None] /\ UNCHANGED <<hubUrl, tools>>
        /\ rowOf' = [rowOf EXCEPT ![old.row] = None] /\ defaults' = defaults \ {old.row}
    BY <1>10 DEF DeleteRowOf, EndWrite
  <2>2. /\ rowOf' \in [Resources -> RowValues \cup {None}]
        /\ \A r \in Resources : r # old.row => rowOf'[r] = rowOf[r]
    BY <1>2, <2>1 DEF CatalogueRowsOK
  <2>3. CatalogueRowsOK'
    BY <1>1, <1>2, <2>1, <2>2 DEF CatalogueRowsOK
  <2> QED BY <1>1, <1>6, <2>1, <2>2, <2>3, WriteMoves
<1>11. CASE Reconnect(w)
  <2>1. /\ UNCHANGED <<rowOf, defaults, tools>> /\ old.at = "connecting"
        /\ \/ /\ hubUrl' = [hubUrl EXCEPT ![old.row] = None]
              /\ write' = [write EXCEPT ![w] = None]
           \/ /\ hubUrl' = [hubUrl EXCEPT ![old.row] = old.url]
              /\ write' = [write EXCEPT ![w] = [old EXCEPT !.at = "listing"]]
    BY <1>11 DEF Reconnect, AtWrite, EndWrite
  <2>2. CatalogueRowsOK'
    BY <1>1, <1>2, <1>3, <2>1 DEF CatalogueRowsOK
  <2>3. CASE write' = [write EXCEPT ![w] = None]
    BY <1>1, <2>1, <2>2, <2>3, WriteMoves
  <2>4. CASE write' = [write EXCEPT ![w] = [old EXCEPT !.at = "listing"]]
    <3>1. PICK new : new = [old EXCEPT !.at = "listing"]
      OBVIOUS
    <3>2. new \in Jobs /\ new.kind = old.kind /\ new.at = "listing"
      BY <1>2, <3>1 DEF Jobs, WriteSteps
    <3> QED BY <1>1, <2>1, <2>2, <2>4, <3>1, <3>2, WriteMoves
  <2> QED BY <2>1, <2>3, <2>4
<1>12. CASE ListTools(w)
  <2>1. /\ UNCHANGED <<rowOf, defaults, hubUrl>> /\ write' = [write EXCEPT ![w] = None]
        /\ tools' = IF hubUrl[old.row] = None \/ rowOf[old.row] = None THEN tools
                    ELSE [tools EXCEPT ![old.row] = hubUrl[old.row]]
    BY <1>12 DEF ListTools, EndWrite
  <2>2. CatalogueRowsOK'
    BY <1>1, <1>2, <2>1 DEF CatalogueRowsOK
  <2> QED BY <1>1, <2>1, <2>2, WriteMoves
<1> QED BY <1>7, <1>8, <1>9, <1>10, <1>11, <1>12

LEMMA CatalogueKeeps == CatalogueInv /\ [CatalogueNext]_catalogueVars => CatalogueInv'
<1> SUFFICES ASSUME CatalogueInv, [CatalogueNext]_catalogueVars PROVE CatalogueInv'
  OBVIOUS
<1>1. ASSUME NEW u, NEW owner \in Owners,
             \/ \E e \in Endpoints : CreateEndpoint(u, e, owner)
             \/ \E s \in Servers, url \in Urls : CreateServer(u, s, owner, url)
             \/ \E p \in Providers : CreateProvider(u, p, owner)
             \/ \E c \in Contexts : CreateContext(u, c, owner)
      PROVE  CatalogueInv'
  <2>1. PICK r \in Resources, url \in Urls \cup {None} :
          Create(r, Fresh(owner, url)) /\ (tools' = tools \/ tools' = [tools EXCEPT ![r] = None])
    BY <1>1 DEF CreateEndpoint, CreateServer, CreateProvider, CreateContext, Resources
  <2>2. Fresh(owner, url) \in RowValues
    BY DEF Fresh, RowValues
  <2>3. tools' \in [Servers -> Urls \cup {None}]
    BY <2>1 DEF CatalogueInv, CatalogueRowsOK
  <2> QED BY <2>1, <2>2, <2>3, CreateKeeps
<1>2. ASSUME NEW u, NEW owner \in Owners, NEW w \in Writes, NEW r \in Resources,
             NEW kind \in {"put", "default", "delete", "refresh"},
             NEW url \in IF kind = "refresh" /\ r \in Servers /\ rowOf[r] # None THEN {rowOf[r].url}
                         ELSE IF r \in Servers THEN Urls ELSE {None},
             CheckWrite(u, w, r, owner, url, kind)
      PROVE  CatalogueInv'
  <2>1. rowOf[r] # None => rowOf[r].url \in Urls \cup {None}
    BY DEF CatalogueInv, CatalogueRowsOK, RowValues
  <2>2. url \in Urls \cup {None}
    BY <2>1
  <2> QED BY <1>2, <2>2, CheckKeeps
<1>3. ASSUME NEW w \in Writes,
             \/ ClearDefault(w) \/ UpdateEndpoint(w) \/ UpdateServer(w) \/ UpdateProvider(w)
             \/ UpdateContext(w) \/ DeleteEndpoint(w) \/ DeleteServer(w) \/ DeleteProvider(w)
             \/ DeleteContext(w) \/ Reconnect(w) \/ ListTools(w)
      PROVE  CatalogueInv'
  <2>1. /\ Endpoints \in SUBSET Resources /\ Servers \in SUBSET Resources
        /\ Providers \in SUBSET Resources /\ Contexts \in SUBSET Resources
    BY DEF Resources
  <2> QED BY <1>3, <2>1, WritesKeep
          DEF UpdateServer, UpdateProvider, UpdateContext, DeleteEndpoint, DeleteServer,
              DeleteProvider, DeleteContext
<1>4. CASE UNCHANGED catalogueVars
  BY <1>4 DEF catalogueVars, CatalogueInv, CatalogueRowsOK, WritesOK, OneSets, OneIsSet, Setting
<1> QED BY <1>1, <1>2, <1>3, <1>4, ZenonT(30) DEF CatalogueNext

LEMMA CatalogueAlwaysInv == CatalogueSpec => []CatalogueInv
<1> QED BY CatalogueStarts, CatalogueKeeps, PTL DEF CatalogueSpec

(* Rows keep their owners and servers their addresses, whoever writes.      *)
THEOREM CatalogueTypeCorrect == CatalogueSpec => []CatalogueTypeOK
<1>1. CatalogueInv => CatalogueTypeOK
  <2> SUFFICES ASSUME CatalogueInv PROVE CatalogueTypeOK
    OBVIOUS
  <2>1. \A r \in Resources : rowOf[r] # None => rowOf[r].group \in Owners
    BY DEF CatalogueInv, CatalogueRowsOK, RowValues
  <2> QED BY <2>1 DEF CatalogueInv, CatalogueRowsOK, CatalogueTypeOK
<1> QED BY <1>1, CatalogueAlwaysInv, PTL

(* With any number of endpoints, users, groups and writes side by side, one *)
(* endpoint at most is the default, and it is a row, unless two writes that *)
(* set the default overlap.                                                 *)
THEOREM OneEndpointIsDefault == CatalogueSpec => []OneDefaultEndpoint
<1>1. CatalogueInv => OneDefaultEndpoint
  <2> SUFFICES ASSUME CatalogueInv, ~crossed
               PROVE  Cardinality(defaults) <= 1 /\ \A e \in defaults : rowOf[e] # None
    BY DEF OneDefaultEndpoint
  <2>1. OneIsSet
    BY DEF CatalogueInv
  <2>2. CASE defaults = {}
    BY <2>2, FS_EmptySet
  <2>3. CASE defaults # {}
    <3>1. PICK e \in defaults : TRUE
      BY <2>3
    <3>2. \A d \in defaults : d = e /\ rowOf[d] # None
      BY <2>1, <3>1 DEF OneIsSet
    <3>3. defaults = {e}
      BY <3>1, <3>2
    <3>4. Cardinality(defaults) = 1
      BY <3>3, FS_Singleton
    <3> QED BY <3>2, <3>4
  <2> QED BY <2>2, <2>3
<1> QED BY <1>1, CatalogueAlwaysInv, PTL

-------------------------------------------------------------------------------
(* Knowledge                                                               *)

UploadStages == {"none", "embedding", "mirroring", "done", "failed"}

StoresOK ==
  /\ storeRows \subseteq StoreNames /\ storeEdits \in 0..MaxStoreEdits
  /\ registered \in [Processes -> SUBSET StoreNames]
  /\ mirror \in [StoreNames -> SUBSET Docs]

(* A document has its chunks from the moment they are inserted until        *)
(* somebody begins to delete it; only then may it go.                       *)
DocumentsOK ==
  /\ document \cup uploaded \cup deleted \subseteq Docs /\ embedded \subseteq document
  /\ upload \in [Docs -> [at : UploadStages, todo : SUBSET StoreNames]]
  /\ \A d \in Docs : upload[d].at = "mirroring" /\ d \notin deleted => d \in embedded
  /\ \A d \in uploaded : d \notin deleted => d \in embedded

KnowledgeInv == StoresOK /\ DocumentsOK

LEMMA KnowledgeStarts == KnowledgeInit => KnowledgeInv
<1> SUFFICES ASSUME KnowledgeInit PROVE KnowledgeInv
  OBVIOUS
<1>1. StoresOK
  <2>1. PICK rows \in SUBSET StoreNames :
          storeRows = rows /\ registered = [p \in Processes |-> rows]
    BY DEF KnowledgeInit
  <2>2. mirror \in [StoreNames -> SUBSET Docs] /\ storeEdits \in 0..MaxStoreEdits
    BY KnowledgeAssumption DEF KnowledgeAssumption, KnowledgeInit
  <2> QED BY <2>1, <2>2 DEF StoresOK
<1>2. DocumentsOK
  BY DEF KnowledgeInit, DocumentsOK, UploadStages
<1> QED BY <1>1, <1>2 DEF KnowledgeInv

(* A request that moves on, whatever its row and chunks do.                 *)
LEMMA UploadMoves ==
  ASSUME KnowledgeInv, NEW d \in Docs, NEW at \in UploadStages,
         NEW todo \in SUBSET StoreNames, UploadAt(d, at, todo)
  PROVE  /\ upload' \in [Docs -> [at : UploadStages, todo : SUBSET StoreNames]]
         /\ upload'[d].at = at
         /\ \A e \in Docs : e # d => upload'[e] = upload[e]
<1> QED BY DEF UploadAt, KnowledgeInv, DocumentsOK

LEMMA UploadsKeep ==
  ASSUME KnowledgeInv, NEW d \in Docs,
         \/ InsertDocument(d) \/ EmbeddingFails(d) \/ InsertChunks(d)
         \/ \E n \in StoreNames : MirrorChunks(d, n)
         \/ AnswerUpload(d)
  PROVE  KnowledgeInv'
<1>1. CASE InsertDocument(d)
  <2>1. UploadAt(d, "embedding", {}) /\ "embedding" \in UploadStages
    BY <1>1 DEF InsertDocument, UploadStages
  <2>2. StoresOK'
    BY <1>1 DEF InsertDocument, storeVars, StoresOK, KnowledgeInv
  <2> QED BY <1>1, <2>1, <2>2, UploadMoves
       DEF InsertDocument, DocumentsOK, KnowledgeInv
<1>2. CASE EmbeddingFails(d)
  <2>1. UploadAt(d, "failed", {}) /\ "failed" \in UploadStages
    BY <1>2 DEF EmbeddingFails, UploadStages
  <2>2. StoresOK'
    BY <1>2 DEF EmbeddingFails, storeVars, StoresOK, KnowledgeInv
  <2> QED BY <1>2, <2>1, <2>2, UploadMoves
       DEF EmbeddingFails, DocumentsOK, KnowledgeInv
<1>3. CASE InsertChunks(d)
  <2>2. StoresOK'
    BY <1>3 DEF InsertChunks, storeVars, StoresOK, KnowledgeInv
  <2>3. CASE d \in document
    <3>1. /\ UploadAt(d, "mirroring", registered[Backend]) /\ "mirroring" \in UploadStages
          /\ registered[Backend] \in SUBSET StoreNames
      BY <1>3, <2>3, KnowledgeAssumption
      DEF InsertChunks, UploadStages, KnowledgeAssumption, KnowledgeInv, StoresOK
    <3> QED BY <1>3, <2>2, <2>3, <3>1, UploadMoves
         DEF InsertChunks, DocumentsOK, KnowledgeInv
  <2>4. CASE d \notin document
    <3>1. UploadAt(d, "failed", {}) /\ "failed" \in UploadStages
      BY <1>3, <2>4 DEF InsertChunks, UploadStages
    <3> QED BY <1>3, <2>2, <2>4, <3>1, UploadMoves
         DEF InsertChunks, DocumentsOK, KnowledgeInv
  <2> QED BY <2>3, <2>4
<1>4. ASSUME NEW n \in StoreNames, MirrorChunks(d, n) PROVE KnowledgeInv'
  <2>1. /\ UploadAt(d, "mirroring", upload[d].todo \ {n}) /\ "mirroring" \in UploadStages
        /\ upload[d].todo \ {n} \in SUBSET StoreNames /\ upload[d].at = "mirroring"
    BY <1>4 DEF MirrorChunks, Uploading, UploadStages, KnowledgeInv, DocumentsOK
  <2>2. StoresOK'
    BY <1>4 DEF MirrorChunks, storeVars, StoresOK, KnowledgeInv
  <2> QED BY <1>4, <2>1, <2>2, UploadMoves DEF MirrorChunks, DocumentsOK, KnowledgeInv
<1>5. CASE AnswerUpload(d)
  <2>1. /\ UploadAt(d, "done", {}) /\ "done" \in UploadStages /\ upload[d].at = "mirroring"
    BY <1>5 DEF AnswerUpload, Uploading, UploadStages
  <2>2. StoresOK'
    BY <1>5 DEF AnswerUpload, storeVars, StoresOK, KnowledgeInv
  <2> QED BY <1>5, <2>1, <2>2, UploadMoves DEF AnswerUpload, DocumentsOK, KnowledgeInv
<1> QED BY <1>1, <1>2, <1>3, <1>4, <1>5

(* Chunks go once their document counts as deleted, and rows go once they   *)
(* have no chunks.                                                          *)
LEMMA DeletionsKeep ==
  ASSUME KnowledgeInv, NEW d \in Docs,
         \/ DeleteChunks(d) \/ DeleteDocument(d) \/ ClearDocument(d)
         \/ DeleteCollection \/ DropCollection
  PROVE  KnowledgeInv'
<1>1. CASE DeleteChunks(d)
  BY <1>1 DEF DeleteChunks, storeVars, KnowledgeInv, StoresOK, DocumentsOK
<1>2. CASE DeleteDocument(d)
  BY <1>2 DEF DeleteDocument, storeVars, KnowledgeInv, StoresOK, DocumentsOK
<1>3. CASE ClearDocument(d)
  BY <1>3 DEF ClearDocument, storeVars, KnowledgeInv, StoresOK, DocumentsOK
<1>4. CASE DeleteCollection
  BY <1>4 DEF DeleteCollection, storeVars, KnowledgeInv, StoresOK, DocumentsOK
<1>5. CASE DropCollection
  BY <1>5 DEF DropCollection, storeVars, KnowledgeInv, StoresOK, DocumentsOK
<1> QED BY <1>1, <1>2, <1>3, <1>4, <1>5

LEMMA EditCounts ==
  ASSUME KnowledgeInv, EditStores
  PROVE  storeEdits' \in 0..MaxStoreEdits
<1>1. MaxStoreEdits \in Nat
  BY KnowledgeAssumption DEF KnowledgeAssumption
<1> QED BY <1>1 DEF EditStores, KnowledgeInv, StoresOK

LEMMA StoreEditsKeep ==
  ASSUME KnowledgeInv, NEW n \in StoreNames, NEW name \in StoreNames,
         CreateStore(n) \/ DeleteStore(n) \/ UpdateStore(n, name)
  PROVE  KnowledgeInv'
<1>1. storeEdits' \in 0..MaxStoreEdits
  BY EditCounts DEF CreateStore, DeleteStore, UpdateStore
<1>2. DocumentsOK' /\ mirror' = mirror
  BY DEF CreateStore, DeleteStore, UpdateStore, documentVars, KnowledgeInv, DocumentsOK
<1>3. storeRows' \subseteq StoreNames
  BY DEF CreateStore, DeleteStore, UpdateStore, KnowledgeInv, StoresOK
<1>4. registered' \in [Processes -> SUBSET StoreNames]
  BY DEF CreateStore, DeleteStore, UpdateStore, KnowledgeInv, StoresOK
<1> QED BY <1>1, <1>2, <1>3, <1>4 DEF KnowledgeInv, StoresOK

LEMMA RestartKeeps ==
  ASSUME KnowledgeInv, NEW p \in Processes, InitVectorStores(p)
  PROVE  KnowledgeInv'
<1>1. storeEdits' \in 0..MaxStoreEdits
  BY EditCounts DEF InitVectorStores
<1>2. StoresOK'
  BY <1>1 DEF InitVectorStores, KnowledgeInv, StoresOK
<1>3. upload' \in [Docs -> [at : UploadStages, todo : SUBSET StoreNames]]
  BY DEF InitVectorStores, KnowledgeInv, DocumentsOK, UploadStages
<1>4. \A d \in Docs : upload'[d].at = "mirroring" => upload[d].at = "mirroring"
  BY DEF InitVectorStores
<1> QED BY <1>2, <1>3, <1>4 DEF InitVectorStores, KnowledgeInv, DocumentsOK

LEMMA KnowledgeKeeps ==
  ASSUME KnowledgeInv, [KnowledgeNext]_knowledgeVars
  PROVE  KnowledgeInv'
<1>1. ASSUME NEW d \in Docs,
             \/ InsertDocument(d) \/ EmbeddingFails(d) \/ InsertChunks(d)
             \/ \E n \in StoreNames : MirrorChunks(d, n)
             \/ AnswerUpload(d) \/ DeleteChunks(d) \/ DeleteDocument(d) \/ ClearDocument(d)
      PROVE  KnowledgeInv'
  BY <1>1, UploadsKeep, DeletionsKeep
<1>2. CASE DeleteCollection \/ DropCollection
  BY <1>2 DEF DeleteCollection, DropCollection, storeVars, KnowledgeInv, StoresOK, DocumentsOK
<1>3. ASSUME NEW n \in StoreNames,
             \/ CreateStore(n) \/ DeleteStore(n)
             \/ \E name \in StoreNames : UpdateStore(n, name)
      PROVE  KnowledgeInv'
  BY <1>3, StoreEditsKeep
<1>4. ASSUME NEW p \in Processes, InitVectorStores(p) PROVE KnowledgeInv'
  BY <1>4, RestartKeeps
<1>5. CASE UNCHANGED knowledgeVars
  BY <1>5 DEF knowledgeVars, KnowledgeInv, StoresOK, DocumentsOK
<1> QED BY <1>1, <1>2, <1>3, <1>4, <1>5 DEF KnowledgeNext

LEMMA KnowledgeHolds == KnowledgeSpec => []KnowledgeInv
<1> QED BY KnowledgeStarts, KnowledgeKeeps, PTL DEF KnowledgeSpec

(* Every reachable state of uploads, deletions and stores has its type.     *)
THEOREM KnowledgeIsTyped == KnowledgeSpec => []KnowledgeTypeOK
<1>1. KnowledgeInv => KnowledgeTypeOK
  BY DEF KnowledgeInv, StoresOK, DocumentsOK, KnowledgeTypeOK
<1> QED BY <1>1, KnowledgeHolds, PTL

(* An upload that was answered, and that nobody began to delete, is found   *)
(* by every process without an external store of the searched name          *)
(* (documents.ts, knowledge.ts, the retriever of engine.ts), with any       *)
(* number of uploads, deletions, processes and stores.                      *)
THEOREM UploadsStayFound == KnowledgeSpec => []UploadsAreFound
<1>1. KnowledgeInv => UploadsAreFound
  BY DEF KnowledgeInv, DocumentsOK, UploadsAreFound, SearchSimilar
<1> QED BY <1>1, KnowledgeHolds, PTL

-------------------------------------------------------------------------------
(* Accounts *)

Visits ==
  [at : {"counting", "registering", "joining", "leaving", "clearing", "rejoining", "entered"},
   user : People, claims : SUBSET GroupNames, todo : SUBSET GroupNames,
   item : GroupNames \cup {None}, first : BOOLEAN, role : Roles \cup {None},
   alone : BOOLEAN, before : SUBSET GroupNames]

PeopleOK ==
  /\ account \in [People -> Roles \cup {None}] /\ cookie \in [People -> Roles \cup {None}]
  /\ DOMAIN refreshable = People

GroupsOK ==
  /\ groupOf \in [GroupNames -> {"local", "sso", None}]
  /\ members \in [GroupNames -> [People -> Nat]]
  /\ \A g \in GroupNames, u \in People : members[g][u] > 0 => groupOf[g] # None

VisitsOK ==
  /\ DOMAIN req = Requests /\ req = [r \in Requests |-> req[r]]
  /\ \A r \in Requests : req[r] # None => req[r] \in Visits

(* The group a login is about to join is the provider's, and stays it.      *)
ItemsOK ==
  \A r \in Requests : req[r] # None /\ req[r].item # None => groupOf[req[r].item] = "sso"

(* Nobody else logs in as the user of a request that is alone.              *)
Unshared ==
  \A r, q \in Requests :
    req[r] # None /\ req[r].alone /\ req[q] # None /\ req[q].user = req[r].user => q = r

(* How far the request e has brought mine, the memberships of its user, in  *)
(* line with its claims: sso and local are the groups of either provider.   *)
SyncedTo(e, mine, sso, local) ==
  /\ mine \cap local = e.before
  /\ e.at = "joining" => /\ e.todo \subseteq e.claims /\ e.claims \ e.todo \subseteq sso
                         /\ \A g \in e.claims \ e.todo : g \in mine \/ g = e.item
  /\ e.at = "leaving" => e.todo = (mine \cap sso) \ e.claims /\ e.claims \subseteq mine \cap sso
  /\ e.at = "clearing" => e.todo = e.claims
  /\ e.at = "rejoining" => e.todo \subseteq e.claims /\ mine \cap sso = e.claims \ e.todo
  /\ e.at = "entered" => mine \cap sso = e.claims \ local /\ e.claims \subseteq sso \cup local

Synced ==
  \A r \in Requests : req[r] # None /\ req[r].alone =>
    SyncedTo(req[r], MembershipsOf(req[r].user), GroupsOf("sso"), GroupsOf("local"))

AccountsInv == PeopleOK /\ GroupsOK /\ VisitsOK /\ ItemsOK /\ Unshared /\ Synced

(* Nothing but alone changes of another request q, and it stays alone only  *)
(* when the memberships of its user stay and no group is deleted.           *)
Aside(q) ==
  /\ req[q] = None => req'[q] = None
  /\ req[q] # None => req'[q] = req[q] \/ req'[q] = [req[q] EXCEPT !.alone = FALSE]
  /\ req'[q] # None /\ req'[q].alone =>
       /\ req'[q] = req[q]
       /\ \A g \in GroupNames : members'[g][req[q].user] = members[g][req[q].user]
       /\ \A g \in GroupNames : groupOf'[g] = groupOf[g] \/ groupOf[g] = None

LEMMA VisitsKeepTheirFields ==
  ASSUME NEW e \in Visits
  PROVE  LET f == [e EXCEPT !.alone = FALSE]
         IN f \in Visits /\ f.user = e.user /\ f.item = e.item /\ f.alone = FALSE
BY DEF Visits

(* Groups that are made without members change nothing.                     *)
LEMMA GroupsMayBeMade ==
  ASSUME NEW e \in Visits, NEW mine, NEW sso, NEW local, NEW more, NEW others,
         SyncedTo(e, mine, sso, local), mine \subseteq sso \cup local,
         sso \subseteq more, local \subseteq others, more \cap others = {}
  PROVE  SyncedTo(e, mine, more, others)
<1>1. mine \cap more = mine \cap sso /\ mine \cap others = mine \cap local
  OBVIOUS
<1>2. mine \cap others = e.before
  BY <1>1 DEF SyncedTo
<1>3. e.at = "joining" => /\ e.todo \subseteq e.claims /\ e.claims \ e.todo \subseteq more
                          /\ \A g \in e.claims \ e.todo : g \in mine \/ g = e.item
  BY DEF SyncedTo
<1>4. e.at = "leaving" =>
        e.todo = (mine \cap more) \ e.claims /\ e.claims \subseteq mine \cap more
  BY <1>1 DEF SyncedTo
<1>5. e.at = "clearing" => e.todo = e.claims
  BY DEF SyncedTo
<1>6. e.at = "rejoining" => e.todo \subseteq e.claims /\ mine \cap more = e.claims \ e.todo
  BY <1>1 DEF SyncedTo
<1>7. e.at = "entered" =>
        mine \cap more = e.claims \ others /\ e.claims \subseteq more \cup others
  BY <1>1 DEF SyncedTo
<1> QED BY <1>2, <1>3, <1>4, <1>5, <1>6, <1>7 DEF SyncedTo

LEMMA OthersStaySynced ==
  ASSUME AccountsInv, GroupsOK', NEW q \in Requests, Aside(q),
         req'[q] # None, req'[q].alone
  PROVE  SyncedTo(req[q], MembershipsOf(req[q].user), GroupsOf("sso"), GroupsOf("local"))'
<1>1. PICK e : e = req[q]
  OBVIOUS
<1>2. req'[q] = e /\ req[q] # None /\ e.alone
  BY <1>1 DEF Aside
<1>3. e \in Visits
  BY <1>1, <1>2 DEF AccountsInv, VisitsOK
<1>4. e.user \in People
  BY <1>3 DEF Visits
<1>5. PICK mine, sso, local :
        mine = MembershipsOf(e.user) /\ sso = GroupsOf("sso") /\ local = GroupsOf("local")
  OBVIOUS
<1>6. SyncedTo(e, mine, sso, local)
  BY <1>1, <1>2, <1>5 DEF AccountsInv, Synced
<1>7. MembershipsOf(e.user)' = mine
  BY <1>1, <1>2, <1>5 DEF Aside, MembershipsOf
<1>8. PICK more, others : more = GroupsOf("sso")' /\ others = GroupsOf("local")'
  OBVIOUS
<1>9. sso \subseteq more /\ local \subseteq others
  BY <1>2, <1>5, <1>8, AccountsNoneAssumption DEF Aside, GroupsOf, AccountsNoneAssumption
<1>10. more \cap others = {}
  BY <1>8 DEF GroupsOf
<1>11. mine \subseteq sso \cup local
  BY <1>4, <1>5 DEF AccountsInv, GroupsOK, GroupsOf, MembershipsOf
<1>12. SyncedTo(e, mine, more, others)
  BY <1>3, <1>6, <1>9, <1>10, <1>11, GroupsMayBeMade
<1> QED BY <1>2, <1>7, <1>8, <1>12, Zenon

LEMMA SyncStepKeeps ==
  ASSUME AccountsInv, PeopleOK', GroupsOK', NEW r, NEW e,
         req' = [q \in Requests |-> IF q = r THEN e ELSE req'[q]],
         \A g \in GroupNames : groupOf[g] = "sso" => groupOf'[g] = "sso",
         \A q \in Requests \ {r} : Aside(q),
         e # None =>
           /\ e \in Visits /\ (e.item # None => groupOf'[e.item] = "sso")
           /\ \A q \in Requests \ {r} :
                req'[q] # None /\ req'[q].user = e.user => ~e.alone /\ ~req'[q].alone
           /\ e.alone =>
                SyncedTo(e, MembershipsOf(e.user)', GroupsOf("sso")', GroupsOf("local")')
  PROVE  AccountsInv'
<1>1. ASSUME NEW q \in Requests, q # r, req'[q] # None
      PROVE  /\ req[q] # None /\ req'[q] \in Visits
             /\ req'[q].user = req[q].user /\ req'[q].item = req[q].item
             /\ req'[q].alone => req[q].alone
  <2>1. Aside(q)
    BY <1>1
  <2>2. req[q] # None
    BY <1>1, <2>1 DEF Aside
  <2>3. PICK f : f = req[q]
    OBVIOUS
  <2>4. f \in Visits
    BY <2>2, <2>3 DEF AccountsInv, VisitsOK
  <2>5. CASE req'[q] = f
    BY <2>2, <2>3, <2>4, <2>5
  <2>6. CASE req'[q] = [f EXCEPT !.alone = FALSE]
    <3>1. PICK h : h = [f EXCEPT !.alone = FALSE]
      OBVIOUS
    <3>2. h \in Visits /\ h.user = f.user /\ h.item = f.item /\ h.alone = FALSE
      BY <2>4, <3>1, VisitsKeepTheirFields
    <3> QED BY <2>2, <2>3, <2>6, <3>1, <3>2
  <2> QED BY <2>1, <2>2, <2>3, <2>5, <2>6 DEF Aside
<1>2. \A q \in Requests : q = r => req'[q] = e
  OBVIOUS
<1>3. VisitsOK'
  <2>1. DOMAIN req' = Requests /\ req' = [q \in Requests |-> req'[q]]
    OBVIOUS
  <2>2. \A q \in Requests : req'[q] # None => req'[q] \in Visits
    BY <1>1, <1>2
  <2> QED BY <2>1, <2>2 DEF VisitsOK
<1>4. ItemsOK'
  <2>1. ASSUME NEW q \in Requests, req'[q] # None, req'[q].item # None
        PROVE  groupOf'[req'[q].item] = "sso"
    <3>1. CASE q = r
      BY <1>2, <2>1, <3>1
    <3>2. CASE q # r
      <4>1. PICK g : g = req[q].item
        OBVIOUS
      <4>2. req[q] # None /\ req'[q] \in Visits /\ req'[q].item = g
        BY <1>1, <2>1, <3>2, <4>1
      <4>3. g \in GroupNames
        BY <2>1, <4>2 DEF Visits
      <4>4. groupOf[g] = "sso"
        BY <2>1, <4>1, <4>2 DEF AccountsInv, ItemsOK
      <4> QED BY <4>2, <4>3, <4>4
    <3> QED BY <3>1, <3>2
  <2> QED BY <2>1 DEF ItemsOK
<1>5. Unshared'
  <2>1. ASSUME NEW p \in Requests, NEW q \in Requests, req'[p] # None, req'[p].alone,
               req'[q] # None, req'[q].user = req'[p].user
        PROVE  q = p
    <3>1. CASE p = r /\ q # r
      BY <1>2, <2>1, <3>1
    <3>2. CASE q = r /\ p # r
      BY <1>2, <2>1, <3>2
    <3>3. CASE p # r /\ q # r
      <4>1. req[p] # None /\ req[p].alone /\ req'[p].user = req[p].user
        BY <1>1, <2>1, <3>3
      <4>2. req[q] # None /\ req'[q].user = req[q].user
        BY <1>1, <2>1, <3>3
      <4> QED BY <2>1, <4>1, <4>2 DEF AccountsInv, Unshared
    <3> QED BY <3>1, <3>2, <3>3
  <2> QED BY <2>1 DEF Unshared
<1>6. Synced'
  <2>1. ASSUME NEW q \in Requests, req'[q] # None, req'[q].alone
        PROVE  SyncedTo(req[q], MembershipsOf(req[q].user), GroupsOf("sso"), GroupsOf("local"))'
    <3>1. CASE q = r
      <4>1. req'[q] = e
        BY <1>2, <3>1
      <4>2. e # None /\ e.alone
        BY <2>1, <4>1
      <4>3. SyncedTo(e, MembershipsOf(e.user)', GroupsOf("sso")', GroupsOf("local")')
        BY <4>2
      <4> QED BY <4>1, <4>3, Zenon
    <3>2. CASE q # r
      BY <2>1, <3>2, OthersStaySynced
    <3> QED BY <3>1, <3>2
  <2> QED BY <2>1 DEF Synced
<1> QED BY <1>3, <1>4, <1>5, <1>6 DEF AccountsInv

GroupsGrow == \A g \in GroupNames : groupOf'[g] = groupOf[g] \/ groupOf[g] = None

LEMMA DisturbedAreAside ==
  ASSUME AccountsInv, NEW r, NEW u \in People, GroupsGrow,
         \A q \in Requests \ {r} : req'[q] = Disturb(r, u)[q],
         \A g \in GroupNames, v \in People : v # u => members'[g][v] = members[g][v]
  PROVE  \A q \in Requests \ {r} :
           /\ Aside(q)
           /\ req'[q] # None /\ req'[q].user = u => ~req'[q].alone
<1> SUFFICES ASSUME NEW q \in Requests \ {r}
             PROVE  /\ Aside(q)
                    /\ req'[q] # None /\ req'[q].user = u => ~req'[q].alone
  OBVIOUS
<1>1. PICK e : e = req[q]
  OBVIOUS
<1>2. e # None => e \in Visits
  BY <1>1 DEF AccountsInv, VisitsOK
<1>3. req'[q] = IF e # None /\ e.user = u THEN [e EXCEPT !.alone = FALSE] ELSE e
  BY <1>1 DEF Disturb
<1>4. CASE e # None /\ e.user = u
  <2>1. PICK h : h = [e EXCEPT !.alone = FALSE]
    OBVIOUS
  <2>2. h \in Visits /\ h.alone = FALSE
    BY <1>2, <1>4, <2>1, VisitsKeepTheirFields
  <2>3. req'[q] = h
    BY <1>3, <1>4, <2>1
  <2> QED BY <1>1, <1>4, <2>1, <2>2, <2>3 DEF Aside
<1>5. CASE e = None
  BY <1>1, <1>3, <1>5 DEF Aside
<1>6. CASE e # None /\ e.user # u
  <2>1. e.user \in People
    BY <1>2, <1>6 DEF Visits
  <2>2. req'[q] = e
    BY <1>3, <1>6
  <2> QED BY <1>1, <1>6, <2>1, <2>2 DEF Aside, GroupsGrow
<1> QED BY <1>4, <1>5, <1>6

LEMMA UntouchedAreAside ==
  ASSUME AccountsInv, NEW r, GroupsGrow, members' = members,
         \A q \in Requests \ {r} : req'[q] = req[q]
  PROVE  /\ \A q \in Requests \ {r} : Aside(q)
         /\ r \in Requests /\ req[r] # None => \A q \in Requests \ {r} :
              req'[q] # None /\ req'[q].user = req[r].user => ~req[r].alone /\ ~req'[q].alone
<1>1. \A q \in Requests \ {r} : Aside(q)
  BY DEF Aside, GroupsGrow
<1>2. ASSUME r \in Requests, req[r] # None, NEW q \in Requests \ {r},
             req'[q] # None, req'[q].user = req[r].user
      PROVE  ~req[r].alone /\ ~req'[q].alone
  BY <1>2 DEF AccountsInv, Unshared
<1> QED BY <1>1, <1>2

LEMMA VisitIsTyped ==
  ASSUME AccountsInv, NEW r \in Requests, req[r] # None
  PROVE  /\ req[r] \in Visits /\ req[r].user \in People
         /\ req[r].item # None => req[r].item \in GroupNames /\ groupOf[req[r].item] = "sso"
         /\ req[r].alone => SyncedTo(req[r], MembershipsOf(req[r].user), GroupsOf("sso"),
                                     GroupsOf("local"))
<1>1. PICK e : e = req[r]
  OBVIOUS
<1>2. e \in Visits
  BY <1>1 DEF AccountsInv, VisitsOK
<1>3. e.user \in People /\ (e.item # None => e.item \in GroupNames)
  BY <1>2 DEF Visits
<1> QED BY <1>1, <1>2, <1>3 DEF AccountsInv, ItemsOK, Synced

LEMMA ShapeOfMove ==
  ASSUME AccountsInv, NEW r \in Requests, NEW e, req' = [req EXCEPT ![r] = e]
  PROVE  req' = [q \in Requests |-> IF q = r THEN e ELSE req[q]]
<1>1. DOMAIN req = Requests
  BY DEF AccountsInv, VisitsOK
<1> QED BY <1>1

LEMMA ShapeOfChange ==
  ASSUME NEW r \in Requests, NEW e, NEW u, req' = [Disturb(r, u) EXCEPT ![r] = e]
  PROVE  req' = [q \in Requests |-> IF q = r THEN e ELSE Disturb(r, u)[q]]
<1>1. DOMAIN Disturb(r, u) = Requests
  BY DEF Disturb
<1> QED BY <1>1

LEMMA AccountsStart == AccountsInit => AccountsInv
<1> SUFFICES ASSUME AccountsInit PROVE AccountsInv
  OBVIOUS
<1>1. PeopleOK
  BY DEF AccountsInit, PeopleOK
<1>2. GroupsOK
  BY DEF AccountsInit, GroupsOK
<1>3. VisitsOK /\ ItemsOK /\ Unshared /\ Synced
  BY DEF AccountsInit, VisitsOK, ItemsOK, Unshared, Synced
<1> QED BY <1>1, <1>2, <1>3 DEF AccountsInv

(* A step that only moves the request r on, to e, or ends it.               *)
LEMMA MoveKeeps ==
  ASSUME AccountsInv, PeopleOK', NEW r \in Requests, NEW e, req' = [req EXCEPT ![r] = e],
         UNCHANGED members, groupOf' \in [GroupNames -> {"local", "sso", None}], GroupsGrow,
         req[r] # None,
         e # None =>
           /\ e \in Visits /\ e.user = req[r].user /\ e.alone = req[r].alone
           /\ e.item # None => groupOf'[e.item] = "sso"
           /\ e.alone =>
                SyncedTo(e, MembershipsOf(e.user)', GroupsOf("sso")', GroupsOf("local")')
  PROVE  AccountsInv'
<1>1. GroupsOK'
  <2>1. ASSUME NEW g \in GroupNames, NEW u \in People, members[g][u] > 0
        PROVE  groupOf'[g] # None
    <3>1. groupOf[g] # None
      BY <2>1 DEF AccountsInv, GroupsOK
    <3> QED BY <3>1 DEF GroupsGrow
  <2> QED BY <2>1 DEF AccountsInv, GroupsOK
<1>2. \A q \in Requests \ {r} : req'[q] = req[q]
  BY ShapeOfMove
<1>3. req' = [q \in Requests |-> IF q = r THEN e ELSE req'[q]]
  BY ShapeOfMove
<1>4. /\ \A q \in Requests \ {r} : Aside(q)
      /\ \A q \in Requests \ {r} :
           req'[q] # None /\ req'[q].user = req[r].user => ~req[r].alone /\ ~req'[q].alone
  BY <1>2, UntouchedAreAside
<1>5. \A g \in GroupNames : groupOf[g] = "sso" => groupOf'[g] = "sso"
  BY AccountsNoneAssumption DEF GroupsGrow, AccountsNoneAssumption
<1>6. e # None => /\ e \in Visits /\ (e.item # None => groupOf'[e.item] = "sso")
                  /\ \A q \in Requests \ {r} :
                       req'[q] # None /\ req'[q].user = e.user => ~e.alone /\ ~req'[q].alone
                  /\ e.alone => SyncedTo(e, MembershipsOf(e.user)', GroupsOf("sso")',
                                        GroupsOf("local")')
  BY <1>4
<1> QED BY <1>1, <1>3, <1>4, <1>5, <1>6, SyncStepKeeps, ZenonT(30)

(* A step that changes the memberships of u, and the request r, made for u. *)
LEMMA ChangeKeeps ==
  ASSUME AccountsInv, PeopleOK', GroupsOK', NEW r, NEW u \in People, NEW e,
         req' = [q \in Requests |-> IF q = r THEN e ELSE Disturb(r, u)[q]],
         GroupsGrow, \A g \in GroupNames, v \in People : v # u => members'[g][v] = members[g][v],
         e # None =>
           /\ e \in Visits /\ e.user = u
           /\ e.item # None => groupOf'[e.item] = "sso"
           /\ r \in Requests
           /\ e.alone => \A q \in Requests \ {r} : req[q] # None => req[q].user # u
           /\ e.alone =>
                SyncedTo(e, MembershipsOf(e.user)', GroupsOf("sso")', GroupsOf("local")')
  PROVE  AccountsInv'
<1>1. \A q \in Requests \ {r} : req'[q] = Disturb(r, u)[q]
  OBVIOUS
<1>2. req' = [q \in Requests |-> IF q = r THEN e ELSE req'[q]]
  OBVIOUS
<1>3. \A q \in Requests \ {r} :
        Aside(q) /\ (req'[q] # None /\ req'[q].user = u => ~req'[q].alone)
  BY <1>1, DisturbedAreAside
<1>4. \A g \in GroupNames : groupOf[g] = "sso" => groupOf'[g] = "sso"
  BY AccountsNoneAssumption DEF GroupsGrow, AccountsNoneAssumption
<1>5. ASSUME e # None, NEW q \in Requests \ {r}, req'[q] # None, req'[q].user = e.user
      PROVE  ~e.alone /\ ~req'[q].alone
  <2>1. ~req'[q].alone
    BY <1>3, <1>5
  <2>2. req[q] # None
    BY <1>3, <1>5 DEF Aside
  <2>3. PICK f : f = req[q]
    OBVIOUS
  <2>4. f \in Visits
    BY <2>2, <2>3 DEF AccountsInv, VisitsOK
  <2>5. req'[q].user = f.user
    <3>1. PICK h : h = [f EXCEPT !.alone = FALSE]
      OBVIOUS
    <3>2. h.user = f.user
      BY <2>4, <3>1, VisitsKeepTheirFields
    <3>3. req'[q] = f \/ req'[q] = h
      BY <1>3, <2>2, <2>3, <3>1 DEF Aside
    <3> QED BY <3>2, <3>3
  <2> QED BY <1>5, <2>1, <2>2, <2>3, <2>5
<1>6. e # None => /\ e \in Visits /\ (e.item # None => groupOf'[e.item] = "sso")
                  /\ \A q \in Requests \ {r} :
                       req'[q] # None /\ req'[q].user = e.user => ~e.alone /\ ~req'[q].alone
                  /\ e.alone => SyncedTo(e, MembershipsOf(e.user)', GroupsOf("sso")',
                                        GroupsOf("local")')
  BY <1>5
<1>7. \A q \in Requests \ {r} : Aside(q)
  BY <1>3
<1> QED BY <1>2, <1>4, <1>6, <1>7, SyncStepKeeps

LEMMA CountUsersKeeps ==
  ASSUME AccountsInv, NEW r \in Requests, CountUsers(r)
  PROVE  AccountsInv'
<1>1. PICK e : e = req[r]
  OBVIOUS
<1>2. req[r] # None /\ e.at = "counting"
  BY <1>1 DEF CountUsers
<1>3. /\ e \in Visits /\ (e.item # None => groupOf[e.item] = "sso")
      /\ e.alone => SyncedTo(e, MembershipsOf(e.user), GroupsOf("sso"), GroupsOf("local"))
  BY <1>1, <1>2, VisitIsTyped
<1>4. (\A u \in People : account[u] = None) \in BOOLEAN
  BY Zenon
<1>5. PICK b \in BOOLEAN : b = (\A u \in People : account[u] = None)
  BY <1>4, Zenon
<1>6. PICK f : f = [e EXCEPT !.at = "registering", !.first = b]
  OBVIOUS
<1>7. /\ f \in Visits /\ f.user = e.user /\ f.alone = e.alone /\ f.item = e.item
      /\ f.before = e.before /\ f.at = "registering"
  BY <1>3, <1>5, <1>6 DEF Visits
<1>8. UNCHANGED members /\ UNCHANGED groupOf /\ PeopleOK'
  BY DEF CountUsers, AccountsInv, PeopleOK
<1>9. req' = [req EXCEPT ![r] = f]
  <2>1. DOMAIN req = Requests
    BY DEF AccountsInv, VisitsOK
  <2> QED BY <1>1, <1>5, <1>6, <2>1, Zenon DEF CountUsers
<1>10. GroupsGrow /\ groupOf' \in [GroupNames -> {"local", "sso", None}]
  BY <1>8 DEF GroupsGrow, AccountsInv, GroupsOK
<1>11. f.alone => SyncedTo(f, MembershipsOf(f.user)', GroupsOf("sso")', GroupsOf("local")')
  <2>1. MembershipsOf(f.user)' = MembershipsOf(e.user)
    BY <1>7, <1>8 DEF MembershipsOf
  <2>2. GroupsOf("sso")' = GroupsOf("sso") /\ GroupsOf("local")' = GroupsOf("local")
    BY <1>8 DEF GroupsOf
  <2> QED BY <1>3, <1>7, <2>1, <2>2 DEF SyncedTo
<1> QED BY <1>1, <1>2, <1>3, <1>7, <1>8, <1>9, <1>10, <1>11, MoveKeeps

(* A request that ends.                                                     *)
LEMMA EndKeeps ==
  ASSUME AccountsInv, PeopleOK', NEW r \in Requests, req[r] # None,
         req' = [req EXCEPT ![r] = None], UNCHANGED <<groupOf, members>>
  PROVE  AccountsInv'
<1>1. GroupsGrow /\ groupOf' \in [GroupNames -> {"local", "sso", None}]
  BY DEF GroupsGrow, AccountsInv, GroupsOK
<1> QED BY <1>1, MoveKeeps

LEMMA InsertUserKeeps ==
  ASSUME AccountsInv, NEW r \in Requests, InsertUser(r)
  PROVE  AccountsInv'
<1>1. PICK u : u = req[r].user
  OBVIOUS
<1>2. req[r] # None /\ u \in People
  BY <1>1, VisitIsTyped DEF InsertUser
<1>3. PICK role \in Roles : role = IF req[r].first THEN "admin" ELSE "reader"
  BY DEF Roles
<1>4. \/ UNCHANGED <<account, cookie>>
      \/ account' = [account EXCEPT ![u] = role] /\ cookie' = [cookie EXCEPT ![u] = role]
  BY <1>1, <1>3 DEF InsertUser
<1>5. PeopleOK'
  BY <1>4 DEF InsertUser, AccountsInv, PeopleOK
<1> QED BY <1>2, <1>5, EndKeeps DEF InsertUser

LEMMA AnswerRequestKeeps ==
  ASSUME AccountsInv, NEW r \in Requests, AnswerRequest(r)
  PROVE  AccountsInv'
<1>1. PeopleOK'
  BY DEF AnswerRequest, AccountsInv, PeopleOK
<1> QED BY <1>1, EndKeeps DEF AnswerRequest, Doing, Fails

(* A request that begins has lined up nothing but its claims.               *)
LEMMA StartIsTyped ==
  ASSUME AccountsInv, NEW r \in Requests, NEW u \in People,
         NEW where \in {"counting", "registering", "joining", "leaving", "clearing",
                        "rejoining", "entered"},
         NEW claims \in SUBSET GroupNames
  PROVE  LET s == Start(r, u, where, claims)
         IN /\ s \in Visits /\ s.at = where /\ s.user = u /\ s.claims = claims
            /\ s.todo = claims /\ s.item = None
            /\ s.alone => ~Doubled(u)
            /\ s.alone => \A q \in Requests \ {r} : req[q] # None => req[q].user # u
            /\ s.before = MembershipsOf(u) \cap GroupsOf("local")
<1>1. (~Doubled(u) /\ \A q \in Requests \ {r} : req[q] # None => req[q].user # u) \in BOOLEAN
  BY Zenon
<1>2. PICK alone \in BOOLEAN :
        alone = (~Doubled(u) /\ \A q \in Requests \ {r} : req[q] # None => req[q].user # u)
  BY <1>1, Zenon
<1>3. PICK before, role :
        before = MembershipsOf(u) \cap GroupsOf("local") /\ role = account[u]
  OBVIOUS
<1>4. before \in SUBSET GroupNames /\ role \in Roles \cup {None}
  BY <1>3 DEF GroupsOf, AccountsInv, PeopleOK
<1>5. PICK s : s = [at |-> where, user |-> u, claims |-> claims, todo |-> claims,
                    item |-> None, first |-> FALSE, role |-> role, alone |-> alone,
                    before |-> before]
  OBVIOUS
<1>6. s = Start(r, u, where, claims)
  BY <1>2, <1>3, <1>5, Zenon DEF Start
<1>7. s \in Visits
  BY <1>4, <1>5 DEF Visits
<1>8. /\ s.at = where /\ s.user = u /\ s.claims = claims /\ s.todo = claims
      /\ s.item = None /\ s.alone = alone /\ s.before = before
  BY <1>5
<1>9. /\ s.alone => ~Doubled(u)
      /\ s.alone => \A q \in Requests \ {r} : req[q] # None => req[q].user # u
  BY <1>2, <1>8, Zenon
<1> QED BY <1>3, <1>6, <1>7, <1>8, <1>9, Zenon

LEMMA RegisterKeeps ==
  ASSUME AccountsInv, NEW r \in Requests, NEW u \in People, Register(r, u)
  PROVE  AccountsInv'
<1>1. PICK e : e = Start(r, u, "counting", {})
  OBVIOUS
<1>2. /\ e \in Visits /\ e.at = "counting" /\ e.user = u /\ e.item = None
      /\ e.alone => \A q \in Requests \ {r} : req[q] # None => req[q].user # u
      /\ e.before = MembershipsOf(u) \cap GroupsOf("local")
  BY <1>1, StartIsTyped
<1>3. UNCHANGED members /\ UNCHANGED groupOf /\ PeopleOK'
  BY DEF Register, AccountsInv, PeopleOK
<1>4. GroupsGrow /\ GroupsOK'
  BY <1>3 DEF GroupsGrow, AccountsInv, GroupsOK
<1>5. req' = [q \in Requests |-> IF q = r THEN e ELSE Disturb(r, u)[q]]
  <2>1. req' = [Disturb(r, u) EXCEPT ![r] = e]
    BY <1>1 DEF Register
  <2> QED BY <2>1, ShapeOfChange
<1>6. SyncedTo(e, MembershipsOf(e.user)', GroupsOf("sso")', GroupsOf("local")')
  <2>1. MembershipsOf(e.user)' = MembershipsOf(u) /\ GroupsOf("local")' = GroupsOf("local")
    BY <1>2, <1>3 DEF MembershipsOf, GroupsOf
  <2> QED BY <1>2, <2>1 DEF SyncedTo
<1>7. \A g \in GroupNames, v \in People : v # u => members'[g][v] = members[g][v]
  BY <1>3
<1> QED BY <1>2, <1>3, <1>4, <1>5, <1>6, <1>7, ChangeKeeps

LEMMA SsoCallbackKeeps ==
  ASSUME AccountsInv, NEW r \in Requests, NEW u \in People, NEW claims \in SUBSET GroupNames,
         SsoCallback(r, u, claims)
  PROVE  AccountsInv'
<1>1. PICK s : s = Start(r, u, "joining", claims)
  OBVIOUS
<1>2. /\ s \in Visits /\ s.at = "joining" /\ s.user = u /\ s.claims = claims
      /\ s.todo = claims /\ s.item = None
      /\ s.alone => \A q \in Requests \ {r} : req[q] # None => req[q].user # u
      /\ s.before = MembershipsOf(u) \cap GroupsOf("local")
  BY <1>1, StartIsTyped
<1>3. PeopleOK'
  BY DEF SsoCallback, AccountsInv, PeopleOK, Roles
<1>4. PICK role : role = account'[u]
  OBVIOUS
<1>5. role \in Roles \cup {None}
  BY <1>3, <1>4 DEF PeopleOK
<1>6. PICK e : e = [s EXCEPT !.role = role]
  OBVIOUS
<1>7. /\ e \in Visits /\ e.at = "joining" /\ e.user = u /\ e.claims = claims
      /\ e.todo = claims /\ e.item = None /\ e.alone = s.alone /\ e.before = s.before
  BY <1>2, <1>5, <1>6 DEF Visits
<1>8. UNCHANGED members /\ UNCHANGED groupOf
  BY DEF SsoCallback
<1>9. GroupsGrow /\ GroupsOK'
  BY <1>8 DEF GroupsGrow, AccountsInv, GroupsOK
<1>10. req' = [q \in Requests |-> IF q = r THEN e ELSE Disturb(r, u)[q]]
  <2>1. req' = [Disturb(r, u) EXCEPT ![r] = e]
    BY <1>1, <1>4, <1>6, Zenon DEF SsoCallback
  <2> QED BY <2>1, ShapeOfChange
<1>11. SyncedTo(e, MembershipsOf(e.user)', GroupsOf("sso")', GroupsOf("local")')
  <2>1. MembershipsOf(e.user)' = MembershipsOf(u) /\ GroupsOf("local")' = GroupsOf("local")
    BY <1>7, <1>8 DEF MembershipsOf, GroupsOf
  <2> QED BY <1>2, <1>7, <2>1 DEF SyncedTo
<1>12. \A g \in GroupNames, v \in People : v # u => members'[g][v] = members[g][v]
  BY <1>8
<1> QED BY <1>2, <1>3, <1>7, <1>9, <1>10, <1>11, <1>12, ChangeKeeps

(* As many memberships as there are claims, all of them among the claims    *)
(* and none twice: the user is in the groups of its claims.                 *)
LEMMA AsManyAsClaims ==
  ASSUME AccountsInv, NEW u \in People, NEW claims \in SUBSET GroupNames, ~Doubled(u),
         MembershipsOf(u) \subseteq claims,
         Cardinality(UNION {{g} \X (1..members[g][u]) : g \in GroupNames}) = Cardinality(claims)
  PROVE  MembershipsOf(u) = claims
<1>1. PICK mine : mine = MembershipsOf(u)
  OBVIOUS
<1>2. \A g \in GroupNames : 1..members[g][u] = IF g \in mine THEN {1} ELSE {}
  <2>1. \A g \in GroupNames : members[g][u] \in Nat /\ ~(members[g][u] > 1)
    BY DEF AccountsInv, GroupsOK, Doubled
  <2>2. ASSUME NEW g \in GroupNames
        PROVE  1..members[g][u] = IF g \in mine THEN {1} ELSE {}
    <3>1. CASE members[g][u] = 1
      BY <1>1, <3>1 DEF MembershipsOf
    <3>2. CASE members[g][u] = 0
      BY <1>1, <3>2 DEF MembershipsOf
    <3> QED BY <2>1, <3>1, <3>2
  <2> QED BY <2>2
<1>3. PICK rows : rows = UNION {{g} \X (1..members[g][u]) : g \in GroupNames}
  OBVIOUS
<1>4. mine \subseteq GroupNames
  BY <1>1 DEF MembershipsOf
<1>5. rows = mine \X {1}
  <2>1. rows = UNION {{g} \X (IF g \in mine THEN {1} ELSE {}) : g \in GroupNames}
    BY <1>2, <1>3
  <2>2. ASSUME NEW x \in rows PROVE x \in mine \X {1}
    BY <2>1, <2>2
  <2>3. ASSUME NEW g \in mine PROVE <<g, 1>> \in rows
    BY <1>4, <2>1, <2>3
  <2> QED BY <2>2, <2>3
<1>6. IsFiniteSet(claims) /\ IsFiniteSet(mine)
  BY <1>1, <1>4, AccountsAssumption, FS_Subset DEF AccountsAssumption
<1>7. Cardinality(rows) = Cardinality(mine)
  <2> DEFINE row == [g \in mine |-> <<g, 1>>]
  <2>1. row \in Bijection(mine, rows)
    <3>1. row \in [mine -> rows] /\ \A y \in rows : \E g \in mine : row[g] = y
      BY <1>5
    <3>2. \A g, h \in mine : row[g] = row[h] => g = h
      OBVIOUS
    <3> QED BY <3>1, <3>2 DEF Bijection, Injection, Surjection, IsInjective
  <2> HIDE DEF row
  <2>2. ExistsBijection(mine, rows)
    BY <2>1 DEF ExistsBijection
  <2> QED BY <1>6, <2>2, FS_Bijection
<1>8. Cardinality(mine) = Cardinality(claims)
  BY <1>3, <1>7
<1>9. mine \subseteq claims
  BY <1>1
<1> QED BY <1>1, <1>6, <1>8, <1>9, FS_Subset

LEMMA RefreshSessionKeeps ==
  ASSUME AccountsInv, NEW r \in Requests, NEW u \in People, NEW claims \in SUBSET GroupNames,
         RefreshSession(r, u, claims)
  PROVE  AccountsInv'
<1>1. PICK same : same = (/\ Cardinality(UNION {{g} \X (1..members[g][u]) : g \in GroupNames})
                                = Cardinality(claims)
                          /\ MembershipsOf(u) \subseteq claims)
  OBVIOUS
<1>2. PICK where : where = IF same THEN "entered" ELSE "clearing"
  OBVIOUS
<1>3. where \in {"counting", "registering", "joining", "leaving", "clearing", "rejoining",
                 "entered"}
  BY <1>2
<1>4. PICK e : e = Start(r, u, where, claims)
  OBVIOUS
<1>5. /\ e \in Visits /\ e.at = where /\ e.user = u /\ e.claims = claims
      /\ e.todo = claims /\ e.item = None
      /\ e.alone => ~Doubled(u)
      /\ e.alone => \A q \in Requests \ {r} : req[q] # None => req[q].user # u
      /\ e.before = MembershipsOf(u) \cap GroupsOf("local")
  BY <1>3, <1>4, StartIsTyped
<1>6. UNCHANGED members /\ UNCHANGED groupOf /\ PeopleOK'
  BY DEF RefreshSession, AccountsInv, PeopleOK
<1>7. GroupsGrow /\ GroupsOK'
  BY <1>6 DEF GroupsGrow, AccountsInv, GroupsOK
<1>8. req' = [q \in Requests |-> IF q = r THEN e ELSE Disturb(r, u)[q]]
  <2>1. req' = [Disturb(r, u) EXCEPT ![r] = e]
    BY <1>1, <1>2, <1>4, Zenon DEF RefreshSession
  <2> QED BY <2>1, ShapeOfChange
<1>9. ASSUME e.alone
      PROVE  SyncedTo(e, MembershipsOf(e.user)', GroupsOf("sso")', GroupsOf("local")')
  <2>1. PICK mine, sso, local :
          mine = MembershipsOf(u) /\ sso = GroupsOf("sso") /\ local = GroupsOf("local")
    OBVIOUS
  <2>2. /\ MembershipsOf(e.user)' = mine
        /\ GroupsOf("sso")' = sso /\ GroupsOf("local")' = local
    BY <1>5, <1>6, <2>1 DEF MembershipsOf, GroupsOf
  <2>3. mine \subseteq sso \cup local /\ sso \cap local = {}
    BY <2>1 DEF MembershipsOf, GroupsOf, AccountsInv, GroupsOK
  <2>4. CASE same
    <3>1. e.at = "entered"
      BY <1>2, <1>5, <2>4
    <3>2. mine = claims
      BY <1>1, <1>5, <1>9, <2>1, <2>4, AsManyAsClaims
    <3>3. SyncedTo(e, mine, sso, local)
      BY <1>5, <2>1, <2>3, <3>1, <3>2 DEF SyncedTo
    <3> QED BY <2>2, <3>3
  <2>5. CASE ~same
    <3>1. e.at = "clearing"
      BY <1>2, <1>5, <2>5
    <3>2. SyncedTo(e, mine, sso, local)
      BY <1>5, <2>1, <3>1 DEF SyncedTo
    <3> QED BY <2>2, <3>2
  <2> QED BY <2>4, <2>5
<1>10. \A g \in GroupNames, v \in People : v # u => members'[g][v] = members[g][v]
  BY <1>6
<1> QED BY <1>5, <1>6, <1>7, <1>8, <1>9, <1>10, ChangeKeeps

LEMMA FindGroupKeeps ==
  ASSUME AccountsInv, NEW r \in Requests, FindGroup(r)
  PROVE  AccountsInv'
<1>1. PICK e : e = req[r]
  OBVIOUS
<1>2. /\ req[r] # None /\ e.at = "joining" /\ e.item = None
      /\ UNCHANGED members /\ UNCHANGED account /\ UNCHANGED cookie /\ UNCHANGED refreshable
  BY <1>1 DEF FindGroup, Doing
<1>3. /\ e \in Visits /\ e.user \in People
      /\ e.alone => SyncedTo(e, MembershipsOf(e.user), GroupsOf("sso"), GroupsOf("local"))
  BY <1>1, <1>2, VisitIsTyped
<1>4. PeopleOK'
  BY <1>2 DEF AccountsInv, PeopleOK
<1>5. PICK g \in e.todo :
        IF groupOf[g] = "local" THEN Fails(r) /\ UNCHANGED groupOf
        ELSE /\ groupOf' = [groupOf EXCEPT ![g] = "sso"]
             /\ req' = [req EXCEPT ![r].todo = @ \ {g},
                  ![r].item = IF members[g][e.user] = 0 THEN g ELSE None]
  BY <1>1 DEF FindGroup
<1>6. g \in GroupNames /\ g # None
  BY <1>3, <1>5, AccountsNoneAssumption DEF Visits, AccountsNoneAssumption
<1>7. CASE groupOf[g] = "local"
  <2>1. UNCHANGED <<groupOf, members>>
    BY <1>2, <1>5, <1>7
  <2> QED BY <1>2, <1>4, <1>5, <1>7, <2>1, EndKeeps DEF Fails
<1>8. CASE groupOf[g] # "local"
  <2>1. PICK item : item = IF members[g][e.user] = 0 THEN g ELSE None
    OBVIOUS
  <2>2. item \in GroupNames \cup {None} /\ (item # None => item = g)
    BY <1>6, <2>1
  <2>3. PICK f : f = [e EXCEPT !.todo = @ \ {g}, !.item = item]
    OBVIOUS
  <2>4. /\ f \in Visits /\ f.at = "joining" /\ f.user = e.user /\ f.claims = e.claims
        /\ f.todo = e.todo \ {g} /\ f.item = item /\ f.alone = e.alone /\ f.before = e.before
    BY <1>2, <1>3, <2>2, <2>3 DEF Visits
  <2>5. req' = [req EXCEPT ![r] = f]
    <3>1. DOMAIN req = Requests
      BY DEF AccountsInv, VisitsOK
    <3>2. req' = [req EXCEPT ![r].todo = @ \ {g}, ![r].item = item]
      BY <1>5, <1>8, <2>1, Zenon
    <3> QED BY <1>1, <2>3, <3>1, <3>2, Zenon
  <2>6. groupOf' = [groupOf EXCEPT ![g] = "sso"]
    BY <1>5, <1>8
  <2>7. groupOf \in [GroupNames -> {"local", "sso", None}]
    BY DEF AccountsInv, GroupsOK
  <2>8. GroupsGrow /\ groupOf' \in [GroupNames -> {"local", "sso", None}] /\ groupOf'[g] = "sso"
    BY <1>6, <1>8, <2>6, <2>7 DEF GroupsGrow
  <2>9. ASSUME f.alone
        PROVE  SyncedTo(f, MembershipsOf(f.user)', GroupsOf("sso")', GroupsOf("local")')
    <3>1. PICK mine, sso, local :
            mine = MembershipsOf(e.user) /\ sso = GroupsOf("sso") /\ local = GroupsOf("local")
      OBVIOUS
    <3>2. SyncedTo(e, mine, sso, local)
      BY <1>3, <2>4, <2>9, <3>1
    <3>3. MembershipsOf(f.user)' = mine
      BY <1>2, <2>4, <3>1 DEF MembershipsOf
    <3>4. GroupsOf("sso")' = sso \cup {g} /\ GroupsOf("local")' = local
      BY <1>6, <1>8, <2>6, <2>7, <3>1 DEF GroupsOf
    <3>5. mine \subseteq sso \cup local /\ sso \cap local = {}
      BY <1>3, <3>1 DEF MembershipsOf, GroupsOf, AccountsInv, GroupsOK
    <3>6. g \in mine \/ item = g
      BY <1>3, <1>6, <2>1, <3>1 DEF MembershipsOf, AccountsInv, GroupsOK
    <3>7. e.claims \ e.todo \subseteq mine
      BY <1>2, <1>6, <3>2, AccountsNoneAssumption, <1>3 DEF SyncedTo, Visits, AccountsNoneAssumption
    <3>8. \A h \in f.claims \ f.todo : h \in mine \/ h = f.item
      BY <2>4, <3>6, <3>7
    <3>9. SyncedTo(f, mine, sso \cup {g}, local)
      BY <1>2, <2>4, <3>2, <3>8 DEF SyncedTo
    <3> QED BY <3>3, <3>4, <3>9
  <2>10. f.item # None => groupOf'[f.item] = "sso"
    BY <2>2, <2>4, <2>8
  <2> QED BY <1>1, <1>2, <1>4, <2>4, <2>5, <2>8, <2>9, <2>10, MoveKeeps
<1> QED BY <1>7, <1>8

LEMMA AddedMembership ==
  ASSUME GroupsOK, NEW g \in GroupNames, NEW u \in People, Add(g, u)
  PROVE  /\ members' \in [GroupNames -> [People -> Nat]]
         /\ \A h \in GroupNames, v \in People : v # u => members'[h][v] = members[h][v]
         /\ \A h \in GroupNames, v \in People : h # g => members'[h][v] = members[h][v]
         /\ MembershipsOf(u)' = MembershipsOf(u) \cup {g}
<1>1. members \in [GroupNames -> [People -> Nat]]
  BY DEF GroupsOK
<1>2. members' = [members EXCEPT ![g][u] = members[g][u] + 1]
  BY DEF Add
<1>3. members[g][u] + 1 \in Nat /\ members[g][u] + 1 > 0
  BY <1>1
<1>4. \A h \in GroupNames, v \in People : members'[h][v] =
        IF h = g /\ v = u THEN members[g][u] + 1 ELSE members[h][v]
  BY <1>1, <1>2
<1>5. members' \in [GroupNames -> [People -> Nat]]
  BY <1>1, <1>2, <1>3
<1>6. MembershipsOf(u)' = MembershipsOf(u) \cup {g}
  BY <1>1, <1>3, <1>4 DEF MembershipsOf
<1> QED BY <1>4, <1>5, <1>6

LEMMA JoinGroupKeeps ==
  ASSUME AccountsInv, NEW r \in Requests, JoinGroup(r)
  PROVE  AccountsInv'
<1>1. PICK e, u, g : e = req[r] /\ u = req[r].user /\ g = req[r].item
  OBVIOUS
<1>2. /\ req[r] # None /\ e.at = "joining" /\ g # None /\ Add(g, u)
      /\ UNCHANGED groupOf /\ UNCHANGED account /\ UNCHANGED cookie /\ UNCHANGED refreshable
  BY <1>1 DEF JoinGroup, Doing
<1>3. /\ e \in Visits /\ u \in People /\ g \in GroupNames /\ groupOf[g] = "sso"
      /\ e.alone => SyncedTo(e, MembershipsOf(u), GroupsOf("sso"), GroupsOf("local"))
  BY <1>1, <1>2, VisitIsTyped
<1>4. /\ members' \in [GroupNames -> [People -> Nat]]
      /\ \A h \in GroupNames, v \in People : v # u => members'[h][v] = members[h][v]
      /\ \A h \in GroupNames, v \in People : h # g => members'[h][v] = members[h][v]
      /\ MembershipsOf(u)' = MembershipsOf(u) \cup {g}
  BY <1>2, <1>3, AddedMembership DEF AccountsInv
<1>5. PeopleOK' /\ GroupsGrow
  BY <1>2 DEF AccountsInv, PeopleOK, GroupsGrow
<1>6. GroupsOK'
  BY <1>2, <1>3, <1>4, AccountsNoneAssumption
  DEF AccountsInv, GroupsOK, AccountsNoneAssumption
<1>7. PICK f : f = [e EXCEPT !.item = None]
  OBVIOUS
<1>8. /\ f \in Visits /\ f.at = "joining" /\ f.user = u /\ f.claims = e.claims
      /\ f.todo = e.todo /\ f.item = None /\ f.alone = e.alone /\ f.before = e.before
  BY <1>1, <1>2, <1>3, <1>7 DEF Visits
<1>9. req' = [q \in Requests |-> IF q = r THEN f ELSE Disturb(r, u)[q]]
  <2>1. Disturb(r, u)[r] = e /\ DOMAIN Disturb(r, u) = Requests
    BY <1>1 DEF Disturb
  <2>2. req' = [Disturb(r, u) EXCEPT ![r].item = None]
    BY <1>1 DEF JoinGroup
  <2>3. req' = [Disturb(r, u) EXCEPT ![r] = f]
    BY <1>7, <2>1, <2>2, Zenon
  <2> QED BY <2>3, ShapeOfChange
<1>10. ASSUME f.alone
       PROVE  SyncedTo(f, MembershipsOf(f.user)', GroupsOf("sso")', GroupsOf("local")')
  <2>1. PICK mine, sso, local :
          mine = MembershipsOf(u) /\ sso = GroupsOf("sso") /\ local = GroupsOf("local")
    OBVIOUS
  <2>2. SyncedTo(e, mine, sso, local)
    BY <1>3, <1>8, <1>10, <2>1
  <2>3. GroupsOf("sso")' = sso /\ GroupsOf("local")' = local
    BY <1>2, <2>1 DEF GroupsOf
  <2>4. MembershipsOf(f.user)' = mine \cup {g}
    BY <1>4, <1>8, <2>1
  <2>5. g \notin local
    BY <1>3, <2>1 DEF GroupsOf
  <2>6. SyncedTo(f, mine \cup {g}, sso, local)
    BY <1>1, <1>2, <1>8, <2>2, <2>5 DEF SyncedTo
  <2> QED BY <2>3, <2>4, <2>6
<1>11. f.alone => \A q \in Requests \ {r} : req[q] # None => req[q].user # u
  BY <1>1, <1>2, <1>8 DEF AccountsInv, Unshared
<1> QED BY <1>3, <1>4, <1>5, <1>6, <1>8, <1>9, <1>10, <1>11, ChangeKeeps

LEMMA FindStaleKeeps ==
  ASSUME AccountsInv, NEW r \in Requests, FindStale(r)
  PROVE  AccountsInv'
<1>1. PICK e : e = req[r]
  OBVIOUS
<1>2. /\ req[r] # None /\ e.at = "joining" /\ e.item = None /\ e.todo = {}
      /\ UNCHANGED groupOf /\ UNCHANGED members
      /\ UNCHANGED account /\ UNCHANGED cookie /\ UNCHANGED refreshable
  BY <1>1 DEF FindStale, Doing
<1>3. /\ e \in Visits /\ e.user \in People
      /\ e.alone => SyncedTo(e, MembershipsOf(e.user), GroupsOf("sso"), GroupsOf("local"))
  BY <1>1, <1>2, VisitIsTyped
<1>4. PICK mine, sso, local :
        mine = MembershipsOf(e.user) /\ sso = GroupsOf("sso") /\ local = GroupsOf("local")
  OBVIOUS
<1>5. PICK stale : stale = (mine \cap sso) \ e.claims
  OBVIOUS
<1>6. stale \in SUBSET GroupNames
  BY <1>4, <1>5 DEF GroupsOf
<1>7. PICK f : f = [e EXCEPT !.at = "leaving", !.todo = stale]
  OBVIOUS
<1>8. /\ f \in Visits /\ f.at = "leaving" /\ f.user = e.user /\ f.claims = e.claims
      /\ f.todo = stale /\ f.item = None /\ f.alone = e.alone /\ f.before = e.before
  BY <1>2, <1>3, <1>6, <1>7 DEF Visits
<1>9. req' = [req EXCEPT ![r] = f]
  <2>1. DOMAIN req = Requests
    BY DEF AccountsInv, VisitsOK
  <2>2. req' = [req EXCEPT ![r].at = "leaving", ![r].todo = stale]
    BY <1>1, <1>4, <1>5, Zenon DEF FindStale, Stale
  <2> QED BY <1>1, <1>7, <2>1, <2>2, Zenon
<1>10. PeopleOK' /\ GroupsGrow /\ groupOf' \in [GroupNames -> {"local", "sso", None}]
  BY <1>2 DEF AccountsInv, PeopleOK, GroupsOK, GroupsGrow
<1>11. ASSUME f.alone
       PROVE  SyncedTo(f, MembershipsOf(f.user)', GroupsOf("sso")', GroupsOf("local")')
  <2>1. /\ MembershipsOf(f.user)' = mine
        /\ GroupsOf("sso")' = sso /\ GroupsOf("local")' = local
    BY <1>2, <1>4, <1>8 DEF MembershipsOf, GroupsOf
  <2>2. SyncedTo(e, mine, sso, local)
    BY <1>3, <1>4, <1>8, <1>11
  <2>3. e.claims \subseteq GroupNames
    BY <1>3 DEF Visits
  <2>4. e.claims \subseteq mine \cap sso
    BY <1>2, <2>2, <2>3, AccountsNoneAssumption DEF SyncedTo, AccountsNoneAssumption
  <2>5. SyncedTo(f, mine, sso, local)
    BY <1>5, <1>8, <2>2, <2>4 DEF SyncedTo
  <2> QED BY <2>1, <2>5
<1> QED BY <1>1, <1>2, <1>8, <1>9, <1>10, <1>11, MoveKeeps

LEMMA LeaveGroupKeeps ==
  ASSUME AccountsInv, NEW r \in Requests, LeaveGroup(r)
  PROVE  AccountsInv'
<1>1. PICK e, u : e = req[r] /\ u = req[r].user
  OBVIOUS
<1>2. /\ req[r] # None /\ e.at = "leaving"
      /\ UNCHANGED groupOf /\ UNCHANGED account /\ UNCHANGED cookie /\ UNCHANGED refreshable
  BY <1>1 DEF LeaveGroup, Doing
<1>3. /\ e \in Visits /\ u \in People
      /\ e.item # None => groupOf[e.item] = "sso"
      /\ e.alone => SyncedTo(e, MembershipsOf(u), GroupsOf("sso"), GroupsOf("local"))
  BY <1>1, <1>2, VisitIsTyped
<1>4. PICK g \in e.todo : /\ members' = [members EXCEPT ![g][u] = 0]
                          /\ req' = [Disturb(r, u) EXCEPT ![r].todo = @ \ {g}]
  BY <1>1 DEF LeaveGroup
<1>5. g \in GroupNames
  BY <1>3, <1>4 DEF Visits
<1>6. members \in [GroupNames -> [People -> Nat]]
  BY DEF AccountsInv, GroupsOK
<1>7. \A h \in GroupNames, v \in People :
        members'[h][v] = IF h = g /\ v = u THEN 0 ELSE members[h][v]
  BY <1>3, <1>4, <1>5, <1>6
<1>8. members' \in [GroupNames -> [People -> Nat]]
  BY <1>3, <1>4, <1>5, <1>6
<1>9. PeopleOK' /\ GroupsGrow /\ GroupsOK'
  BY <1>2, <1>7, <1>8 DEF AccountsInv, PeopleOK, GroupsOK, GroupsGrow
<1>10. PICK f : f = [e EXCEPT !.todo = @ \ {g}]
  OBVIOUS
<1>11. /\ f \in Visits /\ f.at = "leaving" /\ f.user = u /\ f.claims = e.claims
       /\ f.todo = e.todo \ {g} /\ f.item = e.item /\ f.alone = e.alone /\ f.before = e.before
  BY <1>1, <1>2, <1>3, <1>10 DEF Visits
<1>12. req' = [q \in Requests |-> IF q = r THEN f ELSE Disturb(r, u)[q]]
  <2>1. Disturb(r, u)[r] = e /\ DOMAIN Disturb(r, u) = Requests
    BY <1>1 DEF Disturb
  <2>2. req' = [Disturb(r, u) EXCEPT ![r] = f]
    BY <1>4, <1>10, <2>1, Zenon
  <2> QED BY <2>2, ShapeOfChange
<1>13. ASSUME f.alone
       PROVE  SyncedTo(f, MembershipsOf(f.user)', GroupsOf("sso")', GroupsOf("local")')
  <2>1. PICK mine, sso, local :
          mine = MembershipsOf(u) /\ sso = GroupsOf("sso") /\ local = GroupsOf("local")
    OBVIOUS
  <2>2. SyncedTo(e, mine, sso, local)
    BY <1>3, <1>11, <1>13, <2>1
  <2>3. GroupsOf("sso")' = sso /\ GroupsOf("local")' = local
    BY <1>2, <2>1 DEF GroupsOf
  <2>4. MembershipsOf(f.user)' = mine \ {g}
    BY <1>3, <1>7, <1>11, <2>1 DEF MembershipsOf
  <2>5. sso \cap local = {}
    BY <2>1 DEF GroupsOf
  <2>6. SyncedTo(f, mine \ {g}, sso, local)
    BY <1>2, <1>4, <1>11, <2>2, <2>5 DEF SyncedTo
  <2> QED BY <2>3, <2>4, <2>6
<1>14. f.alone => \A q \in Requests \ {r} : req[q] # None => req[q].user # u
  BY <1>1, <1>2, <1>11 DEF AccountsInv, Unshared
<1>15. f.item # None => groupOf'[f.item] = "sso"
  BY <1>2, <1>3, <1>11
<1>16. \A h \in GroupNames, v \in People : v # u => members'[h][v] = members[h][v]
  BY <1>7
<1> QED BY <1>3, <1>9, <1>11, <1>12, <1>13, <1>14, <1>15, <1>16, ChangeKeeps

(* A request whose memberships are in line: what it does to the row of its  *)
(* user, which may be the last of its steps, changes no membership.         *)
LEMMA EnterKeeps ==
  ASSUME AccountsInv, PeopleOK', NEW r \in Requests, req[r] # None,
         req[r].at \in {"leaving", "rejoining"}, req[r].todo = {},
         UNCHANGED <<groupOf, members>>,
         req' = [Disturb(r, req[r].user) EXCEPT ![r].at = "entered"]
  PROVE  AccountsInv'
<1>1. PICK e, u : e = req[r] /\ u = req[r].user
  OBVIOUS
<1>2. /\ e \in Visits /\ u \in People
      /\ e.item # None => groupOf[e.item] = "sso"
      /\ e.alone => SyncedTo(e, MembershipsOf(u), GroupsOf("sso"), GroupsOf("local"))
  BY <1>1, VisitIsTyped
<1>3. GroupsGrow /\ GroupsOK'
  BY DEF AccountsInv, GroupsOK, GroupsGrow
<1>4. PICK f : f = [e EXCEPT !.at = "entered"]
  OBVIOUS
<1>5. /\ f \in Visits /\ f.at = "entered" /\ f.user = u /\ f.claims = e.claims
      /\ f.item = e.item /\ f.alone = e.alone /\ f.before = e.before
  BY <1>1, <1>2, <1>4 DEF Visits
<1>6. req' = [q \in Requests |-> IF q = r THEN f ELSE Disturb(r, u)[q]]
  <2>1. Disturb(r, u)[r] = e /\ DOMAIN Disturb(r, u) = Requests
    BY <1>1 DEF Disturb
  <2>2. req' = [Disturb(r, u) EXCEPT ![r] = f]
    BY <1>1, <1>4, <2>1, Zenon
  <2> QED BY <2>2, ShapeOfChange
<1>7. ASSUME f.alone
      PROVE  SyncedTo(f, MembershipsOf(f.user)', GroupsOf("sso")', GroupsOf("local")')
  <2>1. PICK mine, sso, local :
          mine = MembershipsOf(u) /\ sso = GroupsOf("sso") /\ local = GroupsOf("local")
    OBVIOUS
  <2>2. SyncedTo(e, mine, sso, local)
    BY <1>2, <1>5, <1>7, <2>1
  <2>3. /\ MembershipsOf(f.user)' = mine
        /\ GroupsOf("sso")' = sso /\ GroupsOf("local")' = local
    BY <1>5, <2>1 DEF GroupsOf, MembershipsOf
  <2>4. sso \cap local = {}
    BY <2>1 DEF GroupsOf
  <2>5. mine \cap sso = e.claims
    BY <1>1, <2>2 DEF SyncedTo
  <2>6. SyncedTo(f, mine, sso, local)
    BY <1>5, <2>2, <2>4, <2>5 DEF SyncedTo
  <2> QED BY <2>3, <2>6
<1>8. f.alone => \A q \in Requests \ {r} : req[q] # None => req[q].user # u
  BY <1>1, <1>5 DEF AccountsInv, Unshared
<1>9. f.item # None => groupOf'[f.item] = "sso"
  BY <1>2, <1>5
<1>10. \A h \in GroupNames, v \in People : v # u => members'[h][v] = members[h][v]
  OBVIOUS
<1> QED BY <1>2, <1>3, <1>5, <1>6, <1>7, <1>8, <1>9, <1>10, ChangeKeeps

LEMMA RolesAreRoles == ASSUME NEW claims PROVE RoleFor(claims) \in Roles
BY DEF RoleFor, Roles

LEMMA EndCallbackKeeps ==
  ASSUME AccountsInv, NEW r \in Requests, EndCallback(r)
  PROVE  AccountsInv'
<1>1. PICK u, role, old : u = req[r].user /\ role = RoleFor(req[r].claims) /\ old = account[u]
  OBVIOUS
<1>2. role \in Roles
  BY <1>1, RolesAreRoles
<1>3. /\ account' = [account EXCEPT ![u] = role] \/ account' = [account EXCEPT ![u] = @]
      /\ cookie' = [cookie EXCEPT ![u] = role]
      /\ refreshable' = [refreshable EXCEPT ![u] = TRUE]
      /\ req' = [Disturb(r, u) EXCEPT ![r].at = "entered"]
  BY <1>1, Zenon DEF EndCallback
<1>4. PeopleOK'
  BY <1>2, <1>3 DEF AccountsInv, PeopleOK
<1>5. /\ req[r] # None /\ req[r].at \in {"leaving", "rejoining"} /\ req[r].todo = {}
      /\ UNCHANGED <<groupOf, members>>
  BY DEF EndCallback, Doing
<1> QED BY <1>1, <1>3, <1>4, <1>5, EnterKeeps

LEMMA EndRefreshKeeps ==
  ASSUME AccountsInv, NEW r \in Requests, EndRefresh(r)
  PROVE  AccountsInv'
<1>1. PeopleOK'
  BY RolesAreRoles DEF EndRefresh, AccountsInv, PeopleOK
<1>2. /\ req[r] # None /\ req[r].at \in {"leaving", "rejoining"} /\ req[r].todo = {}
      /\ UNCHANGED <<groupOf, members>>
      /\ req' = [Disturb(r, req[r].user) EXCEPT ![r].at = "entered"]
  BY DEF EndRefresh, Doing
<1> QED BY <1>1, <1>2, EnterKeeps

LEMMA ClearGroupsKeeps ==
  ASSUME AccountsInv, NEW r \in Requests, ClearGroups(r)
  PROVE  AccountsInv'
<1>1. PICK e, u : e = req[r] /\ u = req[r].user
  OBVIOUS
<1>2. /\ req[r] # None /\ e.at = "clearing"
      /\ UNCHANGED groupOf /\ UNCHANGED account /\ UNCHANGED cookie /\ UNCHANGED refreshable
      /\ req' = [Disturb(r, u) EXCEPT ![r].at = "rejoining"]
      /\ members' = [g \in GroupNames |->
           IF groupOf[g] = "sso" THEN [members[g] EXCEPT ![u] = 0] ELSE members[g]]
  BY <1>1 DEF ClearGroups, Doing
<1>3. /\ e \in Visits /\ u \in People
      /\ e.item # None => groupOf[e.item] = "sso"
      /\ e.alone => SyncedTo(e, MembershipsOf(u), GroupsOf("sso"), GroupsOf("local"))
  BY <1>1, <1>2, VisitIsTyped
<1>4. members \in [GroupNames -> [People -> Nat]]
  BY DEF AccountsInv, GroupsOK
<1>5. \A g \in GroupNames, v \in People :
        members'[g][v] = IF groupOf[g] = "sso" /\ v = u THEN 0 ELSE members[g][v]
  BY <1>2, <1>3, <1>4
<1>6. members' \in [GroupNames -> [People -> Nat]]
  BY <1>2, <1>3, <1>4
<1>7. PeopleOK' /\ GroupsGrow /\ GroupsOK'
  BY <1>2, <1>5, <1>6 DEF AccountsInv, PeopleOK, GroupsOK, GroupsGrow
<1>8. PICK f : f = [e EXCEPT !.at = "rejoining"]
  OBVIOUS
<1>9. /\ f \in Visits /\ f.at = "rejoining" /\ f.user = u /\ f.claims = e.claims
      /\ f.todo = e.todo /\ f.item = e.item /\ f.alone = e.alone /\ f.before = e.before
  BY <1>1, <1>3, <1>8 DEF Visits
<1>10. req' = [q \in Requests |-> IF q = r THEN f ELSE Disturb(r, u)[q]]
  <2>1. Disturb(r, u)[r] = e /\ DOMAIN Disturb(r, u) = Requests
    BY <1>1 DEF Disturb
  <2>2. req' = [Disturb(r, u) EXCEPT ![r] = f]
    BY <1>2, <1>8, <2>1, Zenon
  <2> QED BY <2>2, ShapeOfChange
<1>11. ASSUME f.alone
       PROVE  SyncedTo(f, MembershipsOf(f.user)', GroupsOf("sso")', GroupsOf("local")')
  <2>1. PICK mine, sso, local :
          mine = MembershipsOf(u) /\ sso = GroupsOf("sso") /\ local = GroupsOf("local")
    OBVIOUS
  <2>2. SyncedTo(e, mine, sso, local)
    BY <1>3, <1>9, <1>11, <2>1
  <2>3. GroupsOf("sso")' = sso /\ GroupsOf("local")' = local
    BY <1>2, <2>1 DEF GroupsOf
  <2>4. MembershipsOf(f.user)' = mine \ sso
    BY <1>3, <1>5, <1>9, <2>1 DEF MembershipsOf, GroupsOf
  <2>5. sso \cap local = {}
    BY <2>1 DEF GroupsOf
  <2>6. SyncedTo(f, mine \ sso, sso, local)
    BY <1>2, <1>9, <2>2, <2>5 DEF SyncedTo
  <2> QED BY <2>3, <2>4, <2>6
<1>12. f.alone => \A q \in Requests \ {r} : req[q] # None => req[q].user # u
  BY <1>1, <1>2, <1>9 DEF AccountsInv, Unshared
<1>13. f.item # None => groupOf'[f.item] = "sso"
  BY <1>2, <1>3, <1>9
<1>14. \A g \in GroupNames, v \in People : v # u => members'[g][v] = members[g][v]
  BY <1>5
<1> QED BY <1>3, <1>7, <1>9, <1>10, <1>11, <1>12, <1>13, <1>14, ChangeKeeps

LEMMA RejoinGroupKeeps ==
  ASSUME AccountsInv, NEW r \in Requests, RejoinGroup(r)
  PROVE  AccountsInv'
<1>1. PICK e, u : e = req[r] /\ u = req[r].user
  OBVIOUS
<1>2. /\ req[r] # None /\ e.at = "rejoining"
      /\ UNCHANGED account /\ UNCHANGED cookie /\ UNCHANGED refreshable
  BY <1>1 DEF RejoinGroup, Doing
<1>3. /\ e \in Visits /\ u \in People
      /\ e.item # None => e.item \in GroupNames /\ groupOf[e.item] = "sso"
      /\ e.alone => SyncedTo(e, MembershipsOf(u), GroupsOf("sso"), GroupsOf("local"))
  BY <1>1, <1>2, VisitIsTyped
<1>4. PeopleOK'
  BY <1>2 DEF AccountsInv, PeopleOK
<1>5. PICK g \in e.todo :
        IF groupOf[g] = "local" THEN Fails(r) /\ UNCHANGED <<groupOf, members>>
        ELSE /\ groupOf' = [groupOf EXCEPT ![g] = "sso"] /\ Add(g, u)
             /\ req' = [Disturb(r, u) EXCEPT ![r].todo = @ \ {g}]
  BY <1>1 DEF RejoinGroup
<1>6. g \in GroupNames
  BY <1>3, <1>5 DEF Visits
<1>7. CASE groupOf[g] = "local"
  BY <1>2, <1>4, <1>5, <1>7, EndKeeps DEF Fails
<1>8. CASE groupOf[g] # "local"
  <2>1. /\ groupOf' = [groupOf EXCEPT ![g] = "sso"] /\ Add(g, u)
        /\ req' = [Disturb(r, u) EXCEPT ![r].todo = @ \ {g}]
    BY <1>5, <1>8
  <2>2. groupOf \in [GroupNames -> {"local", "sso", None}]
    BY DEF AccountsInv, GroupsOK
  <2>3. /\ GroupsGrow /\ groupOf' \in [GroupNames -> {"local", "sso", None}]
        /\ groupOf'[g] = "sso" /\ \A h \in GroupNames : h # g => groupOf'[h] = groupOf[h]
    BY <1>6, <1>8, <2>1, <2>2 DEF GroupsGrow
  <2>4. /\ members' \in [GroupNames -> [People -> Nat]]
        /\ \A h \in GroupNames, v \in People : v # u => members'[h][v] = members[h][v]
        /\ \A h \in GroupNames, v \in People : h # g => members'[h][v] = members[h][v]
        /\ MembershipsOf(u)' = MembershipsOf(u) \cup {g}
    BY <1>3, <1>6, <2>1, AddedMembership DEF AccountsInv
  <2>5. GroupsOK'
    BY <1>6, <2>3, <2>4, AccountsNoneAssumption
    DEF AccountsInv, GroupsOK, AccountsNoneAssumption
  <2>6. PICK f : f = [e EXCEPT !.todo = @ \ {g}]
    OBVIOUS
  <2>7. /\ f \in Visits /\ f.at = "rejoining" /\ f.user = u /\ f.claims = e.claims
        /\ f.todo = e.todo \ {g} /\ f.item = e.item /\ f.alone = e.alone
        /\ f.before = e.before
    BY <1>1, <1>2, <1>3, <2>6 DEF Visits
  <2>8. req' = [q \in Requests |-> IF q = r THEN f ELSE Disturb(r, u)[q]]
    <3>1. Disturb(r, u)[r] = e /\ DOMAIN Disturb(r, u) = Requests
      BY <1>1 DEF Disturb
    <3>2. req' = [Disturb(r, u) EXCEPT ![r] = f]
      BY <2>1, <2>6, <3>1, Zenon
    <3> QED BY <3>2, ShapeOfChange
  <2>9. ASSUME f.alone
        PROVE  SyncedTo(f, MembershipsOf(f.user)', GroupsOf("sso")', GroupsOf("local")')
    <3>1. PICK mine, sso, local :
            mine = MembershipsOf(u) /\ sso = GroupsOf("sso") /\ local = GroupsOf("local")
      OBVIOUS
    <3>2. SyncedTo(e, mine, sso, local)
      BY <1>3, <2>7, <2>9, <3>1
    <3>3. GroupsOf("sso")' = sso \cup {g} /\ GroupsOf("local")' = local
      BY <1>6, <1>8, <2>1, <2>2, <3>1 DEF GroupsOf
    <3>4. MembershipsOf(f.user)' = mine \cup {g}
      BY <2>4, <2>7, <3>1
    <3>5. mine \subseteq sso \cup local /\ sso \cap local = {} /\ g \notin local
      BY <1>3, <1>8, <3>1 DEF MembershipsOf, GroupsOf, AccountsInv, GroupsOK
    <3>6. (mine \cup {g}) \cap (sso \cup {g}) = (mine \cap sso) \cup {g}
      BY <3>5
    <3>7. e.claims \ (e.todo \ {g}) = (e.claims \ e.todo) \cup {g}
      BY <1>2, <1>5, <3>2 DEF SyncedTo
    <3>8. SyncedTo(f, mine \cup {g}, sso \cup {g}, local)
      BY <1>2, <2>7, <3>2, <3>5, <3>6, <3>7 DEF SyncedTo
    <3> QED BY <3>3, <3>4, <3>8
  <2>10. f.alone => \A q \in Requests \ {r} : req[q] # None => req[q].user # u
    BY <1>1, <1>2, <2>7 DEF AccountsInv, Unshared
  <2>11. f.item # None => groupOf'[f.item] = "sso"
    BY <1>3, <2>3, <2>7
  <2>12. f # None => r \in Requests
    OBVIOUS
  <2> QED BY <1>3, <1>4, <2>3, <2>4, <2>5, <2>7, <2>8, <2>9, <2>10, <2>11, <2>12, ChangeKeeps, SMTT(20)
<1> QED BY <1>7, <1>8

(* The row and the token of a user who is not at a request's statements.    *)
LEMMA RowsKeep ==
  ASSUME AccountsInv, PeopleOK', UNCHANGED <<groupOf, members, req>>
  PROVE  AccountsInv'
<1>1. GroupsOK' /\ VisitsOK' /\ ItemsOK' /\ Unshared'
  BY DEF AccountsInv, GroupsOK, VisitsOK, ItemsOK, Unshared
<1>2. Synced'
  BY DEF AccountsInv, Synced, MembershipsOf, GroupsOf
<1> QED BY <1>1, <1>2 DEF AccountsInv

LEMMA OneRowKeeps ==
  ASSUME AccountsInv, NEW u \in People, NEW role \in Roles,
         Login(u) \/ Logout(u) \/ DeleteUser(u) \/ SetRole(u, role)
  PROVE  AccountsInv'
<1>1. PeopleOK'
  BY DEF Login, Logout, DeleteUser, SetRole, Chore, AccountsInv, PeopleOK
<1>2. UNCHANGED <<groupOf, members, req>>
  BY DEF Login, Logout, DeleteUser, SetRole
<1> QED BY <1>1, <1>2, RowsKeep

LEMMA CreateGroupKeeps ==
  ASSUME AccountsInv, NEW g \in GroupNames, CreateGroup(g)
  PROVE  AccountsInv'
<1>1. /\ groupOf[g] = None /\ groupOf' = [groupOf EXCEPT ![g] = "local"]
      /\ UNCHANGED members /\ UNCHANGED req
      /\ UNCHANGED account /\ UNCHANGED cookie /\ UNCHANGED refreshable
  BY DEF CreateGroup, Chore
<1>2. groupOf \in [GroupNames -> {"local", "sso", None}]
  BY DEF AccountsInv, GroupsOK
<1>3. /\ groupOf' \in [GroupNames -> {"local", "sso", None}]
      /\ \A h \in GroupNames : groupOf'[h] = IF h = g THEN "local" ELSE groupOf[h]
  BY <1>1, <1>2
<1>4. PeopleOK' /\ GroupsGrow
  BY <1>1, <1>3 DEF AccountsInv, PeopleOK, GroupsGrow
<1>5. GroupsOK'
  BY <1>1, <1>3, AccountsNoneAssumption DEF AccountsInv, GroupsOK, AccountsNoneAssumption
<1>6. DOMAIN req = Requests /\ None \notin Requests
  BY AccountsNoneAssumption DEF AccountsInv, VisitsOK, AccountsNoneAssumption
<1>7. req' = [q \in Requests |-> IF q = None THEN None ELSE req'[q]]
  BY <1>1, <1>6 DEF AccountsInv, VisitsOK
<1>8. \A q \in Requests \ {None} : Aside(q)
  BY <1>1, <1>4 DEF Aside, GroupsGrow
<1>9. \A h \in GroupNames : groupOf[h] = "sso" => groupOf'[h] = "sso"
  BY <1>1, <1>3, AccountsNoneAssumption DEF AccountsNoneAssumption
<1> QED BY <1>4, <1>5, <1>7, <1>8, <1>9, SyncStepKeeps

(* What an administrator does to the memberships of u.                      *)
LEMMA ChoreKeeps ==
  ASSUME AccountsInv, NEW u \in People, GroupsOK', UNCHANGED <<groupOf, account, cookie>>,
         UNCHANGED refreshable, req' = Disturb(None, u),
         \A g \in GroupNames, v \in People : v # u => members'[g][v] = members[g][v]
  PROVE  AccountsInv'
<1>1. PeopleOK' /\ GroupsGrow
  BY DEF AccountsInv, PeopleOK, GroupsGrow
<1>2. req' = [q \in Requests |-> IF q = None THEN None ELSE Disturb(None, u)[q]]
  BY AccountsNoneAssumption DEF Disturb, AccountsNoneAssumption
<1> QED BY <1>1, <1>2, ChangeKeeps

LEMMA AddMemberKeeps ==
  ASSUME AccountsInv, NEW g \in GroupNames, NEW u \in People, AddMember(g, u)
  PROVE  AccountsInv'
<1>1. /\ groupOf[g] = "local" /\ Add(g, u) /\ req' = Disturb(None, u)
      /\ UNCHANGED <<groupOf, account, cookie>> /\ UNCHANGED refreshable
  BY DEF AddMember, Chore, IsLocal
<1>2. /\ members' \in [GroupNames -> [People -> Nat]]
      /\ \A h \in GroupNames, v \in People : v # u => members'[h][v] = members[h][v]
      /\ \A h \in GroupNames, v \in People : h # g => members'[h][v] = members[h][v]
  BY <1>1, AddedMembership DEF AccountsInv
<1>3. GroupsOK'
  BY <1>1, <1>2, AccountsNoneAssumption DEF AccountsInv, GroupsOK, AccountsNoneAssumption
<1> QED BY <1>1, <1>2, <1>3, ChoreKeeps

LEMMA RemoveMemberKeeps ==
  ASSUME AccountsInv, NEW g \in GroupNames, NEW u \in People, RemoveMember(g, u)
  PROVE  AccountsInv'
<1>1. /\ members' = [members EXCEPT ![g][u] = 0] /\ req' = Disturb(None, u)
      /\ UNCHANGED <<groupOf, account, cookie>> /\ UNCHANGED refreshable
  BY DEF RemoveMember
<1>2. members \in [GroupNames -> [People -> Nat]]
  BY DEF AccountsInv, GroupsOK
<1>3. /\ members' \in [GroupNames -> [People -> Nat]]
      /\ \A h \in GroupNames, v \in People :
           members'[h][v] = IF h = g /\ v = u THEN 0 ELSE members[h][v]
  BY <1>1, <1>2
<1>4. GroupsOK'
  BY <1>1, <1>3 DEF AccountsInv, GroupsOK
<1> QED BY <1>1, <1>3, <1>4, ChoreKeeps

LEMMA SetGroupsKeeps ==
  ASSUME AccountsInv, NEW u \in People, NEW chosen \in SUBSET GroupNames, SetGroups(u, chosen)
  PROVE  AccountsInv'
<1>1. /\ members' = [g \in GroupNames |->
           IF IsLocal(g) THEN [members[g] EXCEPT ![u] = IF g \in chosen THEN 1 ELSE 0]
           ELSE members[g]]
      /\ req' = Disturb(None, u)
      /\ UNCHANGED <<groupOf, account, cookie>> /\ UNCHANGED refreshable
  BY DEF SetGroups, Chore
<1>2. members \in [GroupNames -> [People -> Nat]]
  BY DEF AccountsInv, GroupsOK
<1>3. /\ members' \in [GroupNames -> [People -> Nat]]
      /\ \A h \in GroupNames, v \in People : members'[h][v] =
           IF IsLocal(h) /\ v = u THEN IF h \in chosen THEN 1 ELSE 0 ELSE members[h][v]
  BY <1>1, <1>2
<1>4. GroupsOK'
  <2>1. ASSUME NEW h \in GroupNames, NEW v \in People, members'[h][v] > 0
        PROVE  groupOf[h] # None
    <3>1. CASE IsLocal(h)
      BY <3>1, AccountsNoneAssumption DEF IsLocal, AccountsNoneAssumption
    <3>2. CASE ~IsLocal(h)
      BY <1>3, <2>1, <3>2 DEF AccountsInv, GroupsOK
    <3> QED BY <3>1, <3>2
  <2> QED BY <1>1, <1>3, <2>1 DEF AccountsInv, GroupsOK
<1>5. \A h \in GroupNames, v \in People : v # u => members'[h][v] = members[h][v]
  BY <1>3
<1> QED BY <1>1, <1>4, <1>5, ChoreKeeps

LEMMA DeleteGroupKeeps ==
  ASSUME AccountsInv, NEW g \in GroupNames, DeleteGroup(g)
  PROVE  AccountsInv'
<1>1. /\ groupOf[g] = "local" /\ groupOf' = [groupOf EXCEPT ![g] = None]
      /\ members' = [members EXCEPT ![g] = [u \in People |-> 0]]
      /\ req' = [q \in Requests |->
                   IF req[q] = None THEN None ELSE [req[q] EXCEPT !.alone = FALSE]]
      /\ UNCHANGED account /\ UNCHANGED cookie /\ UNCHANGED refreshable
  BY DEF DeleteGroup, Chore, IsLocal
<1>2. /\ groupOf \in [GroupNames -> {"local", "sso", None}]
      /\ members \in [GroupNames -> [People -> Nat]]
  BY DEF AccountsInv, GroupsOK
<1>3. /\ groupOf' \in [GroupNames -> {"local", "sso", None}]
      /\ members' \in [GroupNames -> [People -> Nat]]
      /\ \A h \in GroupNames : groupOf'[h] = IF h = g THEN None ELSE groupOf[h]
      /\ \A h \in GroupNames, u \in People :
           members'[h][u] = IF h = g THEN 0 ELSE members[h][u]
  BY <1>1, <1>2
<1>4. PeopleOK'
  BY <1>1 DEF AccountsInv, PeopleOK
<1>5. GroupsOK'
  BY <1>3 DEF AccountsInv, GroupsOK
<1>6. None \notin Requests
  BY AccountsNoneAssumption DEF AccountsNoneAssumption
<1>7. req' = [q \in Requests |-> IF q = None THEN None ELSE req'[q]]
  BY <1>1, <1>6
<1>8. ASSUME NEW q \in Requests PROVE Aside(q)
  <2>1. PICK e : e = req[q]
    OBVIOUS
  <2>2. CASE e = None
    BY <1>1, <2>1, <2>2 DEF Aside
  <2>3. CASE e # None
    <3>1. e \in Visits
      BY <2>1, <2>3 DEF AccountsInv, VisitsOK
    <3>2. PICK f : f = [e EXCEPT !.alone = FALSE]
      OBVIOUS
    <3>3. f.alone = FALSE
      BY <3>1, <3>2, VisitsKeepTheirFields
    <3>4. req'[q] = f
      BY <1>1, <2>1, <2>3, <3>2
    <3> QED BY <2>1, <2>3, <3>2, <3>3, <3>4 DEF Aside
  <2> QED BY <2>2, <2>3
<1>9. \A h \in GroupNames : groupOf[h] = "sso" => groupOf'[h] = "sso"
  BY <1>1, <1>3
<1> QED BY <1>4, <1>5, <1>7, <1>8, <1>9, SyncStepKeeps

LEMMA AccountsKeep == AccountsInv /\ [AccountsNext]_accountVars => AccountsInv'
<1> SUFFICES ASSUME AccountsInv, [AccountsNext]_accountVars
             PROVE  AccountsInv'
  OBVIOUS
<1>1. ASSUME NEW r \in Requests,
             \/ CountUsers(r) \/ InsertUser(r) \/ FindGroup(r) \/ JoinGroup(r) \/ FindStale(r)
             \/ LeaveGroup(r) \/ EndCallback(r) \/ AnswerRequest(r)
             \/ ClearGroups(r) \/ RejoinGroup(r) \/ EndRefresh(r)
      PROVE  AccountsInv'
  BY <1>1, CountUsersKeeps, InsertUserKeeps, FindGroupKeeps, JoinGroupKeeps, FindStaleKeeps,
     LeaveGroupKeeps, EndCallbackKeeps, AnswerRequestKeeps, ClearGroupsKeeps, RejoinGroupKeeps,
     EndRefreshKeeps
<1>2. ASSUME NEW r \in Requests, NEW u \in People, Register(r, u)
      PROVE  AccountsInv'
  BY <1>2, RegisterKeeps
<1>3. ASSUME NEW r \in Requests, NEW u \in People, NEW claims \in SUBSET GroupNames,
             SsoCallback(r, u, claims) \/ RefreshSession(r, u, claims)
      PROVE  AccountsInv'
  BY <1>3, SsoCallbackKeeps, RefreshSessionKeeps
<1>4. ASSUME NEW u \in People, NEW role \in Roles,
             Login(u) \/ Logout(u) \/ DeleteUser(u) \/ SetRole(u, role)
      PROVE  AccountsInv'
  BY <1>4, OneRowKeeps
<1>5. ASSUME NEW u \in People, NEW g \in GroupNames, AddMember(g, u) \/ RemoveMember(g, u)
      PROVE  AccountsInv'
  BY <1>5, AddMemberKeeps, RemoveMemberKeeps
<1>6. ASSUME NEW u \in People, NEW chosen \in SUBSET GroupNames, SetGroups(u, chosen)
      PROVE  AccountsInv'
  BY <1>6, SetGroupsKeeps
<1>7. ASSUME NEW g \in GroupNames, CreateGroup(g) \/ DeleteGroup(g)
      PROVE  AccountsInv'
  BY <1>7, CreateGroupKeeps, DeleteGroupKeeps
<1>8. CASE UNCHANGED accountVars
  <2>1. UNCHANGED <<groupOf, members, req>> /\ PeopleOK'
    BY <1>8 DEF accountVars, AccountsInv, PeopleOK
  <2> QED BY <2>1, RowsKeep
<1>9. "admin" \in Roles
  BY DEF Roles
<1> QED BY <1>1, <1>2, <1>3, <1>4, <1>5, <1>6, <1>7, <1>8, <1>9 DEF AccountsNext

LEMMA AccountsStay == AccountsSpec => []AccountsInv
<1> QED BY AccountsStart, AccountsKeep, PTL DEF AccountsSpec

(* Roles, providers and numbers of memberships stay of their kinds, for any *)
(* number of users, groups and requests (routes/auth.ts, admin.ts,          *)
(* groups.ts).                                                              *)
THEOREM AccountsAreTyped == AccountsSpec => []AccountsTypeOK
<1>1. AccountsInv => AccountsTypeOK
  <2> SUFFICES ASSUME AccountsInv PROVE AccountsTypeOK
    OBVIOUS
  <2>1. \A u \in People : {account[u], cookie[u]} \subseteq Roles \cup {None}
    BY DEF AccountsInv, PeopleOK
  <2>2. \A g \in GroupNames : groupOf[g] \in {"local", "sso", None}
    BY DEF AccountsInv, GroupsOK
  <2>3. \A g \in GroupNames, u \in People : members[g][u] \in Nat
    BY DEF AccountsInv, GroupsOK
  <2> QED BY <2>1, <2>2, <2>3 DEF AccountsTypeOK
<1> QED BY <1>1, AccountsStay, PTL

(* However many people log in, and whatever administrators do meanwhile, a  *)
(* single sign-on login or a refresh that nobody else at the same user      *)
(* disturbed leaves it in the provider's groups its claims name and in the  *)
(* local groups it was in (routes/auth.ts).                                 *)
THEOREM LoginsSyncGroups == AccountsSpec => []LoginSyncsGroups
<1>1. AccountsInv => LoginSyncsGroups
  <2> SUFFICES ASSUME AccountsInv, NEW r \in Requests, Doing(r, "entered"), req[r].alone
               PROVE  LET mine == MembershipsOf(req[r].user)
                      IN /\ mine \cap GroupsOf("sso") = req[r].claims \ GroupsOf("local")
                         /\ mine \cap GroupsOf("local") = req[r].before
    BY DEF LoginSyncsGroups
  <2>1. SyncedTo(req[r], MembershipsOf(req[r].user), GroupsOf("sso"), GroupsOf("local"))
    BY DEF AccountsInv, Synced, Doing
  <2>2. req[r].at = "entered"
    BY DEF Doing
  <2> QED BY <2>1, <2>2 DEF SyncedTo
<1> QED BY <1>1, AccountsStay, PTL

-------------------------------------------------------------------------------
(* Secrets and their keys.                                                  *)

Saving == {"ensuring", "reviving", "encrypting", "storing"}
Rotating == {"counting", "deactivating", "inserting"}
Migrating == {"scanning", "reading", "reencrypting", "writing"}

JobSteps == Saving \cup Rotating \cup Migrating

StoredRecord == [text : Texts, key : versions, version : versions]
RowSnapshot == [StoredRows -> StoredRecord \cup {None}]

KeyJobs ==
  [at : JobSteps, row : StoredRows \cup {None},
   text : Texts \cup SecretNames \cup {None}, version : Nat, key : Nat,
   todo : SUBSET SecretNames, rows : RowSnapshot]

(* Versions are numbered without a gap, and nothing names another one.      *)
VersionsOK ==
  /\ \E n \in 0..MaxVersions : versions = 1..n
  /\ current \subseteq versions /\ raced \in BOOLEAN
  /\ stored \in RowSnapshot
  /\ DOMAIN keyJob = KeyRequests
  /\ \A j \in KeyRequests : keyJob[j] = None \/ keyJob[j] \in KeyJobs
  /\ keyJob = [j \in KeyRequests |-> keyJob[j]]

(* What a request holds at each of its steps.                               *)
JobOK(job) ==
  /\ job.at \in Saving => job.row \in StoredRows /\ job.text \in Texts
  /\ job.at \in Rotating /\ job.row # None => job.text \in Texts
  /\ job.at = "reviving" => versions # {}
  /\ job.at \in {"storing", "writing"} => job.key \in versions
  /\ job.at \in {"deactivating", "inserting"} =>
       job.key \in 1..MaxVersions /\ \A k \in 1..(job.key - 1) : k \in versions
  /\ job.at \in Migrating => job.row = None /\ job.version \in versions
  /\ \A s \in job.todo : job.rows[s] # None
  /\ job.at \in {"reencrypting", "writing"} =>
       job.text \in SecretNames /\ job.rows[job.text] # None

(* Without a race, the key a re-encryption names is the current one.        *)
NamesCurrent(job) ==
  /\ job.at \in Migrating => current = {job.version}
  /\ job.at = "writing" => job.key = job.version

KeysInv ==
  /\ VersionsOK
  /\ \A j \in KeyRequests : keyJob[j] # None => JobOK(keyJob[j])
  /\ ~raced => \A j \in KeyRequests : keyJob[j] # None => NamesCurrent(keyJob[j])
  /\ SecretsOpen

(* A fresh database: nothing is stored and nobody is at work.               *)
LEMMA KeysStart == KeysInit => KeysInv
<1> SUFFICES ASSUME KeysInit PROVE KeysInv
  OBVIOUS
<1>1. \E n \in 0..MaxVersions : versions = 1..n
  <2>1. CASE versions = {}
    BY <2>1, SecretKeysAssumption
  <2>2. CASE versions = {1}
    BY <2>2, SecretKeysAssumption
  <2> QED BY <2>1, <2>2 DEF KeysInit
<1>2. VersionsOK
  BY <1>1 DEF KeysInit, VersionsOK, RowSnapshot
<1> QED BY <1>2 DEF KeysInit, KeysInv, SecretsOpen

(* The numbers of the versions: the oldest is one of them, and the next one *)
(* is new and leaves no gap.                                                *)
LEMMA Numbered ==
  ASSUME NEW n \in Nat, versions = 1..n
  PROVE  /\ versions # {} => OldestKey \in versions
         /\ NextVersion = n + 1
<1>1. versions # {} => OldestKey \in versions
  <2> SUFFICES ASSUME versions # {} PROVE OldestKey \in versions
    OBVIOUS
  <2>1. 1 \in versions /\ \A w \in versions : 1 <= w
    OBVIOUS
  <2> QED BY <2>1 DEF OldestKey
<1>2. CASE n = 0
  BY <1>1, <1>2 DEF NextVersion
<1>3. CASE n # 0
  <2>1. n \in versions /\ \A w \in versions : w <= n
    BY <1>3
  <2>2. NewestKey \in versions /\ \A w \in versions : w <= NewestKey
    BY <2>1 DEF NewestKey
  <2>3. NewestKey = n
    BY <2>1, <2>2
  <2> QED BY <1>1, <1>3, <2>3 DEF NextVersion
<1> QED BY <1>2, <1>3

(* A step of one request: what it leaves behind for itself has to fit, and  *)
(* the current key may change only if nobody migrates, or as a race.        *)
LEMMA OneRequestMoves ==
  ASSUME KeysInv, NEW j \in KeyRequests, NEW job,
         keyJob' = [keyJob EXCEPT ![j] = job],
         versions \subseteq versions', \E n \in 0..MaxVersions : versions' = 1..n,
         current' \subseteq versions',
         raced' \in BOOLEAN, raced => raced',
         raced' \/ current' = current \/ ~Reencrypting,
         stored' \in RowSnapshot',
         ~raced' => \A s \in StoredRows : stored'[s] # None => Opens(stored'[s]),
         job = None \/ job \in KeyJobs', job # None => JobOK(job)',
         job # None /\ ~raced' => NamesCurrent(job)'
  PROVE  KeysInv'
<1> USE DEF KeysInv
<1>1. RowSnapshot \subseteq RowSnapshot' /\ KeyJobs \subseteq KeyJobs'
  <2>1. StoredRecord \subseteq StoredRecord'
    BY DEF StoredRecord
  <2>2. RowSnapshot \subseteq RowSnapshot'
    BY <2>1 DEF RowSnapshot
  <2> QED BY <2>2 DEF KeyJobs
<1>2. \A r \in KeyRequests : keyJob'[r] = IF r = j THEN job ELSE keyJob[r]
  BY DEF VersionsOK
<1>3. VersionsOK'
  BY <1>1, <1>2 DEF VersionsOK
<1>4. \A r \in KeyRequests : keyJob'[r] # None => JobOK(keyJob[r])'
  <2> SUFFICES ASSUME NEW r \in KeyRequests, keyJob'[r] # None, r # j
               PROVE  JobOK(keyJob[r])'
    BY <1>2
  <2>1. keyJob'[r] = keyJob[r] /\ JobOK(keyJob[r])
    BY <1>2
  <2> QED BY <2>1 DEF JobOK
<1>5. ~raced' => \A r \in KeyRequests : keyJob'[r] # None => NamesCurrent(keyJob[r])'
  <2> SUFFICES ASSUME ~raced', NEW r \in KeyRequests, keyJob'[r] # None, r # j
               PROVE  NamesCurrent(keyJob[r])'
    BY <1>2
  <2>1. keyJob'[r] = keyJob[r] /\ NamesCurrent(keyJob[r]) /\ JobOK(keyJob[r])
    BY <1>2
  <2>2. keyJob[r].at \in Migrating => Reencrypting
    <3>1. \E n \in Nat : versions = 1..n
      BY DEF VersionsOK
    <3> QED BY <1>2, <2>1, <3>1 DEF JobOK, Reencrypting, VersionsOK
  <2> QED BY <1>2, <2>1, <2>2 DEF NamesCurrent, Migrating
<1>6. SecretsOpen'
  BY DEF SecretsOpen
<1> QED BY <1>3, <1>4, <1>5, <1>6

(* What a request is made of when it begins.                                *)
LEMMA JobBegins ==
  ASSUME KeysInv, NEW step \in JobSteps,
         NEW s \in StoredRows \cup {None}, NEW text \in Texts \cup {None}
  PROVE  KeyJob(step, s, text) \in KeyJobs
<1> QED BY DEF KeyJob, KeyJobs, KeysInv, VersionsOK

(* Steps that change nothing but the request itself.                        *)
LEMMA AloneMoves ==
  ASSUME KeysInv, NEW j \in KeyRequests, NEW job,
         keyJob' = [keyJob EXCEPT ![j] = job],
         UNCHANGED <<versions, current, stored>>,
         raced' \in BOOLEAN, raced => raced',
         job = None \/ job \in KeyJobs, job # None => JobOK(job),
         job # None /\ ~raced' => NamesCurrent(job)
  PROVE  KeysInv'
<1>1. KeyJobs' = KeyJobs /\ RowSnapshot' = RowSnapshot
  BY DEF KeyJobs, RowSnapshot, StoredRecord
<1>2. JobOK(job)' <=> JobOK(job)
  BY DEF JobOK
<1>3. NamesCurrent(job)' <=> NamesCurrent(job)
  BY DEF NamesCurrent
<1>4. /\ \E n \in 0..MaxVersions : versions' = 1..n
      /\ stored' \in RowSnapshot' /\ current' \subseteq versions'
  BY <1>1 DEF KeysInv, VersionsOK
<1>5. ~raced' => \A s \in StoredRows : stored'[s] # None => Opens(stored'[s])
  BY DEF KeysInv, SecretsOpen
<1> QED BY <1>1, <1>2, <1>3, <1>4, <1>5, OneRequestMoves

LEMMA RequestsBegin ==
  ASSUME KeysInv, NEW j \in KeyRequests,
         \/ \E s \in StoredRows, text \in Texts : BeginSaveSecret(j, s, text)
         \/ BeginRotation(j) \/ BeginReencryption(j)
  PROVE  KeysInv'
<1> USE DEF JobSteps, Saving, Rotating, Migrating
<1>1. ASSUME NEW s \in StoredRows, NEW text \in Texts, BeginSaveSecret(j, s, text) PROVE KeysInv'
  <2> DEFINE job == KeyJob("ensuring", s, text)
  <2>1. job \in KeyJobs
    BY JobBegins
  <2>2. JobOK(job) /\ NamesCurrent(job)
    BY DEF KeyJob, JobOK, NamesCurrent
  <2>3. keyJob' = [keyJob EXCEPT ![j] = job] /\ UNCHANGED <<versions, current, stored, raced>>
    BY <1>1 DEF BeginSaveSecret
  <2> HIDE DEF job
  <2> QED BY <2>1, <2>2, <2>3, AloneMoves DEF KeysInv, VersionsOK
<1>2. CASE BeginRotation(j)
  <2> DEFINE job == KeyJob("counting", None, None)
  <2>1. job \in KeyJobs
    BY JobBegins
  <2>2. JobOK(job) /\ NamesCurrent(job)
    BY DEF KeyJob, JobOK, NamesCurrent
  <2>3. keyJob' = [keyJob EXCEPT ![j] = job] /\ UNCHANGED <<versions, current, stored, raced>>
    BY <1>2 DEF BeginRotation
  <2> HIDE DEF job
  <2> QED BY <2>1, <2>2, <2>3, AloneMoves DEF KeysInv, VersionsOK
<1>3. CASE BeginReencryption(j)
  <2>1. PICK k \in current :
          keyJob' = [keyJob EXCEPT ![j] = [KeyJob("scanning", None, None) EXCEPT !.version = k]]
    BY <1>3 DEF BeginReencryption
  <2>2. /\ raced' = (raced \/ Cardinality(current) > 1) /\ UNCHANGED <<versions, current, stored>>
    BY <1>3 DEF BeginReencryption
  <2> DEFINE job == [KeyJob("scanning", None, None) EXCEPT !.version = k]
  <2>3. k \in versions /\ k \in Nat
    BY DEF KeysInv, VersionsOK
  <2>4. job \in KeyJobs
    BY <2>3, JobBegins DEF KeyJobs
  <2>5. JobOK(job)
    BY <2>3 DEF KeyJob, JobOK
  <2>6. ~raced' => current = {k}
    <3>1. IsFiniteSet(current)
      <4>1. PICK n \in 0..MaxVersions : versions = 1..n
        BY DEF KeysInv, VersionsOK
      <4>2. IsFiniteSet(versions)
        BY <4>1, FS_Interval, SecretKeysAssumption
      <4> QED BY <4>2, FS_Subset DEF KeysInv, VersionsOK
    <3>2. SUFFICES ASSUME ~raced', NEW l \in current, l # k PROVE FALSE
      OBVIOUS
    <3>3. IsFiniteSet({k, l}) /\ Cardinality({k, l}) = 2
      <4>1. {k, l} = {k} \cup {l} /\ l \notin {k}
        BY <3>2
      <4>2. IsFiniteSet({k}) /\ Cardinality({k}) = 1
        BY FS_Singleton
      <4> HIDE DEF job
      <4>3. IsFiniteSet({k} \cup {l}) /\ Cardinality({k} \cup {l}) = 1 + 1
        BY <4>1, <4>2, FS_AddElement
      <4> QED BY <4>1, <4>3
    <3>4. Cardinality({k, l}) <= Cardinality(current) /\ Cardinality(current) \in Nat
      <4>1. {k, l} \in SUBSET current
        BY <3>2
      <4> QED BY <3>1, <4>1, FS_Subset, FS_CardinalityType
    <3>5. ~(Cardinality(current) > 1)
      BY <1>3, <3>2 DEF BeginReencryption
    <3> QED BY <3>3, <3>4, <3>5
  <2>7. ~raced' => NamesCurrent(job)
    BY <2>6 DEF KeyJob, NamesCurrent
  <2> HIDE DEF job
  <2> QED BY <2>1, <2>2, <2>4, <2>5, <2>7, AloneMoves DEF KeysInv, VersionsOK, job
<1> QED BY <1>1, <1>2, <1>3

(* Steps of a request that read: those of a save, of the count of versions  *)
(* and of a re-encryption.                                                  *)
LEMMA RequestsRead ==
  ASSUME KeysInv, NEW j \in KeyRequests,
         \/ EnsureInitialKey(j) \/ EncryptText(j) \/ CountVersions(j)
         \/ ScanSecrets(j) \/ DecryptNext(j) \/ ReencryptNext(j)
  PROVE  KeysInv'
<1> DEFINE job == keyJob[j]
<1>1. UNCHANGED <<versions, current, stored, raced>>
  BY DEF EnsureInitialKey, EncryptText, CountVersions, ScanSecrets, DecryptNext, ReencryptNext
<1>2. job # None
  BY DEF AtKeyStep, EnsureInitialKey, EncryptText, CountVersions, ScanSecrets, DecryptNext,
         ReencryptNext
<1>3. job \in KeyJobs /\ JobOK(job) /\ (~raced => NamesCurrent(job)) /\ raced \in BOOLEAN
  BY <1>2 DEF KeysInv, VersionsOK
<1>5. /\ stored \in RowSnapshot /\ \E n \in 0..MaxVersions : versions = 1..n
      /\ \A k \in current : k \in versions /\ k \in Nat
  BY DEF KeysInv, VersionsOK
<1> HIDE DEF job
<1>4. job \in KeyJobs
  BY <1>3
<1>6. /\ {"encrypting", "reviving", "counting", "storing", "deactivating"} \subseteq JobSteps
       /\ {"reading", "reencrypting", "writing"} \subseteq JobSteps
  BY DEF JobSteps, Saving, Rotating, Migrating
<1>7. ASSUME NEW new \in KeyJobs, JobOK(new), ~raced => NamesCurrent(new),
             keyJob' = [keyJob EXCEPT ![j] = new]
      PROVE  KeysInv'
  BY <1>1, <1>3, <1>7, AloneMoves
<1>8. ASSUME EndJobOf(j) PROVE KeysInv'
  BY <1>1, <1>3, <1>8, AloneMoves DEF EndJobOf
<1>9. CASE EnsureInitialKey(j)
  <2>1. PICK step \in {"encrypting", "reviving", "counting"} :
          /\ keyJob' = [keyJob EXCEPT ![j] = [job EXCEPT !.at = step]]
          /\ step = "reviving" => versions # {}
    BY <1>9 DEF EnsureInitialKey, MoveTo, job
  <2>2. job.at = "ensuring"
    BY <1>9 DEF EnsureInitialKey, AtKeyStep, job
  <2> DEFINE new == [job EXCEPT !.at = step]
  <2>3. step \in JobSteps
    BY <1>6
  <2>4. new \in KeyJobs /\ new.at = step /\ new.row = job.row /\ new.text = job.text /\ new.todo = job.todo /\ new.rows = job.rows
    BY <1>4, <2>3 DEF KeyJobs
  <2> HIDE DEF new
  <2>5. JobOK(new) /\ NamesCurrent(new)
    BY <1>3, <2>1, <2>2, <2>4 DEF JobOK, NamesCurrent, Saving, Rotating, Migrating
  <2> QED BY <1>7, <2>1, <2>4, <2>5 DEF new
<1>10. CASE EncryptText(j)
  <2>1. CASE current = {}
    BY <1>8, <1>10, <2>1 DEF EncryptText
  <2>2. CASE current # {}
    <3>1. PICK k \in current :
            keyJob' = [keyJob EXCEPT ![j] = [job EXCEPT !.at = "storing", !.key = k]]
      BY <1>10, <2>2 DEF EncryptText, job
    <3>2. job.at = "encrypting" /\ k \in versions /\ k \in Nat
      BY <1>5, <1>10 DEF EncryptText, AtKeyStep, job
    <3> DEFINE new == [job EXCEPT !.at = "storing", !.key = k]
    <3>3. /\ new \in KeyJobs /\ new.at = "storing" /\ new.key = k /\ new.row = job.row
          /\ new.text = job.text /\ new.todo = job.todo /\ new.rows = job.rows
      BY <1>4, <1>6, <3>2 DEF KeyJobs
    <3> HIDE DEF new
    <3>4. JobOK(new) /\ NamesCurrent(new)
      BY <1>3, <3>2, <3>3 DEF JobOK, NamesCurrent, Saving, Rotating, Migrating
    <3> QED BY <1>7, <3>1, <3>3, <3>4 DEF new
  <2> QED BY <2>1, <2>2
<1>11. CASE CountVersions(j)
  <2> DEFINE new == [job EXCEPT !.at = "deactivating", !.key = NextVersion]
  <2>1. keyJob' = [keyJob EXCEPT ![j] = new] /\ job.at = "counting" /\ NextVersion <= MaxVersions
    BY <1>11 DEF CountVersions, AtKeyStep, job
  <2> HIDE DEF new
  <2>2. NextVersion \in 1..MaxVersions /\ \A k \in 1..(NextVersion - 1) : k \in versions
    <3>1. PICK n \in 0..MaxVersions : versions = 1..n
      BY <1>5
    <3>2. n \in Nat
      BY <3>1
    <3>3. NextVersion = n + 1
      BY <3>1, <3>2, Numbered
    <3> QED BY <2>1, <3>1, <3>2, <3>3, SecretKeysAssumption
  <2>3. /\ new \in KeyJobs /\ new.at = "deactivating" /\ new.key = NextVersion /\ new.row = job.row
        /\ new.text = job.text /\ new.todo = job.todo /\ new.rows = job.rows
    <3>1. NextVersion \in Nat
      BY <2>2, SecretKeysAssumption
    <3> QED BY <1>4, <1>6, <3>1 DEF KeyJobs, new
  <2>4. JobOK(new) /\ NamesCurrent(new)
    BY <1>3, <2>1, <2>2, <2>3 DEF JobOK, NamesCurrent, Saving, Rotating, Migrating
  <2> QED BY <1>7, <2>1, <2>3, <2>4
<1>12. CASE ScanSecrets(j)
  <2> DEFINE todo == {s \in SecretNames : stored[s] # None /\ stored[s].version # keyJob[j].version}
             new == [job EXCEPT !.at = "reading", !.rows = stored, !.todo = todo]
  <2>1. keyJob' = [keyJob EXCEPT ![j] = new] /\ job.at = "scanning"
    BY <1>12 DEF ScanSecrets, AtKeyStep, job
  <2>2. /\ new \in KeyJobs /\ new.at = "reading" /\ new.rows = stored /\ new.todo = todo
        /\ new.row = job.row /\ new.version = job.version
    BY <1>5, <1>4, <1>6 DEF KeyJobs
  <2>3. \A s \in todo : stored[s] # None
    OBVIOUS
  <2> HIDE DEF new, todo
  <2>4. JobOK(new)
    BY <1>3, <2>1, <2>2, <2>3 DEF JobOK, Saving, Rotating, Migrating
  <2>5. ~raced => NamesCurrent(new)
    BY <1>3, <2>1, <2>2 DEF NamesCurrent, Migrating
  <2> QED BY <1>7, <2>1, <2>2, <2>4, <2>5
<1>13. CASE DecryptNext(j)
  <2>1. CASE EndJobOf(j)
    BY <1>8, <2>1
  <2>2. ASSUME NEW s \in job.todo,
               keyJob' = [keyJob EXCEPT ![j] =
                 [job EXCEPT !.at = "reencrypting", !.todo = @ \ {s}, !.text = s]]
        PROVE  KeysInv'
    <3> DEFINE new == [job EXCEPT !.at = "reencrypting", !.todo = @ \ {s}, !.text = s]
    <3>1. job.at = "reading"
      BY <1>13 DEF DecryptNext, AtKeyStep, job
    <3>2. s \in SecretNames
      BY <1>3 DEF KeyJobs
    <3>3. job.rows[s] # None
      BY <1>3 DEF JobOK
    <3>4. /\ new \in KeyJobs /\ new.at = "reencrypting" /\ new.rows = job.rows
          /\ new.todo = job.todo \ {s} /\ new.row = job.row /\ new.version = job.version
          /\ new.text = s
      BY <1>4, <1>6, <3>2 DEF KeyJobs
    <3>5. keyJob' = [keyJob EXCEPT ![j] = new]
      BY <2>2
    <3> HIDE DEF new
    <3>6. JobOK(new)
      BY <1>3, <3>1, <3>2, <3>3, <3>4 DEF JobOK, Saving, Rotating, Migrating
    <3>7. ~raced => NamesCurrent(new)
      BY <1>3, <3>1, <3>4 DEF NamesCurrent, Migrating
    <3> QED BY <1>7, <3>4, <3>5, <3>6, <3>7
  <2> QED BY <1>13, <2>1, <2>2 DEF DecryptNext, job
<1>14. CASE ReencryptNext(j)
  <2>1. CASE current = {}
    BY <1>8, <1>14, <2>1 DEF ReencryptNext
  <2>2. CASE current # {}
    <3>1. PICK k \in current :
            keyJob' = [keyJob EXCEPT ![j] = [job EXCEPT !.at = "writing", !.key = k]]
      BY <1>14, <2>2 DEF ReencryptNext, job
    <3>2. job.at = "reencrypting" /\ k \in versions /\ k \in Nat
      BY <1>5, <1>14 DEF ReencryptNext, AtKeyStep, job
    <3> DEFINE new == [job EXCEPT !.at = "writing", !.key = k]
    <3>3. /\ new \in KeyJobs /\ new.at = "writing" /\ new.rows = job.rows /\ new.todo = job.todo
          /\ new.row = job.row /\ new.version = job.version /\ new.text = job.text /\ new.key = k
      BY <1>4, <1>6, <3>2 DEF KeyJobs
    <3> HIDE DEF new
    <3>4. JobOK(new)
      BY <1>3, <3>2, <3>3 DEF JobOK, Saving, Rotating, Migrating
    <3>5. ~raced => NamesCurrent(new)
      BY <1>3, <3>2, <3>3 DEF NamesCurrent, Migrating
    <3> QED BY <1>7, <3>1, <3>3, <3>4, <3>5 DEF new
  <2> QED BY <2>1, <2>2
<1> QED BY <1>9, <1>10, <1>11, <1>12, <1>13, <1>14

(* Steps that change which key is current.                                  *)
LEMMA CurrentChanges ==
  ASSUME KeysInv, NEW j \in KeyRequests, ReviveKey(j) \/ Deactivate(j) \/ InsertVersion(j)
  PROVE  KeysInv'
<1> DEFINE job == keyJob[j]
<1>1. job # None /\ stored' = stored
  BY DEF AtKeyStep, ReviveKey, Deactivate, InsertVersion
<1>2. JobOK(job) /\ raced \in BOOLEAN
  BY <1>1 DEF KeysInv, VersionsOK
<1>3. job \in KeyJobs
  BY <1>1 DEF KeysInv, VersionsOK
<1>4. PICK n \in 0..MaxVersions : versions = 1..n
  BY DEF KeysInv, VersionsOK
<1>5. n \in Nat /\ MaxVersions \in Nat /\ current \subseteq versions /\ stored \in RowSnapshot
  BY <1>4, SecretKeysAssumption DEF KeysInv, VersionsOK
<1>6. ~raced => \A s \in StoredRows : stored'[s] # None => Opens(stored'[s])
  BY <1>1 DEF KeysInv, SecretsOpen
<1>7. "encrypting" \in JobSteps /\ "inserting" \in JobSteps
  BY DEF JobSteps, Saving, Rotating
<1>8. ASSUME raced' = (raced \/ Reencrypting)
      PROVE  raced' \in BOOLEAN /\ (raced => raced') /\ (raced' \/ ~Reencrypting)
  BY <1>2, <1>8
<1>9. ASSUME versions' = versions PROVE KeyJobs' = KeyJobs /\ RowSnapshot' = RowSnapshot
  BY <1>9 DEF KeyJobs, RowSnapshot, StoredRecord
<1> HIDE DEF job
<1>10. CASE ReviveKey(j)
  <2>0. PICK new : new = [job EXCEPT !.at = "encrypting"]
    OBVIOUS
  <2>1. /\ keyJob' = [keyJob EXCEPT ![j] = new] /\ job.at = "reviving" /\ versions' = versions
        /\ current' = current \cup {OldestKey} /\ raced' = (raced \/ Reencrypting)
    BY <1>10, <2>0 DEF ReviveKey, SetCurrent, AtKeyStep, MoveTo, job
  <2>2. /\ new \in KeyJobs /\ new.at = "encrypting" /\ new.row = job.row /\ new.text = job.text
        /\ new.todo = job.todo /\ new.rows = job.rows
    BY <1>3, <1>7, <2>0 DEF KeyJobs
  <2>3. JobOK(new)' /\ NamesCurrent(new)'
    BY <1>2, <2>1, <2>2 DEF JobOK, NamesCurrent, Saving, Rotating, Migrating
  <2>4. OldestKey \in versions
    BY <1>2, <1>4, <1>5, <2>1, Numbered DEF JobOK
  <2>5. current' \subseteq versions'
    BY <1>5, <2>1, <2>4
  <2> QED BY <1>1, <1>4, <1>5, <1>6, <1>8, <1>9, <2>1, <2>2, <2>3, <2>5, OneRequestMoves
<1>11. CASE Deactivate(j)
  <2>0. PICK new : new = [job EXCEPT !.at = "inserting"]
    OBVIOUS
  <2>1. /\ keyJob' = [keyJob EXCEPT ![j] = new] /\ job.at = "deactivating" /\ versions' = versions
        /\ current' = {} /\ raced' = (raced \/ Reencrypting)
    BY <1>11, <2>0 DEF Deactivate, SetCurrent, AtKeyStep, MoveTo, job
  <2>2. /\ new \in KeyJobs /\ new.at = "inserting" /\ new.row = job.row /\ new.text = job.text
        /\ new.todo = job.todo /\ new.rows = job.rows /\ new.key = job.key
    BY <1>3, <1>7, <2>0 DEF KeyJobs
  <2>3. JobOK(new)' /\ NamesCurrent(new)'
    BY <1>2, <2>1, <2>2 DEF JobOK, NamesCurrent, Saving, Rotating, Migrating
  <2> QED BY <1>1, <1>4, <1>5, <1>6, <1>8, <1>9, <2>1, <2>2, <2>3, OneRequestMoves
<1>12. CASE InsertVersion(j)
  <2>1. job.at = "inserting" /\ UNCHANGED stored
    BY <1>12 DEF InsertVersion, AtKeyStep, job
  <2>2. CASE job.key \in versions
    <3>1. EndJobOf(j) /\ UNCHANGED <<versions, current, raced>>
      BY <1>12, <2>2 DEF InsertVersion, job
    <3> QED BY <1>1, <1>2, <3>1, AloneMoves DEF EndJobOf
  <2>3. CASE job.key \notin versions
    <3>1. /\ versions' = versions \cup {job.key} /\ current' = current \cup {job.key}
          /\ raced' = (raced \/ Reencrypting)
          /\ IF job.row = None THEN EndJobOf(j) ELSE MoveTo(j, "encrypting")
      BY <1>12, <2>3 DEF InsertVersion, SetCurrent, job
    <3>2. job.key \in 1..MaxVersions /\ \A k \in 1..(job.key - 1) : k \in versions
      BY <1>2, <2>1 DEF JobOK
    <3>3. job.key = n + 1
      <4>1. job.key \in Nat /\ job.key > n
        BY <1>4, <1>5, <2>3, <3>2
      <4>2. ~(job.key > n + 1)
        <5>1. SUFFICES ASSUME job.key > n + 1 PROVE FALSE
          OBVIOUS
        <5>2. n + 1 \in 1..(job.key - 1)
          BY <1>5, <4>1, <5>1
        <5>3. n + 1 \in versions
          BY <3>2, <5>2
        <5> QED BY <1>4, <1>5, <5>3
      <4> QED BY <1>5, <4>1, <4>2
    <3>4. versions' = 1..(n + 1) /\ n + 1 \in 0..MaxVersions
      BY <1>4, <1>5, <3>1, <3>2, <3>3
    <3>5. versions \subseteq versions' /\ current' \subseteq versions'
      BY <1>5, <3>1
    <3>6. KeyJobs \subseteq KeyJobs' /\ RowSnapshot \subseteq RowSnapshot'
      <4>1. StoredRecord \subseteq StoredRecord'
        BY <3>5 DEF StoredRecord
      <4>2. RowSnapshot \subseteq RowSnapshot'
        BY <4>1 DEF RowSnapshot
      <4> QED BY <4>2 DEF KeyJobs
    <3>7. CASE job.row = None
      <4>1. keyJob' = [keyJob EXCEPT ![j] = None]
        BY <3>1, <3>7 DEF EndJobOf
      <4> QED BY <1>1, <1>5, <1>6, <1>8, <3>1, <3>4, <3>5, <3>6, <4>1, OneRequestMoves
    <3>8. CASE job.row # None
      <4>0. PICK new : new = [job EXCEPT !.at = "encrypting"]
        OBVIOUS
      <4>1. keyJob' = [keyJob EXCEPT ![j] = new]
        BY <3>1, <3>8, <4>0 DEF MoveTo, job
      <4>2. /\ new \in KeyJobs /\ new.at = "encrypting" /\ new.row = job.row
            /\ new.text = job.text /\ new.todo = job.todo /\ new.rows = job.rows
        BY <1>3, <1>7, <4>0 DEF KeyJobs
      <4>3. job.row \in StoredRows
        BY <1>3, <3>8 DEF KeyJobs
      <4>4. JobOK(new)' /\ NamesCurrent(new)'
        BY <1>2, <2>1, <3>8, <4>2, <4>3 DEF JobOK, NamesCurrent, Saving, Rotating, Migrating
      <4> QED BY <1>1, <1>5, <1>6, <1>8, <3>1, <3>4, <3>5, <3>6, <4>1, <4>2, <4>4, OneRequestMoves
    <3> QED BY <3>7, <3>8
  <2> QED BY <2>2, <2>3
<1> QED BY <1>10, <1>11, <1>12

(* Steps that write or remove a row.                                        *)
LEMMA RowsChange ==
  ASSUME KeysInv, NEW j \in KeyRequests, StoreSecret(j) \/ WriteBack(j)
  PROVE  KeysInv'
<1> DEFINE job == keyJob[j]
<1>1. job # None /\ UNCHANGED <<versions, current, raced>>
  BY DEF AtKeyStep, StoreSecret, WriteBack
<1>2. JobOK(job) /\ (~raced => NamesCurrent(job)) /\ raced \in BOOLEAN
  BY <1>1 DEF KeysInv, VersionsOK
<1>3. job \in KeyJobs
  BY <1>1 DEF KeysInv, VersionsOK
<1>4. /\ \E n \in 0..MaxVersions : versions' = 1..n
      /\ current' \subseteq versions' /\ stored \in RowSnapshot
  BY <1>1 DEF KeysInv, VersionsOK
<1>5. ~raced => \A s \in StoredRows : stored[s] # None => Opens(stored[s])
  BY DEF KeysInv, SecretsOpen
<1>6. KeyJobs' = KeyJobs /\ RowSnapshot' = RowSnapshot
  BY <1>1 DEF KeyJobs, RowSnapshot, StoredRecord
<1> HIDE DEF job
<1>7. CASE StoreSecret(j)
  <2> DEFINE row == [text |-> job.text, key |-> job.key, version |-> job.key]
  <2>1. /\ keyJob' = [keyJob EXCEPT ![j] = None] /\ job.at = "storing"
        /\ stored' = [stored EXCEPT ![job.row] = row]
    BY <1>7 DEF StoreSecret, AtKeyStep, Encrypted, EndJobOf, job
  <2>2. job.row \in StoredRows /\ job.text \in Texts /\ job.key \in versions
    BY <1>2, <2>1 DEF JobOK, Saving
  <2>3. row \in StoredRecord /\ Opens(row)
    BY <2>2 DEF StoredRecord, Opens
  <2> HIDE DEF row
  <2>4. stored' \in RowSnapshot'
    BY <1>4, <1>6, <2>1, <2>3 DEF RowSnapshot
  <2>5. ~raced => \A s \in StoredRows : stored'[s] # None => Opens(stored'[s])
    BY <1>4, <1>5, <2>1, <2>3 DEF RowSnapshot
  <2> QED BY <1>1, <1>2, <1>4, <2>1, <2>4, <2>5, OneRequestMoves
<1>8. CASE WriteBack(j)
  <2> DEFINE row == [text |-> job.rows[job.text].text, key |-> job.key, version |-> job.version]
  <2>0. PICK new : new = [job EXCEPT !.at = "reading"]
    OBVIOUS
  <2>1. /\ keyJob' = [keyJob EXCEPT ![j] = new] /\ job.at = "writing"
        /\ stored' = [stored EXCEPT ![job.text] = IF @ = None THEN None ELSE row]
    BY <1>8, <2>0 DEF WriteBack, AtKeyStep, Encrypted, MoveTo, job
  <2>2. /\ job.text \in SecretNames /\ job.rows[job.text] # None
        /\ job.key \in versions /\ job.version \in versions
        /\ (~raced => job.key = job.version)
    BY <1>2, <2>1 DEF JobOK, NamesCurrent, Migrating
  <2>3. job.rows \in RowSnapshot /\ job.text \in StoredRows
    BY <1>3, <2>2 DEF KeyJobs, StoredRows
  <2>4. job.rows[job.text] \in StoredRecord
    <3>1. \A rows \in RowSnapshot, s \in StoredRows : rows[s] \in StoredRecord \/ rows[s] = None
      BY DEF RowSnapshot
    <3> QED BY <2>2, <2>3, <3>1
  <2>5. row \in StoredRecord /\ (~raced => Opens(row))
    <3>1. \A r \in StoredRecord : r.text \in Texts
      BY DEF StoredRecord
    <3>2. job.rows[job.text].text \in Texts
      BY <2>4, <3>1
    <3> QED BY <2>2, <3>2 DEF StoredRecord, Opens
  <2> HIDE DEF row
  <2>6. stored' \in RowSnapshot'
    BY <1>4, <1>6, <2>1, <2>3, <2>5 DEF RowSnapshot
  <2>7. ~raced => \A s \in StoredRows : stored'[s] # None => Opens(stored'[s])
    BY <1>4, <1>5, <2>1, <2>3, <2>5 DEF RowSnapshot
  <2>8. "reading" \in JobSteps
    BY DEF JobSteps, Migrating
  <2>9. /\ new \in KeyJobs /\ new.at = "reading" /\ new.row = job.row /\ new.rows = job.rows
        /\ new.todo = job.todo /\ new.version = job.version
    BY <1>3, <2>0, <2>8 DEF KeyJobs
  <2>10. JobOK(new)' /\ (~raced => NamesCurrent(new)')
    BY <1>1, <1>2, <2>1, <2>9 DEF JobOK, NamesCurrent, Saving, Rotating, Migrating
  <2> QED BY <1>1, <1>2, <1>4, <1>6, <2>1, <2>6, <2>7, <2>9, <2>10, OneRequestMoves
<1> QED BY <1>7, <1>8

LEMMA NothingMoves ==
  ASSUME KeysInv, UNCHANGED <<versions, current, keyJob, raced>>, stored' \in RowSnapshot,
         \A s \in StoredRows : stored'[s] = stored[s] \/ stored'[s] = None
  PROVE  KeysInv'
<1>1. KeyJobs' = KeyJobs /\ RowSnapshot' = RowSnapshot
  BY DEF KeyJobs, RowSnapshot, StoredRecord
<1>2. VersionsOK'
  BY <1>1 DEF KeysInv, VersionsOK
<1>3. \A j \in KeyRequests : keyJob'[j] # None =>
        JobOK(keyJob[j])' /\ (~raced' => NamesCurrent(keyJob[j])')
  BY DEF KeysInv, JobOK, NamesCurrent
<1>4. SecretsOpen'
  BY DEF KeysInv, SecretsOpen
<1> QED BY <1>2, <1>3, <1>4 DEF KeysInv

LEMMA KeysKeep == KeysInv /\ [KeysNext]_keyVars => KeysInv'
<1> SUFFICES ASSUME KeysInv, [KeysNext]_keyVars PROVE KeysInv'
  OBVIOUS
<1>1. ASSUME NEW j \in KeyRequests,
             \/ EnsureInitialKey(j) \/ EncryptText(j) \/ CountVersions(j)
             \/ ScanSecrets(j) \/ DecryptNext(j) \/ ReencryptNext(j)
      PROVE  KeysInv'
  BY <1>1, RequestsRead
<1>2. ASSUME NEW j \in KeyRequests, ReviveKey(j) \/ Deactivate(j) \/ InsertVersion(j)
      PROVE  KeysInv'
  BY <1>2, CurrentChanges
<1>3. ASSUME NEW j \in KeyRequests, StoreSecret(j) \/ WriteBack(j) PROVE KeysInv'
  BY <1>3, RowsChange
<1>4. ASSUME NEW j \in KeyRequests,
             \/ \E s \in StoredRows, text \in Texts : BeginSaveSecret(j, s, text)
             \/ BeginRotation(j) \/ BeginReencryption(j)
      PROVE  KeysInv'
  BY <1>4, RequestsBegin
<1>5. ASSUME NEW s \in StoredRows, DeleteSecret(s) PROVE KeysInv'
  <2>1. stored \in RowSnapshot
    BY DEF KeysInv, VersionsOK
  <2>2. stored' \in RowSnapshot /\ \A r \in StoredRows : stored'[r] = stored[r] \/ stored'[r] = None
    BY <1>5, <2>1 DEF DeleteSecret, RowSnapshot
  <2> QED BY <1>5, <2>2, NothingMoves DEF DeleteSecret
<1>6. CASE UNCHANGED keyVars
  <2>1. stored \in RowSnapshot
    BY DEF KeysInv, VersionsOK
  <2> QED BY <1>6, <2>1, NothingMoves DEF keyVars
<1> QED BY <1>1, <1>2, <1>3, <1>4, <1>5, <1>6 DEF KeysNext

LEMMA KeysAlwaysInv == KeysSpec => []KeysInv
<1> QED BY KeysStart, KeysKeep, PTL DEF KeysSpec

(* Of any number of rows, keys and requests, rows and current keys name     *)
(* versions that exist.                                                     *)
THEOREM KeysTypeCorrect == KeysSpec => []KeysTypeOK
<1>1. KeysInv => KeysTypeOK
  <2> SUFFICES ASSUME KeysInv PROVE KeysTypeOK
    OBVIOUS
  <2>1. current \subseteq versions /\ versions \subseteq 1..MaxVersions
    BY SecretKeysAssumption DEF KeysInv, VersionsOK
  <2>2. \A s \in StoredRows : stored[s] # None => stored[s] \in StoredRecord
    BY DEF KeysInv, VersionsOK, RowSnapshot
  <2> QED BY <2>1, <2>2 DEF KeysTypeOK, StoredRecord
<1> QED BY <1>1, KeysAlwaysInv, PTL

(* Every stored row opens with the key it names, unless the current key is  *)
(* changed under a re-encryption: with any number of rows, keys and of      *)
(* saves, rotations, deletions and re-encryptions side by side.             *)
THEOREM SecretsAlwaysOpen == KeysSpec => []SecretsOpen
<1>1. KeysInv => SecretsOpen
  BY DEF KeysInv
<1> QED BY <1>1, KeysAlwaysInv, PTL

================================================================================
