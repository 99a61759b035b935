------------------------------- MODULE Knowledge -------------------------------
(***************************************************************************)
(* Documents, their embedded chunks and the vector stores a retriever       *)
(* searches (backend/src/routes/knowledge.ts, documents.ts,                 *)
(* vector-stores.ts, shared/src/vector-stores, the engine's retriever).     *)
(*                                                                         *)
(* One collection. A document's chunks are one insert, hence all or none.   *)
(* Chunks refer to their document, which cannot be deleted while it has     *)
(* any. Each process has a registry of stores, filled when it starts.       *)
(***************************************************************************)
EXTENDS Integers, FiniteSets, NoValue

CONSTANTS
  Docs,           \* uploads there may be
  StoreNames,     \* names of external stores
  Searched,       \* the name a search asks for before pgvector: 'qdrant'
  Processes, Backend, \* processes that run flows, and the one that takes uploads
  MaxStoreEdits   \* bound: stores created, renamed, deleted, processes restarted

ASSUME KnowledgeAssumption ==
  Searched \in StoreNames /\ Backend \in Processes /\ MaxStoreEdits \in Nat

VARIABLES
  document,    \* rows of documents
  embedded,    \* documents with rows of embeddings
  upload,      \* upload[d]: where its request is, with the stores still to mirror to
  uploaded,    \* uploads answered with 201
  storeRows,   \* names of the rows of vector_stores
  registered,  \* registered[p]: names in p's registry, pgvector aside
  mirror,      \* mirror[n]: documents whose chunks the external store has
  clearing,    \* a deletion of the collection under way: what it still empties
  deleted,     \* documents a deletion has begun with
  storeEdits

knowledgeVars == <<document, embedded, upload, uploaded, storeRows, registered, mirror,
                   clearing, deleted, storeEdits>>
storeVars == <<storeRows, registered, storeEdits>>

KnowledgeInit ==
  /\ document = {} /\ embedded = {} /\ uploaded = {} /\ deleted = {}
  /\ upload = [d \in Docs |-> [at |-> "none", todo |-> {}]]
  /\ \E rows \in SUBSET StoreNames :
       storeRows = rows /\ registered = [p \in Processes |-> rows]
  /\ mirror = [n \in StoreNames |-> {}] /\ clearing = None /\ storeEdits = 0

Uploading(d, at) == upload[d].at = at
UploadAt(d, at, todo) == upload' = [upload EXCEPT ![d] = [at |-> at, todo |-> todo]]

-------------------------------------------------------------------------------
(* POST /knowledge/upload, POST /documents/upload *)

InsertDocument(d) ==
  /\ Uploading(d, "none")
  /\ document' = document \cup {d} /\ UploadAt(d, "embedding", {})
  /\ UNCHANGED <<embedded, uploaded, mirror, clearing, deleted, storeVars>>

(* The embedding service fails: the row stays, without chunks.              *)
EmbeddingFails(d) ==
  /\ Uploading(d, "embedding") /\ UploadAt(d, "failed", {})
  /\ UNCHANGED <<document, embedded, uploaded, mirror, clearing, deleted, storeVars>>

(* The stores to mirror to are those of the process that takes the upload.  *)
(* Mutation: chunks do not refer to a document. *)
InsertChunksUnreferenced(d) ==
  /\ Uploading(d, "embedding")
  /\ embedded' = embedded \cup {d} /\ UploadAt(d, "mirroring", registered[Backend])
  /\ UNCHANGED <<document, uploaded, mirror, clearing, deleted, storeVars>>

InsertChunks(d) ==
  /\ Uploading(d, "embedding")
  /\ IF d \in document
     THEN embedded' = embedded \cup {d} /\ UploadAt(d, "mirroring", registered[Backend])
     ELSE UploadAt(d, "failed", {}) /\ UNCHANGED embedded
  /\ UNCHANGED <<document, uploaded, mirror, clearing, deleted, storeVars>>

(* Best effort: a store that fails is passed over.                          *)
MirrorChunks(d, n) ==
  /\ Uploading(d, "mirroring") /\ n \in upload[d].todo
  /\ UploadAt(d, "mirroring", upload[d].todo \ {n})
  /\ mirror' \in {mirror, [mirror EXCEPT ![n] = @ \cup {d}]}
  /\ UNCHANGED <<document, embedded, uploaded, clearing, deleted, storeVars>>

AnswerUpload(d) ==
  /\ Uploading(d, "mirroring") /\ upload[d].todo = {}
  /\ UploadAt(d, "done", {}) /\ uploaded' = uploaded \cup {d}
  /\ UNCHANGED <<document, embedded, mirror, clearing, deleted, storeVars>>

-------------------------------------------------------------------------------
(* Deletions: chunks first, then the row. External stores are not told. *)

DeleteChunks(d) ==
  /\ d \in document /\ d \notin deleted
  /\ embedded' = embedded \ {d} /\ deleted' = deleted \cup {d}
  /\ UNCHANGED <<document, upload, uploaded, mirror, clearing, storeVars>>

(* Refused while chunks came in between.                                    *)
DeleteDocument(d) ==
  /\ d \in deleted /\ d \in document /\ d \notin embedded
  /\ document' = document \ {d}
  /\ UNCHANGED <<embedded, upload, uploaded, mirror, clearing, deleted, storeVars>>

(* DELETE /knowledge/collections/:name: the documents there are now...      *)
DeleteCollection ==
  /\ clearing = None /\ document # {} /\ clearing' = document
  /\ UNCHANGED <<document, embedded, upload, uploaded, mirror, deleted, storeVars>>

ClearDocument(d) ==
  /\ clearing # None /\ d \in clearing /\ clearing' = clearing \ {d}
  /\ embedded' = embedded \ {d} /\ deleted' = deleted \cup {d}
  /\ UNCHANGED <<document, upload, uploaded, mirror, storeVars>>

(* ...and then every row of the collection, in one statement that fails     *)
(* when any of them has chunks.                                             *)
(* Mutation: the chunks that came in between go with their documents. *)
DropCollectionAndChunks ==
  /\ clearing = {} /\ clearing' = None
  /\ document' = {} /\ embedded' = {} /\ deleted' = deleted \cup (document \ embedded)
  /\ UNCHANGED <<upload, uploaded, mirror, storeVars>>

DropCollection ==
  /\ clearing = {} /\ clearing' = None
  /\ IF document \cap embedded # {} THEN UNCHANGED <<document, deleted>>
     ELSE document' = {} /\ deleted' = deleted \cup document
  /\ UNCHANGED <<embedded, upload, uploaded, mirror, storeVars>>

-------------------------------------------------------------------------------
(* vector-stores.ts *)

EditStores == storeEdits < MaxStoreEdits /\ storeEdits' = storeEdits + 1

documentVars == <<document, embedded, upload, uploaded, mirror, clearing, deleted>>

CreateStore(n) ==
  /\ EditStores /\ n \notin storeRows
  /\ registered' = [registered EXCEPT ![Backend] = @ \cup {n}]
  /\ storeRows' = storeRows \cup {n}
  /\ UNCHANGED documentVars

(* A new name is a name of the row only; a new url is registered under the  *)
(* old one.                                                                 *)
UpdateStore(n, name) ==
  /\ EditStores /\ n \in storeRows /\ name \notin storeRows
  /\ storeRows' = (storeRows \ {n}) \cup {name}
  /\ registered' \in {registered, [registered EXCEPT ![Backend] = @ \cup {n}]}
  /\ UNCHANGED documentVars

DeleteStore(n) ==
  /\ EditStores /\ n \in storeRows
  /\ storeRows' = storeRows \ {n}
  /\ registered' = [registered EXCEPT ![Backend] = @ \ {n}]
  /\ UNCHANGED documentVars

(* initVectorStores, when a process starts. Uploads it had go with it.      *)
InitVectorStores(p) ==
  /\ EditStores /\ registered' = [registered EXCEPT ![p] = storeRows]
  /\ IF p # Backend THEN UNCHANGED <<upload, clearing>>
     ELSE /\ clearing' = None
          /\ upload' = [d \in Docs |-> IF upload[d].at \in {"embedding", "mirroring"}
                          THEN [at |-> "failed", todo |-> {}] ELSE upload[d]]
  /\ UNCHANGED <<document, embedded, uploaded, mirror, deleted, storeRows>>

KnowledgeNext ==
  \/ \E d \in Docs :
       \/ InsertDocument(d) \/ EmbeddingFails(d) \/ InsertChunks(d)
       \/ \E n \in StoreNames : MirrorChunks(d, n)
       \/ AnswerUpload(d) \/ DeleteChunks(d) \/ DeleteDocument(d) \/ ClearDocument(d)
  \/ DeleteCollection \/ DropCollection
  \/ \E n \in StoreNames :
       \/ CreateStore(n) \/ DeleteStore(n)
       \/ \E name \in StoreNames : UpdateStore(n, name)
  \/ \E p \in Processes : InitVectorStores(p)

KnowledgeSpec == KnowledgeInit /\ [][KnowledgeNext]_knowledgeVars

(* The retriever of a run in p: which documents it can find.                *)
SearchSimilar(p) ==
  IF Searched \in registered[p] THEN mirror[Searched] ELSE embedded \cap document

-------------------------------------------------------------------------------
(* Types of the variables. *)
KnowledgeTypeOK ==
  /\ document \cup uploaded \cup deleted \subseteq Docs /\ embedded \subseteq document
  /\ storeRows \subseteq StoreNames /\ storeEdits \in 0..MaxStoreEdits
  /\ \A p \in Processes : registered[p] \subseteq StoreNames
  /\ \A n \in StoreNames : mirror[n] \subseteq Docs

(* A document whose upload was answered, and which nobody began to delete,  *)
(* is found by every process that has no external store under the searched  *)
(* name, whatever uploads, deletions and stores came and went meanwhile.    *)
UploadsAreFound ==
  \A p \in Processes : Searched \notin registered[p] =>
    uploaded \ deleted \subseteq SearchSimilar(p)
================================================================================
