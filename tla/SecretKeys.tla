------------------------------- MODULE SecretKeys -------------------------------
(***************************************************************************)
(* Stored secrets and the versions of the key that encrypts them            *)
(* (shared/src/utils/encryption.ts, backend/src/routes/secrets.ts and       *)
(* secret-vaults.ts): saving, key rotation and the re-encryption of every   *)
(* secret, as requests that interleave at their statements.                 *)
(*                                                                         *)
(* Which key a text was really encrypted with is kept beside the version    *)
(* its row claims. A row opens when the two agree; AES-GCM refuses          *)
(* otherwise. Key rows are never deleted.                                   *)
(***************************************************************************)
EXTENDS Integers, FiniteSets, NoValue

CONSTANTS
  SecretNames,    \* rows of secrets
  Vaults,         \* rows of secret_vaults: their API key is encrypted the same way
  Texts,          \* what is stored
  KeyRequests,    \* requests under way
  MaxVersions,    \* bound: key versions
  MaxSaves        \* bound: saves and re-encryptions

ASSUME SecretKeysAssumption == MaxVersions \in Nat \ {0} /\ MaxSaves \in Nat

VARIABLES
  versions,   \* encryption_key_versions: the versions there are
  current,    \* those marked current
  stored,     \* stored[s]: the row's text, its key, the version the row claims
  keyJob,     \* keyJob[j]: the request j, or None
  saves,
  raced       \* the current key was not one and the same all through a re-encryption

keyVars == <<versions, current, stored, keyJob, saves, raced>>

StoredRows == SecretNames \cup Vaults

(* A fresh database, or one that has a key and nothing else.                *)
KeysInit ==
  /\ versions \in {{}, {1}} /\ current = versions
  /\ stored = [s \in StoredRows |-> None] /\ keyJob = [j \in KeyRequests |-> None]
  /\ saves = 0 /\ raced = FALSE

AtKeyStep(j, step) == keyJob[j] # None /\ keyJob[j].at = step
MoveTo(j, step) == keyJob' = [keyJob EXCEPT ![j].at = step]
EndJobOf(j) == keyJob' = [keyJob EXCEPT ![j] = None]

KeyJob(step, s, text) ==
  [at |-> step, row |-> s, text |-> text, version |-> 0, key |-> 0,
   todo |-> {}, rows |-> stored]

Reencrypting == \E j \in KeyRequests : keyJob[j] # None /\ keyJob[j].row = None /\ keyJob[j].version > 0

OldestKey == CHOOSE v \in versions : \A w \in versions : v <= w
NewestKey == CHOOSE v \in versions : \A w \in versions : w <= v

(* A change of the current key.                                             *)
SetCurrent(new) == current' = new /\ raced' = (raced \/ Reencrypting)

-------------------------------------------------------------------------------
(* Saving a secret or a vault's API key *)

BeginSaveSecret(j, s, text) ==
  /\ keyJob[j] = None /\ saves < MaxSaves /\ saves' = saves + 1
  /\ keyJob' = [keyJob EXCEPT ![j] = KeyJob("ensuring", s, text)]
  /\ UNCHANGED <<versions, current, stored, raced>>

(* ensureInitialKeyVersion: is there a current key, or any key?             *)
EnsureInitialKey(j) ==
  /\ AtKeyStep(j, "ensuring")
  /\ MoveTo(j, IF current # {} THEN "encrypting"
               ELSE IF versions # {} THEN "reviving" ELSE "counting")
  /\ UNCHANGED <<versions, current, stored, saves, raced>>

(* No key is current: the oldest becomes it again.                          *)
ReviveKey(j) ==
  /\ AtKeyStep(j, "reviving") /\ SetCurrent(current \cup {OldestKey})
  /\ MoveTo(j, "encrypting")
  /\ UNCHANGED <<versions, stored, saves>>

(* encrypt reads the current key, whichever row comes first.                *)
EncryptText(j) ==
  /\ AtKeyStep(j, "encrypting")
  /\ IF current = {} THEN EndJobOf(j)
     ELSE \E k \in current : keyJob' = [keyJob EXCEPT ![j].at = "storing", ![j].key = k]
  /\ UNCHANGED <<versions, current, stored, saves, raced>>

(* Mutation: the row names the newest version there is. *)
EncryptedNewest(text, key, version) == [text |-> text, key |-> key, version |-> NewestKey]

Encrypted(text, key, version) == [text |-> text, key |-> key, version |-> version]

StoreSecret(j) ==
  /\ AtKeyStep(j, "storing")
  /\ LET job == keyJob[j]
     IN stored' = [stored EXCEPT ![job.row] = Encrypted(job.text, job.key, job.key)]
  /\ EndJobOf(j)
  /\ UNCHANGED <<versions, current, saves, raced>>

DeleteSecret(s) ==
  /\ stored[s] # None /\ stored' = [stored EXCEPT ![s] = None]
  /\ UNCHANGED <<versions, current, keyJob, saves, raced>>

-------------------------------------------------------------------------------
(* POST /rotate-key *)

BeginRotation(j) ==
  /\ keyJob[j] = None
  /\ keyJob' = [keyJob EXCEPT ![j] = KeyJob("counting", None, None)]
  /\ UNCHANGED <<versions, current, stored, saves, raced>>

NextVersion == IF versions = {} THEN 1 ELSE NewestKey + 1

CountVersions(j) ==
  /\ AtKeyStep(j, "counting") /\ NextVersion <= MaxVersions
  /\ keyJob' = [keyJob EXCEPT ![j].at = "deactivating", ![j].key = NextVersion]
  /\ UNCHANGED <<versions, current, stored, saves, raced>>

Deactivate(j) ==
  /\ AtKeyStep(j, "deactivating") /\ SetCurrent({}) /\ MoveTo(j, "inserting")
  /\ UNCHANGED <<versions, stored, saves>>

(* Versions are unique: of two rotations that counted the same the second   *)
(* fails, after it has deactivated the first one's key.                     *)
InsertVersion(j) ==
  /\ AtKeyStep(j, "inserting")
  /\ LET k == keyJob[j].key
     IN IF k \in versions THEN EndJobOf(j) /\ UNCHANGED <<versions, current, raced>>
        ELSE /\ versions' = versions \cup {k} /\ SetCurrent(current \cup {k})
             /\ IF keyJob[j].row = None THEN EndJobOf(j) ELSE MoveTo(j, "encrypting")
  /\ UNCHANGED <<stored, saves>>

-------------------------------------------------------------------------------
(* POST /re-encrypt *)

(* The version every row will claim is read once, at the start.             *)
BeginReencryption(j) ==
  /\ keyJob[j] = None /\ saves < MaxSaves /\ saves' = saves + 1
  /\ \E k \in current :
       keyJob' = [keyJob EXCEPT ![j] = [KeyJob("scanning", None, None) EXCEPT !.version = k]]
  /\ raced' = (raced \/ Cardinality(current) > 1)
  /\ UNCHANGED <<versions, current, stored>>

ScanSecrets(j) ==
  /\ AtKeyStep(j, "scanning")
  /\ keyJob' = [keyJob EXCEPT ![j].at = "reading", ![j].rows = stored,
       ![j].todo = {s \in SecretNames : stored[s] # None /\ stored[s].version # keyJob[j].version}]
  /\ UNCHANGED <<versions, current, stored, saves, raced>>

Opens(row) == row.key = row.version

(* A row that does not open ends the request, as having no row left does.   *)
DecryptNext(j) ==
  /\ AtKeyStep(j, "reading")
  /\ \/ keyJob[j].todo = {} /\ EndJobOf(j)
     \/ \E s \in keyJob[j].todo :
          IF Opens(keyJob[j].rows[s])
          THEN keyJob' = [keyJob EXCEPT ![j].at = "reencrypting", ![j].todo = @ \ {s},
                                        ![j].text = s]
          ELSE EndJobOf(j)
  /\ UNCHANGED <<versions, current, stored, saves, raced>>

(* encrypt reads the current key again.                                     *)
ReencryptNext(j) ==
  /\ AtKeyStep(j, "reencrypting")
  /\ IF current = {} THEN EndJobOf(j)
     ELSE \E k \in current : keyJob' = [keyJob EXCEPT ![j].at = "writing", ![j].key = k]
  /\ UNCHANGED <<versions, current, stored, saves, raced>>

WriteBack(j) ==
  /\ AtKeyStep(j, "writing")
  /\ LET job == keyJob[j]
         s == job.text
     IN stored' = [stored EXCEPT ![s] =
          IF @ = None THEN None ELSE Encrypted(job.rows[s].text, job.key, job.version)]
  /\ MoveTo(j, "reading")
  /\ UNCHANGED <<versions, current, saves, raced>>

KeysNext ==
  \/ \E j \in KeyRequests :
       \/ EnsureInitialKey(j) \/ ReviveKey(j) \/ EncryptText(j) \/ StoreSecret(j)
       \/ BeginRotation(j) \/ CountVersions(j) \/ Deactivate(j) \/ InsertVersion(j)
       \/ BeginReencryption(j) \/ ScanSecrets(j) \/ DecryptNext(j) \/ ReencryptNext(j)
       \/ WriteBack(j)
       \/ \E s \in StoredRows, text \in Texts : BeginSaveSecret(j, s, text)
  \/ \E s \in StoredRows : DeleteSecret(s)

KeysSpec == KeysInit /\ [][KeysNext]_keyVars

-------------------------------------------------------------------------------
(* Types of the variables. *)
KeysTypeOK ==
  /\ current \subseteq versions /\ versions \subseteq 1..MaxVersions
  /\ \A s \in StoredRows : stored[s] # None =>
       stored[s].text \in Texts /\ {stored[s].key, stored[s].version} \subseteq versions

(* Every stored secret and vault key opens with the key its row names, as   *)
(* long as each re-encryption has one current key from start to end,        *)
(* whatever else overlaps: rotations with each other, with saves and with   *)
(* the first key, which may leave no key current, or two.                   *)
SecretsOpen ==
  ~raced => \A s \in StoredRows : stored[s] # None => Opens(stored[s])

(* Re-encryption migrates every secret to the new key: each still opens.    *)
MigratedSecretsOpen ==
  \A s \in StoredRows : stored[s] # None => Opens(stored[s])
================================================================================
