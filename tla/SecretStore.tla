------------------------------- MODULE SecretStore -------------------------------
(***************************************************************************)
(* Encrypted credentials and the rotation of the root key                  *)
(* (src/features/secrets).  The server and the operator's commands         *)
(* (src/operator/rotate-secret-key.ts) are separate processes on one       *)
(* database: a read outside of a transaction is a step of its own.  An     *)
(* envelope is the key it was made with and the plaintext.                 *)
(***************************************************************************)
EXTENDS Shared

CONSTANTS
  Slot,          \* integration type, record and field of a secret
  Plain,         \* plaintexts
  Key,           \* root keys
  Operator,      \* rotation commands that may run at once
  MaxWrites      \* bound on the revision of a row and on the generation

ASSUME SecretAssumption == None \notin Plain \cup Key \cup Slot /\ MaxWrites \in Nat

VARIABLES
  secrets,       \* encrypted_secrets; revision 0 for no row
  generation,    \* secret_rotation_state
  serverKey,     \* #rootKey of the server's service
  configured,    \* TAPBOARD_SECRET_KEY in the configuration file
  removing,      \* the slot of a removal that is checked but not committed
  rotations,     \* each command: what it has read and prepared
  latest         \* history: the plaintext last accepted for each slot

secretVars == <<secrets, generation, serverKey, configured, removing, rotations, latest>>

NoSecret == [revision |-> 0, key |-> None, plain |-> None]
SecretRow == [revision : Nat, key : Key \cup {None}, plain : Plain \cup {None}]
Table == [Slot -> SecretRow]
Rotation == [phase : {"idle", "begun", "ready"}, old : Key \cup {None},
             new : Key \cup {None}, generation : Nat, snapshot : Table \cup {<<>>}]
NoRotation == [phase |-> "idle", old |-> None, new |-> None, generation |-> 0, snapshot |-> <<>>]

SecretTypeOK ==
  /\ secrets \in Table /\ \A s \in Slot : (secrets[s].revision = 0) <=> (secrets[s] = NoSecret)
  /\ generation \in Nat /\ {serverKey, configured} \subseteq Key \cup {None}
  /\ removing \in Slot \cup {None}
  /\ rotations \in [Operator -> Rotation]
  /\ latest \in [Slot -> Plain \cup {None}]

SecretInit ==
  /\ secrets = [s \in Slot |-> NoSecret] /\ generation = 0
  /\ configured \in Key \cup {None} /\ serverKey = configured
  /\ removing = None
  /\ rotations = [o \in Operator |-> NoRotation]
  /\ latest = [s \in Slot |-> None]

Stored == {s \in Slot : secrets[s] # NoSecret}
Readable(key) == key # None /\ \A s \in Stored : secrets[s].key = key

-----------------------------------------------------------------------------
(* The server.  A secret is stored within the transaction of the change it      *)
(* belongs to; removing one checks the key first and then opens its own.        *)

UsableKey == Readable(serverKey)

Upsert(s, plain) ==
  /\ UsableKey
  /\ secrets' = [secrets EXCEPT ![s] = [revision |-> @.revision + 1, key |-> serverKey,
                                        plain |-> plain]]
  /\ latest' = [latest EXCEPT ![s] = plain]
  /\ UNCHANGED <<generation, serverKey, configured, removing, rotations>>

BeginRemove(s) ==
  /\ removing = None /\ UsableKey /\ removing' = s
  /\ UNCHANGED <<secrets, generation, serverKey, configured, rotations, latest>>
CommitRemove ==
  /\ removing # None /\ removing' = None
  /\ secrets' = [secrets EXCEPT ![removing] = NoSecret]
  /\ latest' = [latest EXCEPT ![removing] = None]
  /\ UNCHANGED <<generation, serverKey, configured, rotations>>

\* revealPrivileged: what the server reads, if it can.
Revealed(s) == IF secrets[s].key = serverKey THEN secrets[s].plain ELSE None

-----------------------------------------------------------------------------
(* rotateRootKey: generation, then snapshot, then one transaction. *)

BeginRotation(o, old, new) ==
  /\ rotations[o] = NoRotation
  /\ rotations' = [rotations EXCEPT ![o] =
       [NoRotation EXCEPT !.phase = "begun", !.old = old, !.new = new,
                          !.generation = generation]]
  /\ UNCHANGED <<secrets, generation, serverKey, configured, removing, latest>>

ReadSnapshot(o) ==
  /\ rotations[o].phase = "begun"
  /\ rotations' = [rotations EXCEPT ![o] =
       IF \A s \in Stored : secrets[s].key = rotations[o].old
       THEN [@ EXCEPT !.phase = "ready", !.snapshot = secrets] ELSE NoRotation]
  /\ UNCHANGED <<secrets, generation, serverKey, configured, removing, latest>>

Reencrypted(row, key) ==
  IF row = NoSecret THEN row ELSE [row EXCEPT !.revision = @ + 1, !.key = key]

\* As a bug: only a change in the number of rows is noticed.
SameRows(r) == {s \in Slot : r.snapshot[s] # NoSecret} = Stored
Undisturbed(r) == generation = r.generation /\ secrets = r.snapshot

CommitRotation(o) ==
  LET r == rotations[o] IN
  /\ r.phase = "ready" /\ rotations' = [rotations EXCEPT ![o] = NoRotation]
  /\ IF Undisturbed(r)
     THEN /\ secrets' = [s \in Slot |-> Reencrypted(r.snapshot[s], r.new)]
          /\ generation' = generation + 1
     ELSE UNCHANGED <<secrets, generation>>
  /\ UNCHANGED <<serverKey, configured, removing, latest>>

AbandonRotation(o) ==
  /\ rotations[o] # NoRotation /\ rotations' = [rotations EXCEPT ![o] = NoRotation]
  /\ UNCHANGED <<secrets, generation, serverKey, configured, removing, latest>>

-----------------------------------------------------------------------------
Configure(key) ==
  /\ configured' = key
  /\ UNCHANGED <<secrets, generation, serverKey, removing, rotations, latest>>
SecretRestart ==
  /\ serverKey' = configured /\ removing' = None
  /\ UNCHANGED <<secrets, generation, configured, rotations, latest>>

SecretNext ==
  \/ \E s \in Slot : secrets[s].revision < MaxWrites /\ \E p \in Plain : Upsert(s, p)
  \/ CommitRemove \/ SecretRestart
  \/ \E s \in Slot : BeginRemove(s)
  \/ \E o \in Operator, old, new \in Key : generation < MaxWrites /\ BeginRotation(o, old, new)
  \/ \E o \in Operator : ReadSnapshot(o) \/ CommitRotation(o) \/ AbandonRotation(o)
  \/ \E key \in Key \cup {None} : Configure(key)

SecretSpec == SecretInit /\ [][SecretNext]_secretVars

-----------------------------------------------------------------------------
\* Whatever edits, removals and rotations overlap, the table holds exactly the
\* plaintexts last accepted: a rotation neither brings an older one back nor
\* loses a newer one, and what the server can read is the latest
\* (rotateRootKey, "Stored credentials changed concurrently").
SecretsKept ==
  \A s \in Slot : secrets[s].plain = latest[s] /\ Revealed(s) \in {None, latest[s]}

\* Every row is encrypted with the same key, also while the server keeps running
\* with its old key next to a rotation: one key opens the whole table
\* (rotateRootKey, #requireUsableRootKey).
OneKey == \A s, t \in Stored : secrets[s].key = secrets[t].key

SecretsSound == SecretsKept /\ OneKey
=============================================================================
