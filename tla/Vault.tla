-------------------------------- MODULE Vault --------------------------------
(***************************************************************************)
(* The keys everything is sealed to, and the copy of the catalog that      *)
(* outlives the database: provisioning and rotation                        *)
(* (routes/encryption-keys.ts, crypto/key-*.ts and the key service of      *)
(* routes/wiring.ts), the KEK an instance is bound to (crypto/kek.ts), the *)
(* recipients a backup seals to and the key a restore opens with           *)
(* (crypto/artifact.ts), the self-backup (jobs/self-backup*.ts) and the    *)
(* recovery from one (scripts/rehearse-recovery.sh).                       *)
(*                                                                         *)
(* A server does one thing at a time here; two servers race as two         *)
(* requests of one server do, since every await is a step of its own.      *)
(***************************************************************************)
EXTENDS Integers, FiniteSets

CONSTANTS
  Servers,    \* processes over one metadata database
  Keks,       \* key-encryption keys an operator may configure
  NoKek,      \* no fingerprint recorded, nothing wrapped
  MaxKeys,    \* bound on generated age identities
  MaxArtifacts, \* bound on the distinct seals in the catalog
  MaxSelf,    \* bound on self-backups
  MaxTroubles \* bound on failing calls, crashes and losses of the database

ASSUME VaultBounds ==
  /\ MaxKeys \in Nat /\ MaxArtifacts \in Nat /\ MaxSelf \in Nat \ {0} /\ MaxTroubles \in Nat
  /\ NoKek \notin Keks

KeyTypes == {"operational", "escrow"}
Own      == 0                   \* the recipient the operator brought along
Ids      == Own..MaxKeys        \* keyId: the fingerprint of a recipient
Copies   == 1..MaxSelf
Rows     == [type : KeyTypes \cup {"none"}, active : BOOLEAN, wrapped : Keks \cup {NoKek}]
NoRow    == [type |-> "none", active |-> FALSE, wrapped |-> NoKek]
Modes    == {"open", "sealed"}
Catalog  == [mode : Modes, keyIds : SUBSET Ids]
Snapshots == [keys : [Ids -> Rows], artifacts : SUBSET Catalog, fingerprint : Keks \cup {NoKek}]
Empty    == [keys |-> [k \in Ids |-> NoRow], artifacts |-> {}, fingerprint |-> NoKek]

VARIABLES
  keys,        \* the EncryptionKey rows
  artifacts,   \* the Artifact rows, by what they are sealed to
  fingerprint, \* AppConfig.kek_fingerprint
  self,        \* SelfBackup.state, "none" without a row
  dump,        \* each self-backup's object: content, recipients, the database in it
  sidecar,     \* self-backups whose self-backup.json is in the bucket
  pc, kek,     \* where each server is, and the KEK it was started with
  wants,       \* the key type a request rotates
  brings,      \* the escrow recipient is the operator's own
  holds,       \* key ids read earlier in the request or job
  copy,        \* the self-backup in hand
  generated,   \* identities generated so far
  troubles     \* failing calls, crashes and losses so far

database == <<keys, artifacts, fingerprint, self>>
bucketV  == <<dump, sidecar>>
locals   == <<kek, wants, brings, holds, copy>>
vars     == <<database, bucketV, pc, locals, generated, troubles>>

SelfPcs == {"due", "context", "dumping", "exited", "record", "sidecar", "succeed", "failed"}
Pcs     == {"down", "booting", "idle", "provision", "rotate", "retire", "seal"} \cup SelfPcs

Init ==
  /\ keys = Empty.keys /\ artifacts = {} /\ fingerprint = NoKek
  /\ self = [c \in Copies |-> "none"]
  /\ dump = [c \in Copies |-> [content |-> "absent", to |-> {}, snap |-> Empty]]
  /\ sidecar = {}
  /\ pc = [s \in Servers |-> "down"] /\ kek = [s \in Servers |-> NoKek]
  /\ wants = [s \in Servers |-> "operational"] /\ brings = [s \in Servers |-> FALSE]
  /\ holds = [s \in Servers |-> {}] /\ copy = [s \in Servers |-> 1]
  /\ generated = 0 /\ troubles = 0

Goto(s, from, to) == pc[s] = from /\ pc' = [pc EXCEPT ![s] = to]
Trouble == troubles < MaxTroubles /\ troubles' = troubles + 1
(* The request or job is over.                                             *)
Over(s) ==
  /\ wants' = [wants EXCEPT ![s] = "operational"] /\ brings' = [brings EXCEPT ![s] = FALSE]
  /\ holds' = [holds EXCEPT ![s] = {}] /\ copy' = [copy EXCEPT ![s] = 1] /\ UNCHANGED kek
Active(t) == {k \in Ids : keys[k].type = t /\ keys[k].active}

-----------------------------------------------------------------------------
(* Boot: assertKekFingerprint, a read and, on a fresh database, an insert. *)

(* The fingerprint is found: it has to be this KEK's, or the boot fails.   *)
BootUnchecked(s) ==
  /\ \E k \in Keks : kek' = [kek EXCEPT ![s] = k]
  /\ Goto(s, "down", IF fingerprint = NoKek THEN "booting" ELSE "idle")
  /\ UNCHANGED <<database, bucketV, wants, brings, holds, copy, generated, troubles>>

Boot(s) ==
  /\ \E k \in Keks :
       /\ fingerprint \in {k, NoKek}
       /\ kek' = [kek EXCEPT ![s] = k]
  /\ Goto(s, "down", IF fingerprint = NoKek THEN "booting" ELSE "idle")
  /\ UNCHANGED <<database, bucketV, wants, brings, holds, copy, generated, troubles>>

(* None was found: the insert wins, or breaks the key and ends the boot.   *)
Initialise(s) ==
  /\ Goto(s, "booting", IF fingerprint = NoKek THEN "idle" ELSE "down")
  /\ fingerprint' = IF fingerprint = NoKek THEN kek[s] ELSE fingerprint
  /\ kek' = IF fingerprint = NoKek THEN kek ELSE [kek EXCEPT ![s] = NoKek]
  /\ UNCHANGED <<keys, artifacts, self, bucketV, wants, brings, holds, copy, generated, troubles>>

-----------------------------------------------------------------------------
(* Provisioning and rotation.                                              *)

(* An identity of the server's making, or the recipient the operator named.*)
Generate == generated' = generated + 1 /\ generated < MaxKeys

(* provisioningBlockers and rotationBlockers: no active key at all; exactly *)
(* one of the type, else not_provisioned or ambiguous_active.              *)
Provisionable == \A t \in KeyTypes : Active(t) = {}
Rotatable(t)  == Cardinality(Active(t)) = 1
(* What the two bodies may ask: only escrow can be the operator's own.     *)
Choices == ({"operational"} \X {FALSE}) \cup ({"escrow"} \X BOOLEAN)

(* POST /encryption-keys, else 409.                                        *)
ProvisionRequest(s) ==
  /\ Goto(s, "idle", "provision")
  /\ Provisionable
  /\ \E c \in Choices : c[1] = "escrow" /\ brings' = [brings EXCEPT ![s] = c[2]]
  /\ UNCHANGED <<database, bucketV, kek, wants, holds, copy, generated, troubles>>

KeyRow(t, w) == [type |-> t, active |-> TRUE, wrapped |-> w]

(* Both rows in one transaction; the operational identity is KEK-wrapped,  *)
(* the escrow identity is in the answer and nowhere else.  A recipient     *)
(* that already has a row breaks the key and undoes both.                  *)
Provision(s) ==
  LET operational == generated + 1
      escrow == IF brings[s] THEN Own ELSE generated + 2
  IN /\ Goto(s, "provision", "idle")
     /\ escrow <= MaxKeys /\ operational <= MaxKeys
     /\ generated' = IF brings[s] THEN operational ELSE escrow
     /\ keys' = IF keys[escrow].type # "none" THEN keys
                ELSE [keys EXCEPT ![operational] = KeyRow("operational", kek[s]),
                                  ![escrow] = KeyRow("escrow", NoKek)]
     /\ Over(s)
     /\ UNCHANGED <<artifacts, fingerprint, self, bucketV, troubles>>

(* POST /encryption-keys/rotate, else 409.                                 *)
RotateRequest(s) ==
  /\ Goto(s, "idle", "rotate")
  /\ \E c \in Choices :
       /\ Rotatable(c[1])
       /\ wants' = [wants EXCEPT ![s] = c[1]] /\ brings' = [brings EXCEPT ![s] = c[2]]
  /\ UNCHANGED <<database, bucketV, kek, holds, copy, generated, troubles>>

(* The service reads the outgoing key again; without one it throws.        *)
FindOutgoing(s) ==
  /\ IF Active(wants[s]) = {}
     THEN Goto(s, "rotate", "idle") /\ Over(s)
     ELSE /\ Goto(s, "rotate", "retire")
          /\ \E k \in Active(wants[s]) : holds' = [holds EXCEPT ![s] = {k}]
          /\ UNCHANGED <<kek, wants, brings, copy>>
  /\ UNCHANGED <<database, bucketV, generated, troubles>>

Retired(k) == [keys[k] EXCEPT !.active = FALSE]

(* Mutant: the retirement is committed before the successor is created.    *)
RetireFirst(s) ==
  LET new == IF brings[s] THEN Own ELSE generated + 1
  IN /\ Goto(s, "retire", "idle")
     /\ IF brings[s] THEN UNCHANGED generated ELSE Generate
     /\ keys' = [k \in Ids |-> IF k \in holds[s] THEN Retired(k)
                               ELSE IF k = new /\ keys[k].type = "none" THEN KeyRow(wants[s], kek[s])
                               ELSE keys[k]]
     /\ Over(s)
     /\ UNCHANGED <<artifacts, fingerprint, self, bucketV, troubles>>

(* One transaction: the predecessor read above is retired if it is still   *)
(* active (the count is not looked at) and keeps its identity, the         *)
(* successor is created; a recipient that already has a row undoes both.   *)
Retire(s) ==
  LET new == IF brings[s] THEN Own ELSE generated + 1
      row == KeyRow(wants[s], IF wants[s] = "operational" THEN kek[s] ELSE NoKek)
  IN /\ Goto(s, "retire", "idle")
     /\ IF brings[s] THEN UNCHANGED generated ELSE Generate
     /\ keys' = IF keys[new].type # "none" THEN keys
                ELSE [k \in Ids |-> IF k \in holds[s] THEN Retired(k)
                                    ELSE IF k = new THEN row ELSE keys[k]]
     /\ Over(s)
     /\ UNCHANGED <<artifacts, fingerprint, self, bucketV, troubles>>

-----------------------------------------------------------------------------
(* A backup's seal.                                                        *)

(* recipientsForSealMode: find() takes the first active row of a type, in  *)
(* no promised order; a type without one throws.                           *)
Recipients(mode) ==
  {{e} \cup o : e \in Active("escrow"),
                o \in IF mode = "sealed" THEN {{}} ELSE {{k} : k \in Active("operational")}}

(* resolveRecipients reads the keys of the organization ...                *)
ResolveRecipients(s) ==
  /\ Goto(s, "idle", "seal")
  /\ Cardinality(artifacts) < MaxArtifacts
  /\ \E mode \in Modes :
       /\ brings' = [brings EXCEPT ![s] = mode = "sealed"]
       /\ \E r \in Recipients(mode) : holds' = [holds EXCEPT ![s] = r]
  /\ UNCHANGED <<database, bucketV, kek, wants, copy, generated, troubles>>

(* ... and the artifact row names them when the upload is over.            *)
PersistSealed(s) ==
  /\ Goto(s, "seal", "idle")
  /\ artifacts' = artifacts \cup
       {[mode |-> IF brings[s] THEN "sealed" ELSE "open", keyIds |-> holds[s]]}
  /\ Over(s)
  /\ UNCHANGED <<keys, fingerprint, self, bucketV, generated, troubles>>

(* resolveDecryptionKeyId over all keys, retired ones too.                 *)
DecryptionKeys(a) == {k \in a.keyIds : keys[k].type = "operational"}
(* readCredential: the envelope opens under the KEK that closed it.        *)
Opens(s, k) == keys[k].wrapped = kek[s]

-----------------------------------------------------------------------------
(* The self-backup.                                                        *)

(* Due, under the lock: a row RUNNING before anything is resolved.         *)
SelfDue(s) ==
  /\ Goto(s, "idle", "due")
  /\ \A o \in Servers : pc[o] \notin SelfPcs
  /\ \E c \in Copies :
       /\ self[c] = "none" /\ dump[c].content = "absent"
       /\ \A d \in Copies : d < c => self[d] # "none" \/ dump[d].content # "absent"
       /\ self' = [self EXCEPT ![c] = "RUNNING"] /\ copy' = [copy EXCEPT ![s] = c]
  /\ UNCHANGED <<keys, artifacts, fingerprint, bucketV, kek, wants, brings, holds, generated, troubles>>

(* selectSelfBackupRecipients: escrow always, operational when there is    *)
(* one; neither is picked in a promised order.                             *)
SelfRecipients ==
  {{e} \cup o : e \in Active("escrow"),
                o \in IF Active("operational") = {} THEN {{}} ELSE {{k} : k \in Active("operational")}}
(* resolveSelfBackupContext: the destination, the keys, the driver.        *)
SelfContext(s) ==
  /\ Goto(s, "due", "dumping")
  /\ \E r \in SelfRecipients : holds' = [holds EXCEPT ![s] = r]
  /\ UNCHANGED <<database, bucketV, kek, wants, brings, copy, generated, troubles>>
SelfContextThrows(s) ==
  /\ Goto(s, "due", "failed")
  /\ IF SelfRecipients = {} THEN UNCHANGED troubles ELSE Trouble
  /\ UNCHANGED <<database, bucketV, locals, generated>>

Database == [keys |-> keys, artifacts |-> artifacts, fingerprint |-> fingerprint]
Hold(c, content, to) == dump' = [dump EXCEPT ![c] = [content |-> content, to |-> to, snap |-> Database]]

(* dumpAndUpload: the dump sees one snapshot; run and put settle together. *)
SelfDump(s) ==
  /\ Goto(s, "dumping", "record")
  /\ Hold(copy[s], "whole", holds[s])
  /\ UNCHANGED <<database, sidecar, locals, generated, troubles>>
(* The tool exits with an error or writes nothing: what was uploaded is    *)
(* deleted, best effort.                                                   *)
SelfDumpFails(s) ==
  /\ Goto(s, "dumping", "exited") /\ Trouble
  /\ Hold(copy[s], "partial", holds[s])
  /\ UNCHANGED <<database, sidecar, locals, generated>>
(* The run or the put rejects: it throws, and deletes nothing.             *)
SelfDumpRejects(s) ==
  /\ Goto(s, "dumping", "failed") /\ Trouble
  /\ \E content \in {"absent", "partial"} : Hold(copy[s], content, holds[s])
  /\ UNCHANGED <<database, sidecar, locals, generated>>
(* Mutant: only a rejected run counts as a failure.                        *)
SelfDiscardNot(s) ==
  /\ Goto(s, "exited", "record")
  /\ UNCHANGED <<database, bucketV, locals, generated, troubles>>
SelfDiscard(s) ==
  /\ Goto(s, "exited", "failed")
  /\ \/ dump' = [dump EXCEPT ![copy[s]].content = "absent"] /\ UNCHANGED troubles
     \/ Trouble /\ UNCHANGED dump
  /\ UNCHANGED <<database, sidecar, locals, generated>>

(* writeManifest: the row learns the key, then the sidecar is put.         *)
SelfRecord(s) ==
  /\ \/ Goto(s, "record", "sidecar") /\ UNCHANGED troubles
     \/ Goto(s, "record", "failed") /\ Trouble
  /\ UNCHANGED <<database, bucketV, locals, generated>>
SelfSidecar(s) ==
  /\ \/ Goto(s, "sidecar", "succeed") /\ sidecar' = sidecar \cup {copy[s]} /\ UNCHANGED troubles
     \/ Goto(s, "sidecar", "failed") /\ Trouble /\ UNCHANGED sidecar
  /\ UNCHANGED <<database, dump, locals, generated>>

EndSelf(s, from, state) ==
  /\ Goto(s, from, "idle")
  /\ self' = [self EXCEPT ![copy[s]] = state]
  /\ Over(s)
  /\ UNCHANGED <<keys, artifacts, fingerprint, bucketV, generated, troubles>>
SelfSucceed(s) == EndSelf(s, "succeed", "SUCCEEDED")
(* The write of SUCCEEDED throws, having taken effect or not: the catch    *)
(* writes FAILED, and nothing is deleted.                                  *)
SelfSucceedThrows(s) ==
  /\ Goto(s, "succeed", "failed") /\ Trouble
  /\ self' \in {self, [self EXCEPT ![copy[s]] = "SUCCEEDED"]}
  /\ UNCHANGED <<keys, artifacts, fingerprint, bucketV, locals, generated>>
SelfFail(s)    == EndSelf(s, "failed", "FAILED")
(* setState(FAILED) throws in its turn and the row stays as it is.         *)
SelfFailThrows(s) ==
  /\ Goto(s, "failed", "idle") /\ Trouble
  /\ Over(s)
  /\ UNCHANGED <<database, bucketV, generated>>

-----------------------------------------------------------------------------
(* What happens to it.                                                     *)

Forget(S) ==
  /\ pc' = [s \in Servers |-> IF s \in S THEN "down" ELSE pc[s]]
  /\ kek' = [s \in Servers |-> IF s \in S THEN NoKek ELSE kek[s]]
  /\ wants' = [s \in Servers |-> IF s \in S THEN "operational" ELSE wants[s]]
  /\ brings' = [s \in Servers |-> s \notin S /\ brings[s]]
  /\ holds' = [s \in Servers |-> IF s \in S THEN {} ELSE holds[s]]
  /\ copy' = [s \in Servers |-> IF s \in S THEN 1 ELSE copy[s]]

(* A crash, or a restart: what it held is gone, every row stays as it is.  *)
Stop(s) ==
  /\ pc[s] # "down" /\ Forget({s}) /\ Trouble
  /\ UNCHANGED <<database, bucketV, generated>>
(* The metadata database is gone, with the servers that used it.           *)
LoseDatabase ==
  /\ fingerprint # NoKek
  /\ keys' = Empty.keys /\ artifacts' = {} /\ fingerprint' = NoKek
  /\ self' = [c \in Copies |-> "none"]
  /\ Forget(Servers) /\ Trouble
  /\ UNCHANGED <<bucketV, generated>>
(* The recovery: into an empty database, by a sidecar, a whole dump and    *)
(* the escrow identity, if the operator kept it (else it never happens).   *)
(* The dump holds its own row, as RUNNING.                                 *)
Recover ==
  /\ fingerprint = NoKek /\ keys = Empty.keys /\ \A s \in Servers : pc[s] = "down"
  /\ \E c \in sidecar :
       /\ dump[c].content = "whole"
       /\ \E k \in dump[c].to : dump[c].snap.keys[k].type = "escrow"
       /\ keys' = dump[c].snap.keys /\ artifacts' = dump[c].snap.artifacts
       /\ fingerprint' = dump[c].snap.fingerprint
       /\ self' = [self EXCEPT ![c] = "RUNNING"]
  /\ UNCHANGED <<bucketV, pc, locals, generated, troubles>>

Serve(s) ==
  \/ Boot(s) \/ Initialise(s) \/ Stop(s)
  \/ ProvisionRequest(s) \/ Provision(s) \/ RotateRequest(s) \/ FindOutgoing(s) \/ Retire(s)
  \/ ResolveRecipients(s) \/ PersistSealed(s)
SelfBackup(s) ==
  \/ SelfDue(s) \/ SelfContext(s) \/ SelfContextThrows(s)
  \/ SelfDump(s) \/ SelfDumpFails(s) \/ SelfDumpRejects(s) \/ SelfDiscard(s)
  \/ SelfRecord(s) \/ SelfSidecar(s) \/ SelfSucceed(s) \/ SelfSucceedThrows(s)
  \/ SelfFail(s) \/ SelfFailThrows(s)

Next == (\E s \in Servers : Serve(s) \/ SelfBackup(s)) \/ LoseDatabase \/ Recover
Spec == Init /\ [][Next]_vars

-----------------------------------------------------------------------------
(* Properties.                                                             *)

TypeOK ==
  /\ keys \in [Ids -> Rows] /\ artifacts \subseteq Catalog /\ fingerprint \in Keks \cup {NoKek}
  /\ self \in [Copies -> {"none", "RUNNING", "SUCCEEDED", "FAILED"}]
  /\ dump \in [Copies -> [content : {"absent", "partial", "whole"}, to : SUBSET Ids, snap : Snapshots]]
  /\ sidecar \subseteq Copies /\ pc \in [Servers -> Pcs] /\ kek \in [Servers -> Keks \cup {NoKek}]
  /\ wants \in [Servers -> KeyTypes] /\ brings \in [Servers -> BOOLEAN]
  /\ holds \in [Servers -> SUBSET Ids] /\ copy \in [Servers -> Copies]
  /\ generated \in 0..MaxKeys /\ troubles \in 0..MaxTroubles

Up(s) == pc[s] \notin {"down", "booting"}

(* Whatever was rotated, restarted or recovered in between, a server that  *)
(* is up can open every artifact of the catalog that is not sealed.        *)
ArtifactsStayOpenable ==
  \A s \in Servers, a \in artifacts :
    Up(s) /\ a.mode = "open" => \E k \in DecryptionKeys(a) : Opens(s, k)

(* A self-backup that reads SUCCEEDED is one a recovery can use: whole,    *)
(* beside its sidecar and sealed to an escrow key, whose identity is not   *)
(* inside the database that was lost.                                      *)
SelfBackupsRecover ==
  \A c \in Copies :
    self[c] = "SUCCEEDED" =>
      /\ dump[c].content = "whole" /\ c \in sidecar
      /\ \E k \in dump[c].to : dump[c].snap.keys[k].type = "escrow"

(* An organization that has keys never loses the active one of a type: a   *)
(* rotation that fails leaves the predecessor in place.                    *)
AlwaysSealable ==
  keys # Empty.keys => \A t \in KeyTypes : Active(t) # {}

(* key-provisioning.ts and the rotation's comment: "Two rotations of the   *)
(* same key at once must not both succeed and leave two active             *)
(* successors."                                                            *)
OneActiveKey == \A t \in KeyTypes : Cardinality(Active(t)) <= 1
=============================================================================
