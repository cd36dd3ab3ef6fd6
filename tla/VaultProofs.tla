---------------------------- MODULE VaultProofs ----------------------------
(***************************************************************************)
(* Proofs about Vault: for any number of servers, keys, copies and         *)
(* troubles, what the database says of its keys stays usable, and so does  *)
(* every copy of it a recovery may put in its place.                       *)
(***************************************************************************)
EXTENDS Vault, TLAPS

(* A database that can be worked with: with keys, there is an active one   *)
(* of each type; the identities not generated yet have no row; what is     *)
(* wrapped is wrapped under the recorded KEK; an artifact that is not      *)
(* sealed names an operational key.                                        *)
Sealable(ks) ==
  ks = Empty.keys \/ \A t \in KeyTypes : \E k \in Ids : ks[k].type = t /\ ks[k].active
Wrapped(ks, fp) ==
  \A k \in Ids : ks[k].type = "operational" => ks[k].wrapped = fp /\ fp # NoKek
Named(ks, as) ==
  \A a \in as : a.mode = "open" => \E k \in a.keyIds : ks[k].type = "operational"
Fresh(ks) == \A k \in Ids : k > generated => ks[k].type = "none"

DatabaseInv ==
  Sealable(keys) /\ Wrapped(keys, fingerprint) /\ Named(keys, artifacts) /\ Fresh(keys)
CopiesInv ==
  \A c \in Copies :
    /\ Sealable(dump[c].snap.keys)
    /\ Wrapped(dump[c].snap.keys, dump[c].snap.fingerprint)
    /\ Named(dump[c].snap.keys, dump[c].snap.artifacts)
    /\ Fresh(dump[c].snap.keys)

(* A server that is up has the KEK the database is bound to.               *)
BootInv ==
  \A s \in Servers :
    /\ Up(s) => kek[s] = fingerprint /\ fingerprint # NoKek
    /\ pc[s] = "booting" => kek[s] \in Keks

(* What was read earlier is still what it was: a key row never changes its *)
(* type, and goes away with every server that read it.                     *)
HoldInv ==
  \A s \in Servers :
    /\ pc[s] = "retire" => \E k \in Ids : holds[s] = {k} /\ keys[k].type = wants[s]
    /\ pc[s] = "seal" /\ ~brings[s] => \E k \in holds[s] : keys[k].type = "operational"
    /\ pc[s] = "dumping" => \E k \in holds[s] : keys[k].type = "escrow"

(* One self-backup at a time, over a row that is RUNNING until the verdict;*)
(* from "record" on its object is whole and sealed to an escrow key of the *)
(* database in it.                                                         *)
SealedToEscrow(c) == \E k \in dump[c].to : dump[c].snap.keys[k].type = "escrow"
SelfInv ==
  /\ \A s, o \in Servers : pc[s] \in SelfPcs /\ pc[o] \in SelfPcs => s = o
  /\ \A s \in Servers :
       /\ pc[s] \in SelfPcs \ {"failed"} => self[copy[s]] = "RUNNING"
       /\ pc[s] = "failed" => self[copy[s]] \in {"RUNNING", "SUCCEEDED"}
       /\ pc[s] \in {"record", "sidecar", "succeed"} =>
            dump[copy[s]].content = "whole" /\ SealedToEscrow(copy[s])
       /\ pc[s] = "succeed" => copy[s] \in sidecar
  /\ \A c \in Copies : self[c] = "SUCCEEDED" =>
       dump[c].content = "whole" /\ c \in sidecar /\ SealedToEscrow(c)

VaultInv == DatabaseInv /\ CopiesInv /\ BootInv /\ HoldInv /\ SelfInv
IInv == TypeOK /\ VaultInv

-----------------------------------------------------------------------------
(* The types.                                                              *)

LEMMA EmptyKeys == Empty.keys \in [Ids -> Rows] /\ \A k \in Ids : Empty.keys[k] = NoRow
  BY DEF Empty, NoRow, Rows

LEMMA SnapshotTypes ==
  ASSUME TypeOK
  PROVE  /\ Database \in Snapshots
         /\ \A c \in Copies : /\ dump[c].snap \in Snapshots
                             /\ dump[c].to \in SUBSET Ids
                             /\ dump[c].content \in {"absent", "partial", "whole"}
  BY DEF TypeOK, Database, Snapshots

LEMMA TypesInit == Init => TypeOK
  <1> SUFFICES ASSUME Init PROVE TypeOK
    OBVIOUS
  <1>1. Empty \in Snapshots
    BY EmptyKeys DEF Empty, Snapshots
  <1>2. 1 \in Copies /\ 0 \in 0..MaxKeys /\ 0 \in 0..MaxTroubles
    BY VaultBounds DEF Copies
  <1>3. dump \in [Copies -> [content : {"absent", "partial", "whole"}, to : SUBSET Ids, snap : Snapshots]]
    BY <1>1 DEF Init
  <1>4. brings \in [Servers -> BOOLEAN]
    BY DEF Init
  <1> QED
    BY <1>2, <1>3, <1>4, EmptyKeys DEF Init, TypeOK, Pcs, KeyTypes

(* Which steps of a server change which part of the database and bucket.   *)
LEMMA ServerMoves ==
  ASSUME NEW s \in Servers, Serve(s) \/ SelfBackup(s)
  PROVE  /\ <<keys, generated>>' = <<keys, generated>> \/ Provision(s) \/ Retire(s)
         /\ artifacts' = artifacts \/ PersistSealed(s)
         /\ fingerprint' = fingerprint \/ Initialise(s)
         /\ self' = self \/ SelfDue(s) \/ SelfSucceed(s) \/ SelfSucceedThrows(s) \/ SelfFail(s)
         /\ dump' = dump \/ SelfDump(s) \/ SelfDumpFails(s) \/ SelfDumpRejects(s) \/ SelfDiscard(s)
         /\ sidecar' = sidecar \/ (SelfSidecar(s) /\ pc[s] = "sidecar" /\ sidecar' = sidecar \cup {copy[s]})
  <1> USE DEF Serve, SelfBackup, Boot, Initialise, Stop, ProvisionRequest, Provision,
    RotateRequest, FindOutgoing, Retire,
        ResolveRecipients, PersistSealed, SelfDue, SelfContext, SelfContextThrows, SelfDump,
        SelfDumpFails, SelfDumpRejects,
        SelfDiscard, SelfRecord, SelfSidecar, SelfSucceed, SelfSucceedThrows,
        SelfFail, SelfFailThrows, EndSelf,
        Goto, Over, Forget,
        database, bucketV, locals
  <1>1. (keys' = keys /\ generated' = generated) \/ Provision(s) \/ Retire(s)
    OBVIOUS
  <1>2. artifacts' = artifacts \/ PersistSealed(s)
    OBVIOUS
  <1>3. fingerprint' = fingerprint \/ Initialise(s)
    OBVIOUS
  <1>4. self' = self \/ SelfDue(s) \/ SelfSucceed(s) \/ SelfSucceedThrows(s) \/ SelfFail(s)
    OBVIOUS
  <1>5. dump' = dump \/ SelfDump(s) \/ SelfDumpFails(s) \/ SelfDumpRejects(s) \/ SelfDiscard(s)
    OBVIOUS
  <1>6. sidecar' = sidecar \/ (SelfSidecar(s) /\ pc[s] = "sidecar" /\ sidecar' = sidecar \cup {copy[s]})
    OBVIOUS
  <1> HIDE DEF Serve, SelfBackup, Provision, Retire, PersistSealed, Initialise, SelfDue,
    SelfSucceed, SelfSucceedThrows, SelfFail, SelfDump, SelfDumpFails, SelfDumpRejects,
    SelfDiscard, SelfSidecar
  <1> QED
    BY <1>1, <1>2, <1>3, <1>4, <1>5, <1>6

LEMMA ChoiceTypes == \A c \in Choices : c[1] \in KeyTypes /\ c[2] \in BOOLEAN
  BY DEF Choices, KeyTypes

(* What happens to the keys: two fresh rows, or a successor beside a       *)
(* retired row.                                                            *)
LEMMA KeyTypesKept ==
  ASSUME TypeOK, NEW s \in Servers, Provision(s) \/ Retire(s)
  PROVE  keys' \in [Ids -> Rows] /\ generated' \in 0..MaxKeys
  <1>1. /\ generated \in 0..MaxKeys /\ kek[s] \in Keks \cup {NoKek} /\ wants[s] \in KeyTypes
        /\ \A k \in Ids : keys[k] \in Rows
    BY DEF TypeOK
  <1>2. \A t \in KeyTypes, w \in Keks \cup {NoKek} : KeyRow(t, w) \in Rows
    BY DEF KeyRow, Rows
  <1>3. \A k \in Ids : Retired(k) \in Rows
    BY <1>1 DEF Retired, Rows
  <1>4. "operational" \in KeyTypes /\ "escrow" \in KeyTypes
    BY DEF KeyTypes
  <1>5. CASE Provision(s)
    <2>1. generated' \in 0..MaxKeys
      BY <1>1, <1>5, VaultBounds DEF Provision, Own
    <2>2. keys' \in [Ids -> Rows]
      BY <1>1, <1>2, <1>4, <1>5 DEF Provision, TypeOK
    <2> QED
      BY <2>1, <2>2
  <1>6. CASE Retire(s)
    <2>1. generated' \in 0..MaxKeys
      BY <1>1, <1>6, VaultBounds DEF Retire, Generate
    <2>2. keys' \in [Ids -> Rows]
      BY <1>1, <1>2, <1>3, <1>4, <1>6 DEF Retire, TypeOK
    <2> QED
      BY <2>1, <2>2
  <1> QED
    BY <1>5, <1>6

LEMMA DumpTypesKept ==
  ASSUME TypeOK, NEW s \in Servers,
         SelfDump(s) \/ SelfDumpFails(s) \/ SelfDumpRejects(s) \/ SelfDiscard(s)
  PROVE  dump' \in [Copies -> [content : {"absent", "partial", "whole"},
                               to : SUBSET Ids, snap : Snapshots]]
  <1>1. copy[s] \in Copies /\ holds[s] \in SUBSET Ids
    BY DEF TypeOK
  <1>2. ASSUME NEW x \in {"absent", "partial", "whole"}, Hold(copy[s], x, holds[s])
        PROVE  dump' \in [Copies -> [content : {"absent", "partial", "whole"},
                                     to : SUBSET Ids, snap : Snapshots]]
    BY <1>1, <1>2, SnapshotTypes DEF TypeOK, Hold
  <1>3. CASE SelfDump(s) \/ SelfDumpFails(s) \/ SelfDumpRejects(s)
    BY <1>2, <1>3 DEF SelfDump, SelfDumpFails, SelfDumpRejects
  <1>4. CASE SelfDiscard(s)
    <2>1. [dump[copy[s]] EXCEPT !.content = "absent"] \in
            [content : {"absent", "partial", "whole"}, to : SUBSET Ids, snap : Snapshots]
      <3>1. \A r \in [content : {"absent", "partial", "whole"}, to : SUBSET Ids, snap : Snapshots] :
              [r EXCEPT !.content = "absent"] = [content |-> "absent", to |-> r.to, snap |-> r.snap]
        OBVIOUS
      <3>2. dump[copy[s]] \in [content : {"absent", "partial", "whole"}, to : SUBSET Ids, snap : Snapshots]
        BY <1>1 DEF TypeOK
      <3> QED
        BY <3>1, <3>2
    <2>2. dump' = dump \/ dump' = [dump EXCEPT ![copy[s]] = [dump[copy[s]] EXCEPT !.content = "absent"]]
      BY <1>4 DEF SelfDiscard
    <2> QED
      BY <2>1, <2>2 DEF TypeOK
  <1> QED
    BY <1>3, <1>4

LEMMA ServerTypes ==
  ASSUME TypeOK, NEW s \in Servers, Serve(s) \/ SelfBackup(s)
  PROVE  TypeOK'
  <1>1. pc' \in [Servers -> Pcs]
    <2> USE DEF Serve, SelfBackup, Boot, Initialise, Stop, ProvisionRequest, Provision,
      RotateRequest, FindOutgoing, Retire, ResolveRecipients, PersistSealed, SelfDue,
      SelfContext, SelfContextThrows, SelfDump, SelfDumpFails, SelfDumpRejects, SelfDiscard,
      SelfRecord, SelfSidecar, SelfSucceed, SelfSucceedThrows, SelfFail,
        SelfFailThrows, EndSelf, Goto, Over,
      Forget, database, bucketV, locals, TypeOK, Pcs, SelfPcs
    <2>1. CASE Serve(s)
      BY <2>1
    <2>2. CASE SelfBackup(s)
      BY <2>2
    <2> QED
      BY <2>1, <2>2
  <1>2. kek' \in [Servers -> Keks \cup {NoKek}] /\ fingerprint' \in Keks \cup {NoKek}
    BY DEF Serve, SelfBackup, Boot, Initialise, Stop, ProvisionRequest, Provision,
      RotateRequest, FindOutgoing, Retire,
        ResolveRecipients, PersistSealed, SelfDue, SelfContext, SelfContextThrows, SelfDump,
        SelfDumpFails, SelfDumpRejects,
        SelfDiscard, SelfRecord, SelfSidecar, SelfSucceed, SelfSucceedThrows,
        SelfFail, SelfFailThrows, EndSelf,
        Goto, Over, Forget,
        database, bucketV, locals, TypeOK
  <1>3. wants' \in [Servers -> KeyTypes]
    <2>1. CASE RotateRequest(s)
      BY <2>1, ChoiceTypes DEF RotateRequest, TypeOK
    <2>2. CASE ~RotateRequest(s)
      BY <2>2 DEF Serve, SelfBackup, Boot, Initialise, Stop, ProvisionRequest, Provision,
        RotateRequest, FindOutgoing, Retire,
        ResolveRecipients, PersistSealed, SelfDue, SelfContext, SelfContextThrows, SelfDump,
        SelfDumpFails, SelfDumpRejects,
        SelfDiscard, SelfRecord, SelfSidecar, SelfSucceed, SelfSucceedThrows,
        SelfFail, SelfFailThrows, EndSelf,
        Goto, Over, Forget,
        database, bucketV, locals, TypeOK, KeyTypes
    <2> QED
      BY <2>1, <2>2
  <1>4. brings' \in [Servers -> BOOLEAN]
    <2>1. CASE RotateRequest(s) \/ ProvisionRequest(s)
      BY <2>1, ChoiceTypes DEF RotateRequest, ProvisionRequest, TypeOK
    <2>2. CASE ~(RotateRequest(s) \/ ProvisionRequest(s))
      BY <2>2 DEF Serve, SelfBackup, Boot, Initialise, Stop, ProvisionRequest, Provision,
        RotateRequest, FindOutgoing, Retire,
        ResolveRecipients, PersistSealed, SelfDue, SelfContext, SelfContextThrows, SelfDump,
        SelfDumpFails, SelfDumpRejects,
        SelfDiscard, SelfRecord, SelfSidecar, SelfSucceed, SelfSucceedThrows,
        SelfFail, SelfFailThrows, EndSelf,
        Goto, Over, Forget,
        database, bucketV, locals, TypeOK
    <2> QED
      BY <2>1, <2>2
  <1>5. copy' \in [Servers -> Copies]
    BY VaultBounds DEF Serve, SelfBackup, Boot, Initialise, Stop, ProvisionRequest, Provision,
      RotateRequest, FindOutgoing, Retire,
        ResolveRecipients, PersistSealed, SelfDue, SelfContext, SelfContextThrows, SelfDump,
        SelfDumpFails, SelfDumpRejects,
        SelfDiscard, SelfRecord, SelfSidecar, SelfSucceed, SelfSucceedThrows,
        SelfFail, SelfFailThrows, EndSelf,
        Goto, Over, Forget,
        database, bucketV, locals, TypeOK, Copies
  <1>6. holds' \in [Servers -> SUBSET Ids]
    <2>1. CASE FindOutgoing(s)
      BY <2>1 DEF FindOutgoing, Over, TypeOK, Active
    <2>2. CASE ResolveRecipients(s)
      BY <2>2 DEF ResolveRecipients, TypeOK, Active, Recipients
    <2>3. CASE SelfContext(s)
      BY <2>3 DEF SelfContext, TypeOK, Active, SelfRecipients
    <2>4. CASE ~(FindOutgoing(s) \/ ResolveRecipients(s) \/ SelfContext(s))
      BY <2>4 DEF Serve, SelfBackup, Boot, Initialise, Stop, ProvisionRequest, Provision,
        RotateRequest, FindOutgoing, Retire,
        ResolveRecipients, PersistSealed, SelfDue, SelfContext, SelfContextThrows, SelfDump,
        SelfDumpFails, SelfDumpRejects,
        SelfDiscard, SelfRecord, SelfSidecar, SelfSucceed, SelfSucceedThrows,
        SelfFail, SelfFailThrows, EndSelf,
        Goto, Over, Forget,
        database, bucketV, locals, TypeOK
    <2> QED
      BY <2>1, <2>2, <2>3, <2>4
  <1>7. keys' \in [Ids -> Rows] /\ generated' \in 0..MaxKeys
    BY ServerMoves, KeyTypesKept DEF TypeOK
  <1>8. artifacts' \subseteq Catalog
    BY ServerMoves DEF PersistSealed, TypeOK, Catalog, Modes
  <1>9. self' \in [Copies -> {"none", "RUNNING", "SUCCEEDED", "FAILED"}] /\ sidecar' \subseteq Copies
    <2>1. copy[s] \in Copies
      BY DEF TypeOK
    <2>2. self' \in [Copies -> {"none", "RUNNING", "SUCCEEDED", "FAILED"}]
      <3>1. CASE self' = self
        BY <3>1 DEF TypeOK
      <3>2. CASE SelfDue(s)
        BY <3>2 DEF SelfDue, TypeOK
      <3>3. CASE SelfSucceed(s) \/ SelfSucceedThrows(s) \/ SelfFail(s)
        BY <2>1, <3>3 DEF SelfSucceed, SelfSucceedThrows, SelfFail, EndSelf, TypeOK
      <3> QED
        BY <3>1, <3>2, <3>3, ServerMoves
    <2>3. sidecar' \subseteq Copies
      BY <2>1, ServerMoves DEF TypeOK
    <2> QED
      BY <2>2, <2>3
  <1>10. dump' \in [Copies -> [content : {"absent", "partial", "whole"}, to : SUBSET Ids, snap : Snapshots]]
    BY ServerMoves, DumpTypesKept DEF TypeOK
  <1>11. troubles' \in 0..MaxTroubles
    BY VaultBounds DEF Serve, SelfBackup, Boot, Initialise, Stop, ProvisionRequest, Provision,
      RotateRequest, FindOutgoing, Retire,
        ResolveRecipients, PersistSealed, SelfDue, SelfContext, SelfContextThrows, SelfDump,
        SelfDumpFails, SelfDumpRejects,
        SelfDiscard, SelfRecord, SelfSidecar, SelfSucceed, SelfSucceedThrows,
        SelfFail, SelfFailThrows, EndSelf,
        Goto, Over, Forget,
        database, bucketV, locals, TypeOK, Trouble
  <1> QED
    BY <1>1, <1>2, <1>3, <1>4, <1>5, <1>6, <1>7, <1>8, <1>9, <1>10, <1>11 DEF TypeOK

LEMMA WorldTypes ==
  ASSUME TypeOK, LoseDatabase \/ Recover
  PROVE  TypeOK'
  <1> USE DEF LoseDatabase, Recover, Forget, locals, bucketV
  <1>1. pc' \in [Servers -> Pcs] /\ kek' \in [Servers -> Keks \cup {NoKek}]
    BY DEF TypeOK, Pcs
  <1>2. /\ wants' \in [Servers -> KeyTypes] /\ holds' \in [Servers -> SUBSET Ids]
        /\ copy' \in [Servers -> Copies]
    BY VaultBounds DEF TypeOK, KeyTypes, Copies
  <1>3. brings' \in [Servers -> BOOLEAN]
    BY DEF TypeOK
  <1>4. keys' \in [Ids -> Rows] /\ artifacts' \subseteq Catalog /\ fingerprint' \in Keks \cup {NoKek}
    BY EmptyKeys, SnapshotTypes DEF TypeOK, Snapshots
  <1>5. self' \in [Copies -> {"none", "RUNNING", "SUCCEEDED", "FAILED"}]
    BY DEF TypeOK
  <1>6. troubles' \in 0..MaxTroubles
    BY VaultBounds DEF TypeOK, Trouble
  <1> QED
    BY <1>1, <1>2, <1>3, <1>4, <1>5, <1>6 DEF TypeOK

-----------------------------------------------------------------------------
(* The keys: rows are added and retired, never changed or taken away.      *)

LEMMA ProvisionKeys ==
  ASSUME IInv, NEW s \in Servers, Provision(s)
  PROVE  /\ generated' >= generated /\ Fresh(keys)' /\ Sealable(keys') /\ Wrapped(keys', fingerprint)
         /\ \A k \in Ids : keys[k].type # "none" => keys'[k].type = keys[k].type
  <1> DEFINE o == generated + 1
             e == IF brings[s] THEN Own ELSE generated + 2
  <1>1. /\ generated \in 0..MaxKeys /\ keys \in [Ids -> Rows] /\ brings[s] \in BOOLEAN
        /\ kek[s] = fingerprint /\ fingerprint # NoKek
    BY DEF IInv, TypeOK, VaultInv, BootInv, Up, Provision, Goto
  <1>2. /\ o \in Ids /\ e \in Ids /\ o # e /\ e <= generated' /\ o <= generated'
        /\ generated' >= generated /\ generated' \in Int /\ generated \in Int /\ Ids \subseteq Int
    BY <1>1, VaultBounds DEF Provision, Ids, Own
  <1>3. keys[o].type = "none"
    BY <1>1, <1>2 DEF IInv, VaultInv, DatabaseInv, Fresh
  <1>4. CASE keys[e].type # "none"
    <2>1. keys' = keys
      BY <1>4 DEF Provision
    <2>2. Fresh(keys)'
      BY <1>2, <2>1 DEF IInv, VaultInv, DatabaseInv, Fresh
    <2>3. Sealable(keys') /\ Wrapped(keys', fingerprint)
      BY <2>1 DEF IInv, VaultInv, DatabaseInv
    <2> QED
      BY <1>2, <2>1, <2>2, <2>3
  <1>5. CASE keys[e].type = "none"
    <2>1. keys' = [keys EXCEPT ![o] = KeyRow("operational", kek[s]), ![e] = KeyRow("escrow", NoKek)]
      BY <1>5 DEF Provision
    <2>2. /\ keys'[o] = KeyRow("operational", kek[s]) /\ keys'[e] = KeyRow("escrow", NoKek)
          /\ \A k \in Ids \ {o, e} : keys'[k] = keys[k]
      BY <1>1, <1>2, <2>1
    <2> HIDE DEF o, e
    <2>3. Sealable(keys')
      BY <1>2, <2>2 DEF Sealable, KeyRow, KeyTypes
    <2>4. Wrapped(keys', fingerprint)
      BY <1>1, <2>2 DEF Wrapped, KeyRow, IInv, VaultInv, DatabaseInv
    <2>5. Fresh(keys)'
      BY <1>1, <1>2, <2>2 DEF Fresh, IInv, VaultInv, DatabaseInv
    <2>6. \A k \in Ids : keys[k].type # "none" => keys'[k].type = keys[k].type
      BY <1>3, <1>5, <2>2
    <2> QED
      BY <1>2, <2>3, <2>4, <2>5, <2>6
  <1> QED
    BY <1>4, <1>5

LEMMA RetireKeys ==
  ASSUME IInv, NEW s \in Servers, Retire(s)
  PROVE  /\ generated' >= generated /\ Fresh(keys)' /\ Sealable(keys') /\ Wrapped(keys', fingerprint)
         /\ \A k \in Ids : keys[k].type # "none" => keys'[k].type = keys[k].type
  <1> DEFINE new == IF brings[s] THEN Own ELSE generated + 1
             row == KeyRow(wants[s], IF wants[s] = "operational" THEN kek[s] ELSE NoKek)
  <1>1. /\ generated \in 0..MaxKeys /\ keys \in [Ids -> Rows]
        /\ brings[s] \in BOOLEAN /\ wants[s] \in KeyTypes
        /\ kek[s] = fingerprint /\ fingerprint # NoKek
    BY DEF IInv, TypeOK, VaultInv, BootInv, Up, Retire, Goto
  <1>2. /\ new \in Ids /\ new <= generated'
        /\ generated' >= generated /\ generated' \in Int /\ generated \in Int /\ Ids \subseteq Int
    BY <1>1, VaultBounds DEF Retire, Generate, Ids, Own
  <1>3. PICK old \in Ids : holds[s] = {old} /\ keys[old].type = wants[s]
    BY DEF IInv, VaultInv, HoldInv, Retire, Goto
  <1>4. CASE keys[new].type # "none"
    <2>1. keys' = keys
      BY <1>4 DEF Retire
    <2>2. Fresh(keys)'
      BY <1>2, <2>1 DEF IInv, VaultInv, DatabaseInv, Fresh
    <2>3. Sealable(keys') /\ Wrapped(keys', fingerprint)
      BY <2>1 DEF IInv, VaultInv, DatabaseInv
    <2> QED
      BY <1>2, <2>1, <2>2, <2>3
  <1>5. CASE keys[new].type = "none"
    <2>1. keys' = [k \in Ids |-> IF k \in holds[s] THEN Retired(k) ELSE IF k = new THEN row ELSE keys[k]]
      BY <1>5 DEF Retire
    <2>2. new # old
      BY <1>1, <1>3, <1>5 DEF KeyTypes
    <2>3. /\ keys'[old] = Retired(old) /\ keys'[new] = row
          /\ \A k \in Ids \ {old, new} : keys'[k] = keys[k]
      BY <1>2, <1>3, <2>1, <2>2
    <2>4. /\ row.type = wants[s] /\ row.active = TRUE /\ (wants[s] = "operational" => row.wrapped = kek[s])
          /\ Retired(old).type = wants[s] /\ Retired(old).wrapped = keys[old].wrapped
      BY <1>1, <1>3 DEF KeyRow, Retired, Rows
    <2> HIDE DEF new, row
    <2>5. Sealable(keys')
      <3> SUFFICES ASSUME NEW t \in KeyTypes
                   PROVE  \E k \in Ids : keys'[k].type = t /\ keys'[k].active
        BY DEF Sealable
      <3>1. CASE t = wants[s]
        BY <1>2, <2>3, <2>4, <3>1
      <3>2. CASE t # wants[s]
        <4>1. keys # Empty.keys
          BY <1>1, <1>3, EmptyKeys DEF NoRow, KeyTypes
        <4>2. PICK k \in Ids : keys[k].type = t /\ keys[k].active
          BY <4>1 DEF IInv, VaultInv, DatabaseInv, Sealable
        <4>3. k # old /\ k # new
          BY <1>3, <1>5, <3>2, <4>2 DEF KeyTypes
        <4> QED
          BY <2>3, <4>2, <4>3
      <3> QED
        BY <3>1, <3>2
    <2>6. Wrapped(keys', fingerprint)
      BY <1>1, <1>3, <2>3, <2>4 DEF Wrapped, IInv, VaultInv, DatabaseInv
    <2>7. Fresh(keys)'
      <3>1. old <= generated
        BY <1>1, <1>3 DEF Fresh, IInv, VaultInv, DatabaseInv, Ids, Own, KeyTypes
      <3> QED
        BY <1>1, <1>2, <2>3, <3>1 DEF Fresh, IInv, VaultInv, DatabaseInv
    <2>8. \A k \in Ids : keys[k].type # "none" => keys'[k].type = keys[k].type
      BY <1>3, <1>5, <2>3, <2>4
    <2> QED
      BY <1>2, <2>5, <2>6, <2>7, <2>8
  <1> QED
    BY <1>4, <1>5

LEMMA KeysStay ==
  ASSUME IInv, NEW s \in Servers, Serve(s) \/ SelfBackup(s)
  PROVE  /\ generated' >= generated /\ Fresh(keys)' /\ Sealable(keys') /\ Wrapped(keys', fingerprint)
         /\ \A k \in Ids : keys[k].type # "none" => keys'[k].type = keys[k].type
  <1>1. CASE keys' = keys /\ generated' = generated
    BY <1>1 DEF IInv, TypeOK, VaultInv, DatabaseInv, Fresh
  <1> QED
    BY <1>1, ServerMoves, ProvisionKeys, RetireKeys

(* Every database a server leaves, and every copy of one, can be worked on.*)
LEMMA DatabaseStep ==
  ASSUME IInv, NEW s \in Servers, Serve(s) \/ SelfBackup(s)
  PROVE  DatabaseInv'
  <1>0. DatabaseInv /\ TypeOK
    BY DEF IInv, VaultInv
  <1>1. Wrapped(keys', fingerprint')
    <2>1. CASE fingerprint' = fingerprint
      BY <2>1, KeysStay
    <2>2. CASE Initialise(s)
      <3>1. keys' = keys /\ (fingerprint' = fingerprint \/ fingerprint = NoKek)
        BY <2>2 DEF Initialise
      <3> QED
        BY <1>0, <3>1 DEF DatabaseInv, Wrapped
    <2> QED
      BY <2>1, <2>2, ServerMoves
  <1>2. Named(keys', artifacts')
    <2> SUFFICES ASSUME NEW a \in artifacts', a.mode = "open"
                 PROVE  \E k \in a.keyIds : keys'[k].type = "operational"
      BY DEF Named
    <2>1. CASE a \in artifacts
      <3>1. PICK k \in a.keyIds : keys[k].type = "operational"
        BY <1>0, <2>1 DEF DatabaseInv, Named
      <3>2. k \in Ids
        BY <1>0, <2>1, <3>1 DEF TypeOK, Catalog
      <3> QED
        BY <3>1, <3>2, KeysStay
    <2>2. CASE a \notin artifacts
      <3>1. PersistSealed(s)
        BY <2>2, ServerMoves
      <3>2. /\ a = [mode |-> IF brings[s] THEN "sealed" ELSE "open", keyIds |-> holds[s]]
            /\ keys' = keys /\ pc[s] = "seal"
        BY <2>2, <3>1 DEF PersistSealed, Goto
      <3>3. ~brings[s] /\ a.keyIds = holds[s]
        BY <3>2
      <3> QED
        BY <3>2, <3>3 DEF IInv, VaultInv, HoldInv
    <2> QED
      BY <2>1, <2>2
  <1> QED
    BY <1>1, <1>2, KeysStay DEF DatabaseInv

LEMMA CopiesStep ==
  ASSUME IInv, NEW s \in Servers, Serve(s) \/ SelfBackup(s)
  PROVE  CopiesInv'
  <1> SUFFICES ASSUME NEW c \in Copies
               PROVE  /\ Sealable(dump'[c].snap.keys)
                      /\ Wrapped(dump'[c].snap.keys, dump'[c].snap.fingerprint)
                      /\ Named(dump'[c].snap.keys, dump'[c].snap.artifacts)
                      /\ Fresh(dump[c].snap.keys)'
    BY DEF CopiesInv
  <1>0. TypeOK /\ DatabaseInv /\ CopiesInv /\ copy[s] \in Copies
    BY DEF IInv, VaultInv, TypeOK
  <1>1. generated' >= generated /\ generated' \in Int /\ generated \in Int
    BY <1>0, KeysStay, ServerTypes DEF TypeOK
  <1>2. dump'[c].snap = dump[c].snap \/ dump'[c].snap = Database
    <2>1. CASE dump' = dump
      BY <2>1
    <2>2. CASE SelfDump(s) \/ SelfDumpFails(s) \/ SelfDumpRejects(s)
      BY <1>0, <2>2 DEF SelfDump, SelfDumpFails, SelfDumpRejects, Hold, TypeOK
    <2>3. CASE SelfDiscard(s)
      BY <1>0, <2>3 DEF SelfDiscard, TypeOK
    <2> QED
      BY <2>1, <2>2, <2>3, ServerMoves
  <1>3. CASE dump'[c].snap = dump[c].snap
    BY <1>0, <1>1, <1>3 DEF CopiesInv, Fresh, Ids, Own
  <1>4. CASE dump'[c].snap = Database
    <2>1. /\ dump'[c].snap.keys = keys /\ dump'[c].snap.artifacts = artifacts
          /\ dump'[c].snap.fingerprint = fingerprint
      BY <1>4 DEF Database
    <2> QED
      BY <1>0, <1>1, <2>1 DEF DatabaseInv, Fresh, Ids, Own
  <1> QED
    BY <1>2, <1>3, <1>4

-----------------------------------------------------------------------------
(* The servers.  A step of one leaves what the others hold.                *)

LEMMA OthersStay ==
  ASSUME TypeOK, NEW s \in Servers, Serve(s) \/ SelfBackup(s), NEW r \in Servers, r # s
  PROVE  /\ pc'[r] = pc[r] /\ kek'[r] = kek[r] /\ wants'[r] = wants[r]
         /\ brings'[r] = brings[r] /\ holds'[r] = holds[r] /\ copy'[r] = copy[r]
  <1> USE DEF Serve, SelfBackup, Boot, Initialise, Stop, ProvisionRequest, Provision,
    RotateRequest, FindOutgoing, Retire,
        ResolveRecipients, PersistSealed, SelfDue, SelfContext, SelfContextThrows, SelfDump,
        SelfDumpFails, SelfDumpRejects,
        SelfDiscard, SelfRecord, SelfSidecar, SelfSucceed, SelfSucceedThrows,
        SelfFail, SelfFailThrows, EndSelf,
        Goto, Over, Forget,
        database, bucketV, locals, TypeOK
  <1>1. pc'[r] = pc[r] /\ kek'[r] = kek[r]
    OBVIOUS
  <1>2. wants'[r] = wants[r] /\ copy'[r] = copy[r]
    OBVIOUS
  <1>3. brings'[r] = brings[r]
    OBVIOUS
  <1>4. holds'[r] = holds[r]
    OBVIOUS
  <1> HIDE DEF Serve, SelfBackup
  <1> QED
    BY <1>1, <1>2, <1>3, <1>4

LEMMA BootStep ==
  ASSUME IInv, NEW s \in Servers, Serve(s) \/ SelfBackup(s)
  PROVE  BootInv'
  <1> SUFFICES ASSUME NEW r \in Servers
               PROVE  /\ pc'[r] \notin {"down", "booting"} => kek'[r] = fingerprint' /\ fingerprint' # NoKek
                      /\ pc'[r] = "booting" => kek'[r] \in Keks
    BY DEF BootInv, Up
  <1>0. TypeOK /\ BootInv
    BY DEF IInv, VaultInv
  <1>1. CASE Boot(s)
    BY <1>0, <1>1 DEF Boot, Goto, TypeOK, BootInv, Up, database
  <1>2. CASE Initialise(s)
    BY <1>0, <1>2, VaultBounds DEF Initialise, Goto, TypeOK, BootInv, Up
  <1>3. CASE ~Boot(s) /\ ~Initialise(s)
    <2>1. fingerprint' = fingerprint
      BY <1>3, ServerMoves
    <2>2. CASE r # s
      BY <1>0, <2>1, <2>2, OthersStay DEF BootInv, Up
    <2>3. CASE r = s /\ Stop(s)
      BY <1>0, <2>3 DEF Stop, Forget, TypeOK
    <2>4. CASE r = s /\ ~Stop(s)
      <3>1. kek'[s] = kek[s] /\ pc[s] \notin {"down", "booting"} /\ pc'[s] # "booting"
        BY <1>0, <1>3, <2>4 DEF Serve, SelfBackup, Boot, Initialise, Stop, ProvisionRequest,
          Provision, RotateRequest, FindOutgoing, Retire, ResolveRecipients, PersistSealed,
          SelfDue, SelfContext, SelfContextThrows, SelfDump, SelfDumpFails, SelfDumpRejects,
          SelfDiscard, SelfRecord, SelfSidecar, SelfSucceed, SelfSucceedThrows,
        SelfFail, SelfFailThrows, EndSelf,
          Goto, Over, Forget, database, bucketV, locals, TypeOK
      <3> QED
        BY <1>0, <2>1, <2>4, <3>1 DEF BootInv, Up
    <2> QED
      BY <2>2, <2>3, <2>4
  <1> QED
    BY <1>1, <1>2, <1>3

LEMMA HoldStep ==
  ASSUME IInv, NEW s \in Servers, Serve(s) \/ SelfBackup(s)
  PROVE  HoldInv'
  <1> SUFFICES ASSUME NEW r \in Servers
               PROVE  /\ pc'[r] = "retire" => \E k \in Ids : holds'[r] = {k} /\ keys'[k].type = wants'[r]
                      /\ pc'[r] = "seal" /\ ~brings'[r] => \E k \in holds'[r] : keys'[k].type = "operational"
                      /\ pc'[r] = "dumping" => \E k \in holds'[r] : keys'[k].type = "escrow"
    BY DEF HoldInv
  <1>0. TypeOK /\ HoldInv /\ holds[r] \in SUBSET Ids /\ wants[r] \in KeyTypes
    BY DEF IInv, VaultInv, TypeOK
  <1>1. CASE r # s
    <2>1. \A k \in Ids : keys[k].type \in KeyTypes => keys'[k].type = keys[k].type
      BY KeysStay DEF KeyTypes
    <2> QED
      BY <1>0, <1>1, <2>1, OthersStay DEF HoldInv, KeyTypes
  <1>2. CASE r = s /\ FindOutgoing(s)
    <2>1. CASE Active(wants[s]) = {}
      BY <1>0, <1>2, <2>1 DEF FindOutgoing, Goto, TypeOK
    <2>2. CASE Active(wants[s]) # {}
      <3>1. PICK k \in Active(wants[s]) : holds' = [holds EXCEPT ![s] = {k}]
        BY <1>2, <2>2 DEF FindOutgoing
      <3>2. pc'[s] = "retire" /\ wants'[s] = wants[s] /\ keys' = keys
        BY <1>0, <1>2, <2>2 DEF FindOutgoing, Goto, TypeOK, database
      <3> QED
        BY <1>0, <1>2, <3>1, <3>2 DEF Active, TypeOK
    <2> QED
      BY <2>1, <2>2
  <1>3. CASE r = s /\ ResolveRecipients(s)
    <2>1. PICK mode \in Modes : /\ brings' = [brings EXCEPT ![s] = mode = "sealed"]
                               /\ \E q \in Recipients(mode) : holds' = [holds EXCEPT ![s] = q]
      BY <1>3 DEF ResolveRecipients
    <2>2. PICK q \in Recipients(mode) : holds' = [holds EXCEPT ![s] = q]
      BY <2>1
    <2>3. pc'[s] = "seal" /\ keys' = keys /\ holds'[s] = q /\ brings'[s] = (mode = "sealed")
      BY <1>0, <1>3, <2>1, <2>2 DEF ResolveRecipients, Goto, TypeOK, database
    <2>4. mode # "sealed" => \E k \in q : keys[k].type = "operational"
      BY <2>2 DEF Recipients, Active
    <2> QED
      BY <1>3, <2>3, <2>4
  <1>4. CASE r = s /\ SelfContext(s)
    <2>1. PICK q \in SelfRecipients : holds' = [holds EXCEPT ![s] = q]
      BY <1>4 DEF SelfContext
    <2>2. pc'[s] = "dumping" /\ keys' = keys /\ holds'[s] = q
      BY <1>0, <1>4, <2>1 DEF SelfContext, Goto, TypeOK, database
    <2>3. \E k \in q : keys[k].type = "escrow"
      BY <2>1 DEF SelfRecipients, Active
    <2> QED
      BY <1>4, <2>2, <2>3
  <1>5. CASE r = s /\ ~(FindOutgoing(s) \/ ResolveRecipients(s) \/ SelfContext(s))
    <2>1. pc'[s] \notin {"retire", "seal", "dumping"}
      BY <1>0, <1>5 DEF Serve, SelfBackup, Boot, Initialise, Stop, ProvisionRequest, Provision,
        RotateRequest, FindOutgoing, Retire,
        ResolveRecipients, PersistSealed, SelfDue, SelfContext, SelfContextThrows, SelfDump,
        SelfDumpFails, SelfDumpRejects,
        SelfDiscard, SelfRecord, SelfSidecar, SelfSucceed, SelfSucceedThrows,
        SelfFail, SelfFailThrows, EndSelf,
        Goto, Over, Forget,
        database, bucketV, locals, TypeOK
    <2> QED
      BY <1>5, <2>1
  <1> QED
    BY <1>1, <1>2, <1>3, <1>4, <1>5

LEMMA SelfStep ==
  ASSUME IInv, NEW s \in Servers, Serve(s) \/ SelfBackup(s)
  PROVE  SelfInv'
  <1>0. TypeOK /\ SelfInv /\ copy[s] \in Copies
    BY DEF IInv, VaultInv, TypeOK
  <1>1. \A r, o \in Servers : pc'[r] \in SelfPcs /\ pc'[o] \in SelfPcs => r = o
    <2>1. CASE SelfDue(s)
      BY <1>0, <2>1, OthersStay DEF SelfDue
    <2>2. CASE ~SelfDue(s)
      <3>1. pc'[s] \in SelfPcs => pc[s] \in SelfPcs
        BY <1>0, <2>2 DEF Serve, SelfBackup, Boot, Initialise, Stop, ProvisionRequest,
          Provision, RotateRequest, FindOutgoing, Retire, ResolveRecipients, PersistSealed,
          SelfDue, SelfContext, SelfContextThrows, SelfDump, SelfDumpFails, SelfDumpRejects,
          SelfDiscard, SelfRecord, SelfSidecar, SelfSucceed, SelfSucceedThrows,
        SelfFail, SelfFailThrows, EndSelf,
          Goto, Over, Forget, database, bucketV, locals, TypeOK, SelfPcs
      <3> QED
        BY <1>0, <3>1, OthersStay DEF SelfInv
    <2> QED
      BY <2>1, <2>2
  <1>2. pc[s] \notin SelfPcs => dump' = dump /\ (self' = self \/ SelfDue(s))
    <2>1. dump' = dump \/ pc[s] \in SelfPcs
      BY ServerMoves DEF SelfDump, SelfDumpFails, SelfDumpRejects, SelfDiscard, Goto, SelfPcs
    <2>2. self' = self \/ SelfDue(s) \/ pc[s] \in SelfPcs
      BY ServerMoves DEF SelfSucceed, SelfSucceedThrows, SelfFail, EndSelf, Goto, SelfPcs
    <2> QED
      BY <2>1, <2>2
  <1>3. \A c \in Copies : dump'[c] = dump[c] \/ (c = copy[s] /\ self[c] = "RUNNING")
    <2>1. CASE pc[s] \notin SelfPcs
      BY <1>2, <2>1
    <2>2. CASE pc[s] \in SelfPcs
      <3>1. \A c \in Copies : c # copy[s] => dump'[c] = dump[c]
        BY <1>0, ServerMoves DEF SelfDump, SelfDumpFails, SelfDumpRejects, SelfDiscard, Hold,
          TypeOK
      <3>2. dump' = dump \/ pc[s] \in {"dumping", "exited"}
        BY ServerMoves DEF SelfDump, SelfDumpFails, SelfDumpRejects, SelfDiscard, Goto
      <3> QED
        BY <1>0, <2>2, <3>1, <3>2 DEF SelfInv
    <2> QED
      BY <2>1, <2>2
  <1>4. sidecar \subseteq sidecar'
    BY ServerMoves
  <1>5. ASSUME NEW r \in Servers, r # s, pc'[r] \in SelfPcs
        PROVE  /\ copy'[r] = copy[r] /\ pc'[r] = pc[r] /\ dump' = dump /\ self' = self
    <2>1. pc[r] \in SelfPcs /\ pc[s] \notin SelfPcs /\ copy'[r] = copy[r] /\ pc'[r] = pc[r]
      BY <1>0, <1>5, OthersStay DEF SelfInv
    <2>2. ~SelfDue(s)
      BY <2>1 DEF SelfDue
    <2> QED
      BY <1>2, <2>1, <2>2
  <1>6. ASSUME NEW r \in Servers
        PROVE  /\ pc'[r] \in SelfPcs \ {"failed"} => self'[copy'[r]] = "RUNNING"
               /\ pc'[r] = "failed" => self'[copy'[r]] \in {"RUNNING", "SUCCEEDED"}
    <2>1. CASE r # s
      BY <1>0, <1>5, <2>1 DEF SelfInv, SelfPcs
    <2>2. CASE r = s /\ SelfDue(s)
      BY <1>0, <2>2 DEF SelfDue, TypeOK
    <2>3. CASE r = s /\ SelfSucceedThrows(s)
      <3>1. /\ self' = self \/ self' = [self EXCEPT ![copy[s]] = "SUCCEEDED"]
            /\ copy' = copy /\ pc[s] = "succeed" /\ pc'[s] = "failed"
        BY <1>0, <2>3 DEF SelfSucceedThrows, Goto, locals, TypeOK
      <3>2. self[copy[s]] = "RUNNING"
        BY <1>0, <3>1 DEF SelfInv, SelfPcs
      <3> QED
        BY <1>0, <2>3, <3>1, <3>2 DEF TypeOK
    <2>4. CASE r = s /\ ~SelfDue(s) /\ ~SelfSucceedThrows(s)
      <3>1. pc'[s] \in SelfPcs => /\ pc[s] \in SelfPcs /\ pc[s] # "failed"
                                 /\ copy'[s] = copy[s] /\ self' = self
        BY <1>0, <2>4 DEF Serve, SelfBackup, Boot, Initialise, Stop, ProvisionRequest,
          Provision, RotateRequest, FindOutgoing, Retire, ResolveRecipients, PersistSealed,
          SelfDue, SelfContext, SelfContextThrows, SelfDump, SelfDumpFails, SelfDumpRejects,
          SelfDiscard, SelfRecord, SelfSidecar, SelfSucceed, SelfSucceedThrows,
        SelfFail, SelfFailThrows, EndSelf,
          Goto, Over, Forget, database, bucketV, locals, TypeOK, SelfPcs
      <3> QED
        BY <1>0, <2>4, <3>1 DEF SelfInv, SelfPcs
    <2> QED
      BY <2>1, <2>2, <2>3, <2>4
  <1>7. ASSUME NEW r \in Servers, pc'[r] \in {"record", "sidecar", "succeed"}
        PROVE  dump'[copy'[r]].content = "whole" /\ SealedToEscrow(copy[r])'
    <2>1. CASE r # s
      <3>1. copy'[r] = copy[r] /\ pc'[r] = pc[r] /\ dump' = dump
        BY <1>5, <1>7, <2>1 DEF SelfPcs
      <3> QED
        BY <1>0, <1>7, <3>1 DEF SelfInv, SealedToEscrow
    <2>2. CASE r = s /\ SelfDump(s)
      <3>1. /\ copy' = copy /\ dump'[copy[s]].content = "whole"
            /\ dump'[copy[s]].to = holds[s] /\ dump'[copy[s]].snap = Database
        BY <1>0, <2>2 DEF SelfDump, Hold, TypeOK, locals
      <3>2. \E k \in holds[s] : keys[k].type = "escrow"
        BY <2>2 DEF IInv, VaultInv, HoldInv, SelfDump, Goto
      <3>3. Database.keys = keys
        BY DEF Database
      <3> QED
        BY <2>2, <3>1, <3>2, <3>3 DEF SealedToEscrow
    <2>3. CASE r = s /\ ~SelfDump(s)
      <3>1. /\ pc[s] \in {"record", "sidecar"} /\ copy' = copy /\ dump' = dump
        BY <1>0, <1>7, <2>3 DEF Serve, SelfBackup, Boot, Initialise, Stop, ProvisionRequest,
          Provision, RotateRequest, FindOutgoing, Retire, ResolveRecipients, PersistSealed,
          SelfDue, SelfContext, SelfContextThrows, SelfDump, SelfDumpFails, SelfDumpRejects,
          SelfDiscard, SelfRecord, SelfSidecar, SelfSucceed, SelfSucceedThrows,
        SelfFail, SelfFailThrows, EndSelf,
          Goto, Over, Forget, database, bucketV, locals, TypeOK
      <3> QED
        BY <1>0, <2>3, <3>1 DEF SelfInv, SealedToEscrow
    <2> QED
      BY <2>1, <2>2, <2>3
  <1>8. ASSUME NEW r \in Servers, pc'[r] = "succeed"
        PROVE  copy'[r] \in sidecar'
    <2>1. CASE r # s
      BY <1>0, <1>4, <1>5, <1>8, <2>1 DEF SelfInv, SelfPcs
    <2>2. CASE r = s
      <3>1. copy'[s] = copy[s] /\ sidecar' = sidecar \cup {copy[s]}
        BY <1>0, <1>8, <2>2 DEF Serve, SelfBackup, Boot, Initialise, Stop, ProvisionRequest,
          Provision, RotateRequest, FindOutgoing, Retire, ResolveRecipients, PersistSealed,
          SelfDue, SelfContext, SelfContextThrows, SelfDump, SelfDumpFails, SelfDumpRejects,
          SelfDiscard, SelfRecord, SelfSidecar, SelfSucceed, SelfSucceedThrows,
        SelfFail, SelfFailThrows, EndSelf,
          Goto, Over, Forget, database, bucketV, locals, TypeOK
      <3> QED
        BY <2>2, <3>1
    <2> QED
      BY <2>1, <2>2
  <1>9. ASSUME NEW c \in Copies, self'[c] = "SUCCEEDED"
        PROVE  dump'[c].content = "whole" /\ c \in sidecar' /\ SealedToEscrow(c)'
    <2>1. CASE self[c] = "SUCCEEDED"
      <3>1. dump'[c] = dump[c]
        BY <1>3, <2>1
      <3> QED
        BY <1>0, <1>4, <2>1, <3>1 DEF SelfInv, SealedToEscrow
    <2>2. CASE self[c] # "SUCCEEDED"
      <3>1. (SelfSucceed(s) \/ SelfSucceedThrows(s)) /\ c = copy[s]
        BY <1>0, <1>9, <2>2, ServerMoves DEF SelfDue, SelfSucceed, SelfSucceedThrows, SelfFail,
          EndSelf, TypeOK
      <3>2. pc[s] = "succeed" /\ dump' = dump
        BY <3>1 DEF SelfSucceed, SelfSucceedThrows, EndSelf, Goto, bucketV
      <3> QED
        BY <1>0, <1>4, <3>1, <3>2 DEF SelfInv, SealedToEscrow
    <2> QED
      BY <2>1, <2>2
  <1> QED
    BY <1>1, <1>6, <1>7, <1>8, <1>9 DEF SelfInv

-----------------------------------------------------------------------------
(* The database is lost, and a copy takes its place.                       *)

LEMMA LoseStep == IInv /\ LoseDatabase => VaultInv'
  <1> SUFFICES ASSUME IInv, LoseDatabase PROVE VaultInv'
    OBVIOUS
  <1>0. CopiesInv /\ SelfInv /\ TypeOK
    BY DEF IInv, VaultInv
  <1>1. \A s \in Servers : pc'[s] = "down"
    BY DEF LoseDatabase, Forget
  <1>2. DatabaseInv'
    BY EmptyKeys DEF LoseDatabase, DatabaseInv, Sealable, Wrapped, Named, Fresh, NoRow
  <1>3. CopiesInv'
    BY <1>0 DEF LoseDatabase, CopiesInv, Fresh, bucketV
  <1>4. BootInv' /\ HoldInv'
    BY <1>1 DEF BootInv, HoldInv, Up
  <1>5. SelfInv'
    BY <1>1 DEF SelfInv, LoseDatabase, SelfPcs
  <1> QED
    BY <1>2, <1>3, <1>4, <1>5 DEF VaultInv

LEMMA RecoverStep == IInv /\ Recover => VaultInv'
  <1> SUFFICES ASSUME IInv, Recover PROVE VaultInv'
    OBVIOUS
  <1>0. CopiesInv /\ SelfInv /\ TypeOK
    BY DEF IInv, VaultInv
  <1>1. \A s \in Servers : pc'[s] = "down"
    BY DEF Recover
  <1>2. PICK c \in Copies :
          /\ keys' = dump[c].snap.keys /\ artifacts' = dump[c].snap.artifacts
          /\ fingerprint' = dump[c].snap.fingerprint
          /\ self' = [self EXCEPT ![c] = "RUNNING"]
    BY <1>0 DEF Recover, TypeOK
  <1>3. DatabaseInv'
    BY <1>0, <1>2 DEF Recover, CopiesInv, DatabaseInv, Fresh
  <1>4. CopiesInv'
    BY <1>0 DEF Recover, CopiesInv, Fresh, bucketV
  <1>5. BootInv' /\ HoldInv'
    BY <1>1 DEF BootInv, HoldInv, Up
  <1>6. SelfInv'
    BY <1>0, <1>1, <1>2 DEF SelfInv, SealedToEscrow, Recover, SelfPcs, TypeOK, bucketV
  <1> QED
    BY <1>3, <1>4, <1>5, <1>6 DEF VaultInv

LEMMA IInvInit == Init => IInv
  <1> SUFFICES ASSUME Init PROVE VaultInv
    BY TypesInit DEF IInv
  <1>1. DatabaseInv
    BY EmptyKeys DEF Init, DatabaseInv, Sealable, Wrapped, Named, Fresh, NoRow
  <1>2. CopiesInv
    <2>1. Empty.artifacts = {}
      BY DEF Empty
    <2> QED
      BY <2>1, EmptyKeys DEF Init, CopiesInv, Sealable, Wrapped, Named, Fresh, NoRow
  <1>3. BootInv /\ HoldInv /\ SelfInv
    BY DEF Init, BootInv, HoldInv, SelfInv, Up, SelfPcs
  <1> QED
    BY <1>1, <1>2, <1>3 DEF VaultInv

LEMMA IInvInvariant == Spec => []IInv
  <1>1. IInv /\ UNCHANGED vars => IInv'
    BY DEF IInv, TypeOK, VaultInv, DatabaseInv, Sealable, Wrapped, Named, Fresh, CopiesInv,
      BootInv, Up,
      HoldInv, SelfInv, SealedToEscrow, vars, database, bucketV, locals
  <1>2. IInv /\ Next => IInv'
    <2> SUFFICES ASSUME IInv, Next PROVE IInv'
      OBVIOUS
    <2>1. ASSUME NEW s \in Servers, Serve(s) \/ SelfBackup(s) PROVE IInv'
      BY <2>1, ServerTypes, DatabaseStep, CopiesStep, BootStep, HoldStep, SelfStep DEF IInv,
        VaultInv
    <2>2. CASE LoseDatabase \/ Recover
      BY <2>2, WorldTypes, LoseStep, RecoverStep DEF IInv
    <2> QED
      BY <2>1, <2>2 DEF Next
  <1> QED
    BY <1>1, <1>2, IInvInit, PTL DEF Spec

-----------------------------------------------------------------------------
(* The theorems.                                                           *)

(* Every behaviour keeps every variable in its type.                       *)
THEOREM VaultTypes == Spec => []TypeOK
  <1>1. IInv => TypeOK
    BY DEF IInv
  <1> QED
    BY <1>1, IInvInvariant, PTL

(* An instance with keys never loses the active one of a type, over any    *)
(* race of provisioning, rotation, loss and recovery.                      *)
THEOREM KeysStaySealable == Spec => []AlwaysSealable
  <1>1. IInv => AlwaysSealable
    BY DEF IInv, VaultInv, DatabaseInv, Sealable, AlwaysSealable, Active
  <1> QED
    BY <1>1, IInvInvariant, PTL

(* A server that is up opens every artifact that is not sealed.            *)
THEOREM ArtifactsOpen == Spec => []ArtifactsStayOpenable
  <1>1. IInv => ArtifactsStayOpenable
    <2> SUFFICES ASSUME IInv, NEW s \in Servers, NEW a \in artifacts, Up(s), a.mode = "open"
                 PROVE  \E k \in DecryptionKeys(a) : Opens(s, k)
      BY DEF ArtifactsStayOpenable
    <2>1. PICK k \in a.keyIds : keys[k].type = "operational"
      BY DEF IInv, VaultInv, DatabaseInv, Named
    <2>2. k \in Ids
      BY DEF IInv, TypeOK, Catalog
    <2>3. keys[k].wrapped = kek[s]
      BY <2>1, <2>2 DEF IInv, VaultInv, DatabaseInv, Wrapped, BootInv
    <2> QED
      BY <2>1, <2>3 DEF DecryptionKeys, Opens
  <1> QED
    BY <1>1, IInvInvariant, PTL

(* A self-backup that reads SUCCEEDED is one a recovery can use.           *)
THEOREM CopiesRecover == Spec => []SelfBackupsRecover
  <1>1. IInv => SelfBackupsRecover
    BY DEF IInv, VaultInv, SelfInv, SealedToEscrow, SelfBackupsRecover
  <1> QED
    BY <1>1, IInvInvariant, PTL
=============================================================================
