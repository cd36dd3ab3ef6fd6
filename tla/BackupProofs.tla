---------------------------- MODULE BackupProofs ----------------------------
(***************************************************************************)
(* Proofs about BackupJob: for any number of jobs, failing calls, lost     *)
(* answers and crashes, what the row, the job and the bucket say of a      *)
(* backup agrees.                                                          *)
(***************************************************************************)
EXTENDS BackupJob, TLAPS

Clean(b) == \A k \in Keys : bucket[b][k] = "absent"
Kept(b) ==
  /\ bucket[b]["artifact"] = "whole" /\ bucket[b]["manifest"] = "whole"
  /\ bucket[b]["globals"] # "partial"

(* What is true of every job, whoever has it in hand.  A lost answer is    *)
(* the one thing that takes the objects away under a row.                  *)
RunsInv ==
  \A b \in Runs :
    /\ state[b] = "PENDING" => b \notin row /\ Clean(b)
    /\ state[b] = "SUCCEEDED" => b \in row /\ bucket[b]["artifact"] = "whole"
    /\ state[b] = "FAILED" /\ reason[b] = "plain" => b \in row \/ Clean(b)
    /\ b \in row /\ lost = 0 => Kept(b)

BeforeRow == {"claimed", "config", "ca", "ready", "resolve", "reserve", "stage", "artifact",
              "putArtifact", "dropArtifact", "globals", "putGlobals", "dropGlobals", "manifest", "persist"}
NothingYet == {"claimed", "config", "ca", "ready", "resolve", "reserve", "stage", "artifact"}
Unsettled == BeforeRow \cup {"succeed", "caught", "discard", "fail", "failNoted"}

(* Where runBackup is, and what it knows by then.  Keys are recorded       *)
(* before they are written, so what is not recorded is not there; the flag *)
(* is up exactly when the row was seen to be created, and then every       *)
(* object is whole; the job is not reported on before the end.             *)
HandInv ==
  /\ now = NoRun <=> pc \in {"idle", "down"}
  /\ now # NoRun =>
       /\ state[now] # "PENDING"
       /\ \A k \in Keys \ written : bucket[now][k] = "absent"
       /\ persisted => now \in row /\ Kept(now) /\ (globals => bucket[now]["globals"] = "whole")
       /\ now \in row /\ lost = 0 => persisted
UploadInv ==
  /\ pc \in NothingYet => written = {}
  /\ pc \in {"putArtifact", "dropArtifact"} => written = {"artifact"}
  /\ pc \in {"putGlobals", "dropGlobals"} => "globals" \in written
  /\ pc \in {"globals", "putGlobals", "dropGlobals"} => globals
  /\ pc \in {"globals", "putGlobals", "dropGlobals", "manifest", "persist"} =>
       bucket[now]["artifact"] = "whole"
  /\ pc \in {"manifest", "persist"} =>
       IF globals THEN bucket[now]["globals"] = "whole" ELSE "globals" \notin written
  /\ pc = "persist" => bucket[now]["manifest"] = "whole"
FlagInv ==
  /\ pc \in BeforeRow => ~persisted /\ now \notin row
  /\ pc = "succeed" => persisted
  /\ pc \in {"discard", "failNoted"} => ~persisted
  /\ pc = "fail" => persisted \/ written = {}
  /\ pc \in Unsettled => \/ state[now] = "RUNNING"
                         \/ state[now] = "SUCCEEDED" /\ persisted

BackupInv == RunsInv /\ HandInv /\ UploadInv /\ FlagInv
IInv == TypeOK /\ BackupInv

-----------------------------------------------------------------------------
(* What a put and a delete leave in the bucket.                            *)

LEMMA PutEffect ==
  ASSUME TypeOK, now \in Runs, NEW k \in Keys, NEW c \in Content, Put(k, c)
  PROVE  /\ bucket' \in [Runs -> [Keys -> Content]]
         /\ bucket'[now][k] = c
         /\ \A q \in Keys \ {k} : bucket'[now][q] = bucket[now][q]
         /\ \A b \in Runs \ {now} : bucket'[b] = bucket[b]
  <1>1. bucket[now] \in [Keys -> Content]
    BY DEF TypeOK
  <1>2. [bucket[now] EXCEPT ![k] = c] \in [Keys -> Content]
    BY <1>1
  <1> QED
    BY <1>1, <1>2 DEF TypeOK, Put

LEMMA DeleteEffect ==
  ASSUME TypeOK, now \in Runs, NEW ks \in SUBSET Keys, Delete(ks)
  PROVE  /\ bucket' \in [Runs -> [Keys -> Content]]
         /\ \A k \in ks : bucket'[now][k] = "absent"
         /\ \A k \in Keys \ ks : bucket'[now][k] = bucket[now][k]
         /\ \A b \in Runs \ {now} : bucket'[b] = bucket[b]
  <1>1. bucket[now] \in [Keys -> Content]
    BY DEF TypeOK
  <1>2. [k \in Keys |-> IF k \in ks THEN "absent" ELSE bucket[now][k]] \in [Keys -> Content]
    BY <1>1 DEF Content
  <1> QED
    BY <1>1, <1>2 DEF TypeOK, Delete

-----------------------------------------------------------------------------
(* Every step keeps the types and what is known of the job in hand.        *)

LEMMA IInvInit == Init => IInv
  <1> SUFFICES ASSUME Init PROVE IInv
    OBVIOUS
  <1>1. TypeOK
    <2>1. {globals, mongo, persisted, thrown} \subseteq BOOLEAN
      BY DEF Init
    <2>2. bucket \in [Runs -> [Keys -> Content]]
      BY DEF Init, Content
    <2> QED
      BY <2>1, <2>2, BackupBounds DEF Init, TypeOK, JobStates, Reasons, Pcs
  <1>2. BackupInv
    BY DEF Init, BackupInv, RunsInv, Clean, HandInv, UploadInv, FlagInv, BeforeRow, Unsettled
  <1> QED
    BY <1>1, <1>2 DEF IInv

(* The job in hand is one of the runs.                                     *)
LEMMA InHand ==
  ASSUME IInv, pc \notin {"idle", "down"}
  PROVE  now \in Runs
  BY DEF IInv, TypeOK, BackupInv, HandInv

(* The steps that move scratch directories, their slots and whether the    *)
(* engine has globals, as far as the row, the job and the bucket can tell; *)
(* and the others.                                                         *)
Aside ==
  /\ UNCHANGED <<db, bucket, now, written, persisted, lost>>
  /\ \/ globals' = globals
     \/ pc = "ca" /\ pc' \in {"ready", "return"} /\ globals' \in BOOLEAN
  /\ \/ pc' = pc
     \/ pc \in {"config", "ca"} /\ pc' \in {"ca", "ready", "return"}
     \/ pc = "reserve" /\ pc' \in {"stage", "caught"}
     \/ pc \in {"release", "cleanup", "dropCa"} /\ pc' \in {"cleanup", "dropCa", "return"}
Core ==
  \/ Claim \/ EarlyReturn \/ PrepareThrows \/ Prepare \/ SetRunning \/ SetRunningThrows
  \/ Resolve \/ ResolveThrows \/ StageDump \/ UploadStep \/ WriteManifest
  \/ PersistArtifact \/ PersistThrows \/ Succeed \/ SucceedThrows
  \/ Catch \/ DiscardObjects \/ SetFailed \/ SetFailedThrows \/ Return \/ Crash \/ Boot
Scratch ==
  \/ WriteConfig \/ WriteConfigThrows \/ StageCa \/ StageCaThrows
  \/ ReserveStaging \/ ReserveStagingThrows \/ Release \/ RemoveConfig \/ RemoveCa \/ Gc

LEMMA NextSplit == Next => Core \/ Aside
  <1>1. Scratch => Aside
    <2>1. WriteConfig \/ WriteConfigThrows \/ ReserveStaging \/ ReserveStagingThrows => Aside
      BY DEF WriteConfig, WriteConfigThrows, ReserveStaging, ReserveStagingThrows, Aside, Goto, db,
        locals, budget
    <2>2. StageCa \/ StageCaThrows => Aside
      BY DEF StageCa, StageCaThrows, ReleaseConfig, Aside, Goto, Fault, db, volume, budget
    <2>3. Release \/ RemoveConfig \/ RemoveCa \/ Gc => Aside
      BY DEF Release, RemoveConfig, RemoveCa, Gc, ReleaseConfig, Aside, Goto, Fault, db, volume,
        locals, budget
    <2> QED
      BY <2>1, <2>2, <2>3 DEF Scratch
  <1> QED
    BY <1>1 DEF Next, Prologue, Work, Epilogue, Core, Scratch

(* They keep the directories, the slots and the rest in their types.       *)
LEMMA ScratchTypes ==
  ASSUME TypeOK, pc \notin {"idle", "down"} => now \in Runs, Next
  PROVE  /\ dirs' \in SUBSET Runs /\ cas' \in SUBSET Runs
         /\ active' \in SUBSET Runs /\ unremoved' \in SUBSET Runs
         /\ {globals, mongo, persisted, thrown}' \subseteq BOOLEAN
         /\ faults' \in 0..MaxFaults /\ lost' \in 0..MaxLost /\ crashes' \in 0..MaxCrashes
  <1>0. /\ {globals, mongo, persisted, thrown} \subseteq BOOLEAN
        /\ faults \in 0..MaxFaults /\ lost \in 0..MaxLost /\ crashes \in 0..MaxCrashes
        /\ dirs \in SUBSET Runs /\ cas \in SUBSET Runs
        /\ active \in SUBSET Runs /\ unremoved \in SUBSET Runs
    BY DEF TypeOK
  <1> USE DEF Fault, Goto, volume, locals, budget
  <1>1. CASE WriteConfig \/ WriteConfigThrows \/ ReserveStaging \/ ReserveStagingThrows
    BY <1>0, <1>1 DEF WriteConfig, WriteConfigThrows, ReserveStaging, ReserveStagingThrows,
      Reserve, ReserveThrows
  <1>2. CASE StageCa \/ StageCaThrows
    <2> USE <1>0, <1>2 DEF StageCa, StageCaThrows, ReleaseConfig
    <2>1. /\ dirs' \in SUBSET Runs /\ cas' \in SUBSET Runs
          /\ active' \in SUBSET Runs /\ unremoved' \in SUBSET Runs
      OBVIOUS
    <2>2. {globals, mongo, persisted, thrown}' \subseteq BOOLEAN
      OBVIOUS
    <2>3. faults' \in 0..MaxFaults /\ lost' \in 0..MaxLost /\ crashes' \in 0..MaxCrashes
      <3>1. /\ faults' = faults \/ (faults < MaxFaults /\ faults' = faults + 1)
            /\ lost' = lost /\ crashes' = crashes
        OBVIOUS
      <3> QED
        BY <1>0, <3>1, BackupBounds
    <2> QED
      BY <2>1, <2>2, <2>3
  <1>3. CASE Release \/ RemoveConfig \/ RemoveCa \/ Gc
    <2> USE <1>0, <1>3 DEF Release, RemoveConfig, RemoveCa, Gc, ReleaseConfig
    <2>1. /\ dirs' \in SUBSET Runs /\ cas' \in SUBSET Runs
          /\ active' \in SUBSET Runs /\ unremoved' \in SUBSET Runs
      OBVIOUS
    <2>2. {globals, mongo, persisted, thrown}' \subseteq BOOLEAN
      OBVIOUS
    <2>3. faults' \in 0..MaxFaults /\ lost' \in 0..MaxLost /\ crashes' \in 0..MaxCrashes
      BY BackupBounds
    <2> QED
      BY <2>1, <2>2, <2>3
  <1>4. CASE Core
    <2> USE <1>0, <1>4 DEF Core, UploadStep, Claim, EarlyReturn, PrepareThrows, Prepare, SetRunning,
          SetRunningThrows, Resolve, ResolveThrows, StageDump, Upload, UploadDone, RunFailed,
          PutRejected, DropOne, WriteManifest, PersistArtifact, PersistThrows, Succeed,
          SucceedThrows, Catch, DiscardObjects, SetFailed, SetFailedThrows, Return, Crash, Boot
    <2>1. /\ dirs' \in SUBSET Runs /\ cas' \in SUBSET Runs
          /\ active' \in SUBSET Runs /\ unremoved' \in SUBSET Runs
      OBVIOUS
    <2>2. {globals, mongo, persisted, thrown}' \subseteq BOOLEAN
      OBVIOUS
    <2>3. faults' \in 0..MaxFaults /\ lost' \in 0..MaxLost /\ crashes' \in 0..MaxCrashes
      BY BackupBounds
    <2> QED
      BY <2>1, <2>2, <2>3
  <1> QED
    BY <1>1, <1>2, <1>3, <1>4 DEF Next, Prologue, Work, Epilogue, Core

(* What each step does to the bucket: only the job in hand writes, one key *)
(* at a time or all it wrote, only at these places, and never a key that   *)
(* is not recorded afterwards.                                             *)
Writing == {"putArtifact", "dropArtifact", "putGlobals", "dropGlobals", "manifest", "discard"}
Wrote(ks) ==
  /\ bucket' \in [Runs -> [Keys -> Content]]
  /\ \A b \in Runs \ {now} : bucket'[b] = bucket[b]
  /\ \A k \in Keys \ ks : bucket'[now][k] = bucket[now][k]

LEMMA BucketStep ==
  ASSUME IInv, Core \/ Aside
  PROVE  \/ bucket' = bucket /\ (Claim \/ written \subseteq written')
         \/ UploadStep /\ pc \in Writing \ {"manifest", "discard"}
         \/ WriteManifest
         \/ DiscardObjects
  BY DEF db, volume, locals, Core, Aside, Claim, EarlyReturn, PrepareThrows, Prepare,
        SetRunning, SetRunningThrows, Resolve, ResolveThrows, StageDump,
        PersistArtifact, PersistThrows, Succeed, SucceedThrows,
        Catch, SetFailed, SetFailedThrows, Return, Crash, Boot,
        UploadStep, Upload, UploadDone, RunFailed, PutRejected, DropOne, Goto, Writing

(* An upload touches the key it is about.                                  *)
LEMMA UploadStepWrites ==
  ASSUME IInv, UploadStep
  PROVE  /\ pc = "putArtifact" =>
              /\ Wrote({"artifact"})
              /\ pc' \in {"globals", "manifest"} => bucket'[now]["artifact"] = "whole"
         /\ pc = "putGlobals" =>
              /\ Wrote({"globals"})
              /\ pc' = "manifest" => bucket'[now]["globals"] = "whole"
         /\ pc = "dropArtifact" =>
              /\ Wrote({"artifact"})
              /\ "artifact" \in written' \/ bucket'[now]["artifact"] = "absent"
         /\ pc = "dropGlobals" =>
              /\ Wrote({"globals"})
              /\ "globals" \in written' \/ bucket'[now]["globals"] = "absent"
  <1>0. TypeOK /\ now \in Runs /\ "artifact" \in Keys /\ "globals" \in Keys
    BY InHand DEF IInv, UploadStep, Upload, UploadDone, RunFailed, PutRejected, DropOne, Goto,
      Keys
  <1>1. ASSUME NEW k \in Keys, NEW c \in Content, Put(k, c)
        PROVE  Wrote({k}) /\ bucket'[now][k] = c
    BY <1>0, <1>1, PutEffect DEF Wrote
  <1>2. ASSUME NEW k \in Keys, Delete({k})
        PROVE  Wrote({k}) /\ bucket'[now][k] = "absent"
    <2>1. {k} \in SUBSET Keys
      OBVIOUS
    <2> QED BY <1>0, <1>2, <2>1, DeleteEffect DEF Wrote
  <1>3. bucket' = bucket => Wrote({"artifact"}) /\ Wrote({"globals"})
    BY <1>0 DEF Wrote, TypeOK
  <1>4. CASE pc = "putArtifact"
    BY <1>0, <1>1, <1>4 DEF UploadStep, Upload, UploadDone, RunFailed, PutRejected, DropOne,
      Goto, Content
  <1>5. CASE pc = "putGlobals"
    BY <1>0, <1>1, <1>5 DEF UploadStep, Upload, UploadDone, RunFailed, PutRejected, DropOne,
      Goto, Content
  <1>6. CASE pc = "dropArtifact"
    BY <1>0, <1>2, <1>3, <1>6, InHand DEF UploadStep, Upload, UploadDone, RunFailed,
      PutRejected, DropOne, Goto, IInv, BackupInv, UploadInv
  <1>7. CASE pc = "dropGlobals"
    BY <1>0, <1>2, <1>3, <1>7, InHand DEF UploadStep, Upload, UploadDone, RunFailed,
      PutRejected, DropOne, Goto, IInv, BackupInv, UploadInv
  <1> QED
    BY <1>4, <1>5, <1>6, <1>7

(* writeManifest touches the manifest, discardObjects what was recorded.   *)
LEMMA ManifestWrites ==
  ASSUME IInv, WriteManifest
  PROVE  Wrote({"manifest"}) /\ (pc' = "persist" => bucket'[now]["manifest"] = "whole")
  <1>0. TypeOK /\ now \in Runs /\ "manifest" \in Keys
    BY InHand DEF IInv, WriteManifest, Keys
  <1>1. PICK c \in Content : Put("manifest", c) /\ (pc' = "persist" => c = "whole")
    BY DEF WriteManifest, Content
  <1> QED
    BY <1>0, <1>1, PutEffect DEF Wrote

LEMMA DiscardWrites ==
  ASSUME IInv, DiscardObjects
  PROVE  Wrote(written) /\ (written' = {} => \A k \in written : bucket'[now][k] = "absent")
  <1>0. TypeOK /\ now \in Runs
    BY InHand DEF IInv, DiscardObjects, Goto
  <1>1. PICK ks \in SUBSET written : Delete(ks) /\ (written' = {} => ks = written)
    BY DEF DiscardObjects
  <1>2. ks \in SUBSET Keys
    BY <1>0 DEF TypeOK
  <1> QED
    BY <1>0, <1>1, <1>2, DeleteEffect DEF Wrote

(* Who changes what runBackup knows of its row and of its engine.           *)
LEMMA FlagMoves ==
  ASSUME Core \/ Aside
  PROVE  /\ \/ persisted' = persisted
            \/ Claim /\ persisted' = FALSE
            \/ PersistArtifact /\ persisted' = TRUE
         /\ globals' = globals \/ Claim \/ (Aside /\ pc = "ca" /\ persisted' = persisted)
         /\ row' = row \/ (row' = row \cup {now} /\ now' = now)
         /\ now' = now \/ Claim \/ now' = NoRun
         /\ PersistArtifact => pc = "persist" /\ now' = now /\ now \in row' /\ globals' = globals
  <1> USE DEF Core, Aside, UploadStep, Claim, EarlyReturn, PrepareThrows, Prepare, SetRunning,
        SetRunningThrows, Resolve, ResolveThrows, StageDump, Upload, UploadDone, RunFailed,
        PutRejected, DropOne, WriteManifest, PersistArtifact, PersistThrows, Succeed,
        SucceedThrows, Catch, DiscardObjects, SetFailed, SetFailedThrows, Return, Crash, Boot,
        Goto, Fault, SetState, db, volume, locals, budget
  <1>1. \/ persisted' = persisted
        \/ Claim /\ persisted' = FALSE
        \/ PersistArtifact /\ persisted' = TRUE
    OBVIOUS
  <1>2. globals' = globals \/ Claim \/ (Aside /\ pc = "ca" /\ persisted' = persisted)
    OBVIOUS
  <1>3. row' = row \/ (row' = row \cup {now} /\ now' = now)
    OBVIOUS
  <1>4. now' = now \/ Claim \/ now' = NoRun
    OBVIOUS
  <1>5. PersistArtifact => pc = "persist" /\ now' = now /\ now \in row' /\ globals' = globals
    OBVIOUS
  <1> HIDE DEF Core, Aside, Claim, PersistArtifact
  <1> QED
    BY <1>1, <1>2, <1>3, <1>4, <1>5

(* The types, one variable at a time.                                      *)
LEMMA TypeStep == IInv /\ Next => TypeOK'
  <1> SUFFICES ASSUME IInv, Next PROVE TypeOK'
    OBVIOUS
  <1>0. TypeOK /\ (pc \notin {"idle", "down"} => now \in Runs) /\ (Core \/ Aside)
    BY InHand, NextSplit DEF IInv
  <1> USE DEF Core, Aside, UploadStep, Claim, EarlyReturn, PrepareThrows, Prepare, SetRunning,
        SetRunningThrows, Resolve, ResolveThrows, StageDump, Upload, UploadDone, RunFailed,
        PutRejected, DropOne, WriteManifest, PersistArtifact, PersistThrows, Succeed,
        SucceedThrows, Catch, DiscardObjects, SetFailed, SetFailedThrows, Return, Crash, Boot,
        Goto, Fault, SetState, db, volume, locals, budget
  <1>1. bucket' \in [Runs -> [Keys -> Content]]
    BY <1>0, BucketStep, UploadStepWrites, ManifestWrites, DiscardWrites DEF Wrote, Writing,
      TypeOK
  <1>2. state' \in [Runs -> JobStates]
    BY <1>0 DEF TypeOK, JobStates
  <1>3. reason' \in [Runs -> Reasons]
    BY <1>0 DEF TypeOK, Reasons
  <1>4. row' \in SUBSET Runs
    BY <1>0 DEF TypeOK
  <1>5. /\ dirs' \in SUBSET Runs /\ cas' \in SUBSET Runs
        /\ active' \in SUBSET Runs /\ unremoved' \in SUBSET Runs
        /\ {globals, mongo, persisted, thrown}' \subseteq BOOLEAN
        /\ faults' \in 0..MaxFaults /\ lost' \in 0..MaxLost /\ crashes' \in 0..MaxCrashes
    BY <1>0, ScratchTypes DEF TypeOK
  <1>6. now' \in Runs \cup {NoRun} /\ pc' \in Pcs
    BY <1>0 DEF TypeOK, Pcs
  <1>7. written' \in SUBSET Keys
    BY <1>0 DEF TypeOK, Keys
  <1> QED
    BY <1>1, <1>2, <1>3, <1>4, <1>5, <1>6, <1>7 DEF TypeOK

(* The places runBackup is at, and what it knows there of its own row.     *)
LEMMA FlagStep == IInv /\ Next => FlagInv'
  <1> SUFFICES ASSUME IInv, Core \/ Aside PROVE FlagInv'
    BY NextSplit
  <1>0. /\ TypeOK /\ RunsInv /\ HandInv /\ UploadInv /\ FlagInv /\ NoRun \notin Runs
        /\ pc \notin {"idle", "down"} => now \in Runs
        /\ persisted \in BOOLEAN /\ globals \in BOOLEAN
    BY InHand, BackupBounds DEF IInv, BackupInv, Runs, TypeOK
  <1> USE DEF Core, Aside, UploadStep, Claim, EarlyReturn, PrepareThrows, Prepare, SetRunning,
        SetRunningThrows, Resolve, ResolveThrows, StageDump, Upload, UploadDone, RunFailed,
        PutRejected, DropOne, WriteManifest, PersistArtifact, PersistThrows, Succeed,
        SucceedThrows, Catch, DiscardObjects, SetFailed, SetFailedThrows, Return, Crash, Boot,
        Goto, Fault, SetState, db, volume, locals, budget
  <1>1. pc' \in BeforeRow => ~persisted' /\ now' \notin row'
    BY <1>0 DEF TypeOK, RunsInv, FlagInv, BeforeRow
  <1>2. pc' = "succeed" => persisted'
    BY <1>0 DEF FlagInv, BeforeRow
  <1>3. pc' \in {"discard", "failNoted"} => ~persisted'
    BY <1>0 DEF FlagInv, BeforeRow
  <1>4. pc' = "fail" => persisted' \/ written' = {}
    BY <1>0 DEF FlagInv, BeforeRow
  <1>5. pc' \in Unsettled => \/ state'[now'] = "RUNNING"
                             \/ state'[now'] = "SUCCEEDED" /\ persisted'
    BY <1>0 DEF TypeOK, FlagInv, BeforeRow, Unsettled
  <1> QED
    BY <1>1, <1>2, <1>3, <1>4, <1>5 DEF FlagInv

(* What has been recorded and what is whole, along the uploads.            *)
LEMMA UploadInvStep == IInv /\ Next => UploadInv'
  <1> SUFFICES ASSUME IInv, Core \/ Aside PROVE UploadInv'
    BY NextSplit
  <1>0. /\ TypeOK /\ RunsInv /\ HandInv /\ UploadInv /\ FlagInv /\ NoRun \notin Runs
        /\ pc \notin {"idle", "down"} => now \in Runs
        /\ persisted \in BOOLEAN /\ globals \in BOOLEAN
    BY InHand, BackupBounds DEF IInv, BackupInv, Runs, TypeOK
  <1> USE DEF Core, Aside, UploadStep, Claim, EarlyReturn, PrepareThrows, Prepare, SetRunning,
        SetRunningThrows, Resolve, ResolveThrows, StageDump, Upload, UploadDone, RunFailed,
        PutRejected, DropOne, WriteManifest, PersistArtifact, PersistThrows, Succeed,
        SucceedThrows, Catch, DiscardObjects, SetFailed, SetFailedThrows, Return, Crash, Boot,
        Goto, Fault, SetState, db, volume, locals, budget
  <1>1. /\ pc' \in NothingYet => written' = {}
        /\ pc' \in {"putArtifact", "dropArtifact"} => written' = {"artifact"}
    BY <1>0 DEF UploadInv, NothingYet
  <1>2. /\ pc' \in {"putGlobals", "dropGlobals"} => "globals" \in written'
        /\ pc' \in {"globals", "putGlobals", "dropGlobals"} => globals'
    BY <1>0 DEF UploadInv, NothingYet
  <1>3. pc' \in {"globals", "putGlobals", "dropGlobals", "manifest", "persist"} =>
          bucket'[now']["artifact"] = "whole"
    BY <1>0, BucketStep, UploadStepWrites, ManifestWrites DEF UploadInv, Writing, Wrote, Keys
  <1>4. pc' \in {"manifest", "persist"} =>
          IF globals' THEN bucket'[now']["globals"] = "whole" ELSE "globals" \notin written'
    <2>1. CASE bucket' = bucket /\ ~UploadStep
      BY <1>0, <2>1 DEF UploadInv, NothingYet
    <2>2. CASE UploadStep
      <3>1. /\ pc = "putArtifact" /\ pc' = "manifest" => ~globals
            /\ written' = written \/ pc' \notin {"manifest", "persist"}
            /\ pc' = "manifest" => pc \in {"putArtifact", "putGlobals"}
            /\ now' = now /\ globals' = globals /\ pc' # "persist"
        BY <1>0, <2>2
      <3>2. pc = "putArtifact" => "globals" \notin written
        BY <1>0 DEF UploadInv, NothingYet
      <3>3. pc = "putGlobals" /\ pc' = "manifest" => bucket'[now]["globals"] = "whole"
        BY <2>2, UploadStepWrites
      <3>4. pc = "putGlobals" => globals
        BY <1>0 DEF UploadInv, NothingYet
      <3> QED
        BY <1>0, <3>1, <3>2, <3>3, <3>4
    <2>3. CASE WriteManifest
      BY <1>0, <2>3, ManifestWrites DEF UploadInv, Wrote, Keys
    <2>4. CASE DiscardObjects
      BY <1>0, <2>4
    <2> HIDE DEF Core, Aside, Claim, UploadStep, WriteManifest, DiscardObjects
    <2> QED
      BY <2>1, <2>2, <2>3, <2>4, BucketStep
  <1>5. pc' = "persist" => bucket'[now']["manifest"] = "whole"
    BY <1>0, BucketStep, UploadStepWrites, ManifestWrites DEF UploadInv, Writing, Wrote, Keys
  <1> QED
    BY <1>1, <1>2, <1>3, <1>4, <1>5 DEF UploadInv, NothingYet

(* What runBackup knows of the job in hand, wherever it is.                *)
LEMMA HandStep == IInv /\ Next => HandInv'
  <1> SUFFICES ASSUME IInv, Core \/ Aside PROVE HandInv'
    BY NextSplit
  <1>0. /\ TypeOK /\ RunsInv /\ HandInv /\ UploadInv /\ FlagInv /\ NoRun \notin Runs
        /\ pc \notin {"idle", "down"} => now \in Runs
        /\ persisted \in BOOLEAN /\ globals \in BOOLEAN
    BY InHand, BackupBounds DEF IInv, BackupInv, Runs, TypeOK
  <1> USE DEF Core, Aside, UploadStep, Claim, EarlyReturn, PrepareThrows, Prepare, SetRunning,
        SetRunningThrows, Resolve, ResolveThrows, StageDump, Upload, UploadDone, RunFailed,
        PutRejected, DropOne, WriteManifest, PersistArtifact, PersistThrows, Succeed,
        SucceedThrows, Catch, DiscardObjects, SetFailed, SetFailedThrows, Return, Crash, Boot,
        Goto, Fault, SetState, db, volume, locals, budget
  <1>1. now' = NoRun <=> pc' \in {"idle", "down"}
    BY <1>0 DEF HandInv
  <1>2. now' # NoRun => state'[now'] # "PENDING"
    BY <1>0 DEF HandInv, TypeOK
  <1>3. now' # NoRun => \A k \in Keys \ written' : bucket'[now'][k] = "absent"
    <2> SUFFICES ASSUME now' # NoRun, NEW k \in Keys, k \notin written'
                 PROVE  bucket'[now'][k] = "absent"
      OBVIOUS
    <2>1. CASE bucket' = bucket /\ (Claim \/ written \subseteq written')
      <3>1. Claim => now' \in Runs /\ state[now'] = "PENDING"
        OBVIOUS
      <3>2. ~Claim => now' = now
        <4>1. (now = NoRun <=> pc \in {"idle", "down"})
          BY <1>0 DEF HandInv
        <4> QED
          BY <4>1
      <3> HIDE DEF Core, Aside, Claim
      <3> QED
        BY <1>0, <2>1, <3>1, <3>2 DEF HandInv, RunsInv, Clean
    <2>2. CASE UploadStep /\ pc \in Writing \ {"manifest", "discard"}
      BY <1>0, <2>2, UploadStepWrites DEF HandInv, UploadInv, Writing, Wrote
    <2>3. CASE WriteManifest
      BY <1>0, <2>3, ManifestWrites DEF HandInv, Wrote
    <2>4. CASE DiscardObjects
      BY <1>0, <2>4, DiscardWrites DEF HandInv, Wrote
    <2> HIDE DEF Core, Aside, Claim, UploadStep, WriteManifest, DiscardObjects
    <2> QED
      BY <2>1, <2>2, <2>3, <2>4, BucketStep
  <1>4. now' # NoRun => (persisted' => now' \in row')
    <2>1. /\ now = NoRun <=> pc \in {"idle", "down"}
          /\ persisted /\ now # NoRun => now \in row
          /\ persisted \in BOOLEAN /\ NoRun \notin Runs
      BY <1>0 DEF HandInv
    <2>2. Claim => persisted' = FALSE
      OBVIOUS
    <2> HIDE DEF Core, Aside, Claim, PersistArtifact
    <2>3. now' # NoRun /\ persisted' => now' = now /\ (persisted \/ PersistArtifact)
      BY <2>1, <2>2, FlagMoves
    <2>4. now \in row => now \in row'
      BY FlagMoves
    <2> QED
      BY <2>1, <2>3, <2>4, FlagMoves
  <1>5. now' # NoRun /\ persisted' =>
          Kept(now)' /\ (globals' => bucket'[now']["globals"] = "whole")
    <2>1. persisted \/ pc = "persist" => bucket' = bucket
      BY <1>0, BucketStep DEF FlagInv, BeforeRow, Writing
    <2>2. now # NoRun /\ (persisted \/ pc = "persist") =>
            Kept(now) /\ (globals => bucket[now]["globals"] = "whole")
      BY <1>0 DEF HandInv, UploadInv, Kept, Keys
    <2>3. now' # NoRun /\ persisted' =>
            (persisted \/ pc = "persist") /\ now' = now /\ globals' = globals
      <3>1. Claim => persisted' = FALSE
        OBVIOUS
      <3>2. persisted \in BOOLEAN /\ (persisted => pc # "ca")
        BY <1>0 DEF FlagInv, BeforeRow
      <3> HIDE DEF Core, Aside, Claim, PersistArtifact
      <3> QED
        BY <3>1, <3>2, FlagMoves
    <2> HIDE DEF Core, Aside
    <2> QED
      BY <2>1, <2>2, <2>3 DEF Kept
  <1>6. now' # NoRun => (now' \in row' /\ lost' = 0 => persisted')
    BY <1>0 DEF HandInv, RunsInv, TypeOK
  <1> QED
    BY <1>1, <1>2, <1>3, <1>4, <1>5, <1>6 DEF HandInv

(* What is true of every job, in hand or not.                              *)
LEMMA RunsStep == IInv /\ Next => RunsInv'
  <1> SUFFICES ASSUME IInv, Core \/ Aside, NEW b \in Runs
               PROVE  /\ state'[b] = "PENDING" => b \notin row' /\ Clean(b)'
                      /\ state'[b] = "SUCCEEDED" => b \in row' /\ bucket'[b]["artifact"] = "whole"
                      /\ state'[b] = "FAILED" /\ reason'[b] = "plain" => b \in row' \/ Clean(b)'
                      /\ b \in row' /\ lost' = 0 => Kept(b)'
    BY NextSplit DEF RunsInv
  <1>0. /\ TypeOK /\ RunsInv /\ HandInv /\ UploadInv /\ FlagInv /\ NoRun \notin Runs
        /\ pc \notin {"idle", "down"} => now \in Runs
        /\ persisted \in BOOLEAN /\ globals \in BOOLEAN
    BY InHand, BackupBounds DEF IInv, BackupInv, Runs, TypeOK
  <1> USE DEF Core, Aside, UploadStep, Claim, EarlyReturn, PrepareThrows, Prepare, SetRunning,
        SetRunningThrows, Resolve, ResolveThrows, StageDump, Upload, UploadDone, RunFailed,
        PutRejected, DropOne, WriteManifest, PersistArtifact, PersistThrows, Succeed,
        SucceedThrows, Catch, DiscardObjects, SetFailed, SetFailedThrows, Return, Crash, Boot,
        Goto, Fault, SetState, db, volume, locals, budget
  <1>1. state'[b] = "PENDING" => b \notin row' /\ Clean(b)'
    BY <1>0, BucketStep, UploadStepWrites, ManifestWrites, DiscardWrites DEF TypeOK, RunsInv,
      HandInv, Clean, Writing, Wrote, Keys
  <1>2. state'[b] = "SUCCEEDED" => b \in row' /\ bucket'[b]["artifact"] = "whole"
    BY <1>0, BucketStep, UploadStepWrites, ManifestWrites, DiscardWrites DEF TypeOK, RunsInv,
      HandInv, FlagInv, BeforeRow, Unsettled, Kept, Writing, Wrote, Keys
  <1>3. state'[b] = "FAILED" /\ reason'[b] = "plain" => b \in row' \/ Clean(b)'
    <2> SUFFICES ASSUME state'[b] = "FAILED", reason'[b] = "plain", NEW k \in Keys
                 PROVE  b \in row' \/ bucket'[b][k] = "absent"
      BY DEF Clean
    <2>1. CASE bucket' = bucket
      <3>1. CASE state[b] = "FAILED" /\ reason[b] = "plain"
        <4>1. b \in row => b \in row'
          BY <1>0
        <4> QED
          BY <1>0, <2>1, <3>1, <4>1 DEF RunsInv, Clean
      <3>2. CASE ~(state[b] = "FAILED" /\ reason[b] = "plain")
        <4>1. b = now /\ pc \in {"claimed", "fail"} /\ row' = row
          BY <1>0, <3>2 DEF TypeOK
        <4> QED
          BY <1>0, <2>1, <4>1 DEF HandInv, FlagInv, UploadInv, NothingYet
      <3> QED
        BY <3>1, <3>2
    <2>2. CASE UploadStep /\ pc \in Writing \ {"manifest", "discard"}
      BY <1>0, <2>2, UploadStepWrites DEF RunsInv, FlagInv, Clean, Writing, Wrote, BeforeRow,
        Unsettled
    <2>3. CASE WriteManifest
      BY <1>0, <2>3, ManifestWrites DEF RunsInv, FlagInv, Clean, Wrote, BeforeRow, Unsettled
    <2>4. CASE DiscardObjects
      BY <1>0, <2>4, DiscardWrites DEF RunsInv, FlagInv, Clean, Wrote, BeforeRow, Unsettled
    <2> HIDE DEF Core, Aside, Claim, UploadStep, WriteManifest, DiscardObjects
    <2> QED
      BY <2>1, <2>2, <2>3, <2>4, BucketStep
  <1>4. b \in row' /\ lost' = 0 => Kept(b)'
    BY <1>0, BucketStep, UploadStepWrites, ManifestWrites, DiscardWrites DEF TypeOK, RunsInv,
      HandInv, UploadInv, FlagInv, BeforeRow, Kept, Writing, Wrote, Keys
  <1> QED
    BY <1>1, <1>2, <1>3, <1>4

(* The four together, and the types, hold in every behaviour.              *)
LEMMA IInvInvariant == Spec => []IInv
  <1>1. IInv /\ UNCHANGED vars => IInv'
    BY DEF IInv, TypeOK, BackupInv, RunsInv, Clean, Kept, HandInv, UploadInv, FlagInv,
      vars, db, volume, locals, budget
  <1>2. IInv /\ [Next]_vars => IInv'
    BY <1>1, TypeStep, RunsStep, HandStep, UploadInvStep, FlagStep DEF IInv, BackupInv
  <1> QED
    BY <1>2, IInvInit, PTL DEF Spec

-----------------------------------------------------------------------------
(* The theorems.                                                           *)

(* Every behaviour keeps every variable in its type.                       *)
THEOREM BackupTypes == Spec => []TypeOK
  <1>1. IInv => TypeOK
    BY DEF IInv
  <1> QED
    BY <1>1, IInvInvariant, PTL

(* As long as no INSERT committed whose answer was lost, a row has its     *)
(* whole dump, globals and manifest, whatever fails and whenever.          *)
THEOREM RowsHaveObjects == Spec => [](lost = 0 => RowHasItsObjects)
  <1>1. IInv => (lost = 0 => RowHasItsObjects)
    <2> SUFFICES ASSUME IInv, lost = 0, NEW b \in row
                 PROVE  Kept(b) /\ (b = now /\ globals => bucket[b]["globals"] = "whole")
      BY DEF RowHasItsObjects, Kept
    <2>1. b \in Runs /\ b # NoRun
      BY BackupBounds DEF IInv, TypeOK, Runs
    <2> QED
      BY <2>1 DEF IInv, BackupInv, RunsInv, HandInv
  <1> QED
    BY <1>1, IInvInvariant, PTL

(* A green job left its row and a whole dump, even over lost answers.      *)
THEOREM GreenIsBackedUp == Spec => []SucceededIsBackedUp
  <1>1. IInv => SucceededIsBackedUp
    BY DEF IInv, BackupInv, RunsInv, SucceededIsBackedUp
  <1> QED
    BY <1>1, IInvInvariant, PTL

(* A failure in its own words left nothing, however many deletes it took.  *)
THEOREM PlainFailuresAreClean == Spec => []PlainFailureLeftNothing
  <1>1. IInv => PlainFailureLeftNothing
    BY DEF IInv, BackupInv, RunsInv, Clean, PlainFailureLeftNothing
  <1> QED
    BY <1>1, IInvInvariant, PTL
=============================================================================
