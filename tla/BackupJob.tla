------------------------------ MODULE BackupJob ------------------------------
(***************************************************************************)
(* One worker running backup jobs: jobs/backup.ts (runBackupJob), its      *)
(* ports in jobs/backup-wiring.ts, the part of runBackup in                *)
(* jobs/worker-wiring.ts around them and the scratch reservations of       *)
(* packages/runner/src/scratch.ts.                                         *)
(*                                                                         *)
(* A backup writes up to three objects into the bucket (the dump, the      *)
(* PostgreSQL globals, the manifest) and then one Artifact row.  Without   *)
(* the row nothing ever learns the keys, so every failure before the row   *)
(* has to take the objects away again; after it, they must stay.           *)
(*                                                                         *)
(* Scratch reservations are counted by a semaphore and remembered in       *)
(* #active, which the sweep leaves alone: a reservation that is never      *)
(* released is lost, slot and directory, until the process restarts.       *)
(***************************************************************************)
EXTENDS Integers, FiniteSets

CONSTANTS
  MaxRuns,     \* bound on the backup jobs
  MaxStaged,   \* SCHRODUMP_MAX_CONCURRENT_STAGED: the semaphore's slots
  NoRun,       \* no job in hand
  MaxFaults,   \* bound on database and storage calls that throw
  MaxLost,     \* bound on database writes that commit and throw all the same
  MaxCrashes   \* bound on process crashes

ASSUME BackupBounds ==
  /\ MaxRuns \in Nat /\ MaxFaults \in Nat /\ MaxLost \in Nat /\ MaxCrashes \in Nat
  /\ MaxStaged \in Nat \ {0} /\ NoRun \notin Nat

Runs    == 1..MaxRuns
Keys    == {"artifact", "globals", "manifest"}
Content == {"absent", "partial", "whole"}
JobStates == {"PENDING", "RUNNING", "SUCCEEDED", "FAILED"}
(* BackupJob.reason: "plain" is the failure's own words, "noted" adds that *)
(* objects remain, "other" was written by runWorkerOnce or by recovery.    *)
Reasons == {"none", "plain", "noted", "other"}

VARIABLES
  state,     \* BackupJob.state
  reason,    \* BackupJob.reason
  bucket,    \* the objects under each job's prefix
  row,       \* jobs with an Artifact row
  dirs,      \* jobs with a directory <job> (a staged dump, mongo's --config file)
  cas,       \* jobs with a directory <job>.tls-ca, which no reservation owns
  active,    \* ScratchManager.#active of the live process, and its slots in use
  unremoved, \* history: jobs whose --config file this process could not remove
  now,       \* the job runBackup has in hand
  pc,        \* where runBackup is
  globals,   \* the engine dumps its globals separately
  written,   \* keys this backup started writing and has not deleted
  mongo,     \* the reservation was taken for mongo's --config file
  persisted, \* runBackupJob's flag: the row exists
  thrown,    \* an error leaves runBackupJob
  faults, lost, crashes

db      == <<state, reason, row>>
volume  == <<dirs, cas, active, unremoved>>
locals  == <<globals, written, mongo, persisted, thrown>>
budget  == <<faults, lost, crashes>>
vars    == <<db, bucket, volume, now, pc, locals, budget>>

Pcs == {"idle", "claimed", "config", "ca", "ready", "resolve", "reserve", "stage", "artifact", "globals",
        "putArtifact", "putGlobals", "dropArtifact", "dropGlobals", "manifest",
        "persist", "succeed", "caught", "discard", "fail", "failNoted",
        "release", "cleanup", "dropCa", "return", "down"}

TypeOK ==
  /\ state \in [Runs -> JobStates] /\ reason \in [Runs -> Reasons]
  /\ bucket \in [Runs -> [Keys -> Content]]
  /\ row \in SUBSET Runs /\ dirs \in SUBSET Runs /\ cas \in SUBSET Runs
  /\ active \in SUBSET Runs /\ unremoved \in SUBSET Runs
  /\ now \in Runs \cup {NoRun} /\ pc \in Pcs
  /\ written \in SUBSET Keys
  /\ {globals, mongo, persisted, thrown} \subseteq BOOLEAN
  /\ faults \in 0..MaxFaults /\ lost \in 0..MaxLost /\ crashes \in 0..MaxCrashes

Init ==
  /\ state = [b \in Runs |-> "PENDING"] /\ reason = [b \in Runs |-> "none"]
  /\ bucket = [b \in Runs |-> [k \in Keys |-> "absent"]]
  /\ row = {} /\ dirs = {} /\ cas = {} /\ active = {} /\ unremoved = {}
  /\ now = NoRun /\ pc = "idle"
  /\ globals = FALSE /\ written = {}
  /\ mongo = FALSE /\ persisted = FALSE /\ thrown = FALSE
  /\ faults = 0 /\ lost = 0 /\ crashes = 0

Goto(from, to) == pc = from /\ pc' = to
Fault == faults < MaxFaults /\ faults' = faults + 1 /\ UNCHANGED <<lost, crashes>>
SetState(s, why) ==
  /\ state' = [state EXCEPT ![now] = s]
  /\ reason' = [reason EXCEPT ![now] = why]
  /\ UNCHANGED row
Put(k, c) == bucket' = [bucket EXCEPT ![now] = [@ EXCEPT ![k] = c]]
Delete(ks) ==
  bucket' = [bucket EXCEPT ![now] = [k \in Keys |-> IF k \in ks THEN "absent" ELSE @[k]]]

-----------------------------------------------------------------------------
(* runBackup, before the ports exist.                                      *)

Claim ==
  /\ Goto("idle", "claimed")
  /\ \E b \in Runs :
       /\ state[b] = "PENDING"
       /\ now' = b /\ state' = [state EXCEPT ![b] = "RUNNING"]
  /\ globals' = FALSE /\ written' = {}
  /\ mongo' = FALSE /\ persisted' = FALSE /\ thrown' = FALSE
  /\ UNCHANGED <<reason, row, bucket, volume, budget>>

(* No policy, no destination, no scratch for what the connection needs.    *)
EarlyReturn ==
  /\ Goto("claimed", "return")
  /\ SetState("FAILED", "plain")
  /\ UNCHANGED <<bucket, volume, now, locals, budget>>

(* The policy read, the credential or the probe throws.                    *)
PrepareThrows ==
  /\ Goto("claimed", "return")
  /\ thrown' = TRUE
  /\ UNCHANGED <<db, bucket, volume, now, globals, written, mongo, persisted, budget>>

(* MongoDB takes its password from a file, the other engines do not.       *)
Prepare ==
  /\ pc = "claimed" /\ pc' \in {"config", "ca"}
  /\ UNCHANGED <<db, bucket, volume, now, locals, budget>>

(* ScratchManager.reserve: waits, with no timeout, while every slot is in  *)
(* use.                                                                    *)
Reserve ==
  /\ Cardinality(active) < MaxStaged
  /\ active' = active \cup {now} /\ dirs' = dirs \cup {now}
  /\ UNCHANGED <<cas, unremoved>>
(* No space, or no directory with the right mode: the slot is given back   *)
(* and a directory that was made stays.                                    *)
ReserveThrows ==
  /\ Cardinality(active) < MaxStaged
  /\ dirs' \in {dirs, dirs \cup {now}}
  /\ UNCHANGED <<cas, active, unremoved>>

(* The --config file in a reservation of its own; a file that cannot be    *)
(* written gives the reservation back, its directory removed or not.       *)
WriteConfig ==
  /\ Goto("config", "ca")
  /\ Reserve /\ mongo' = TRUE
  /\ UNCHANGED <<db, bucket, now, globals, written, persisted, thrown, budget>>
WriteConfigThrows ==
  /\ Goto("config", "return")
  /\ ReserveThrows /\ thrown' = TRUE
  /\ UNCHANGED <<db, bucket, now, globals, written, mongo, persisted, budget>>

(* releaseMongoConfig: the file first, and then the reservation, whose own *)
(* removal may fail.  When the file cannot be removed the reservation is   *)
(* never released.                                                         *)
ReleaseConfig(threw) ==
  \/ /\ dirs' = dirs \ {now} /\ active' = active \ {now}
     /\ thrown' = threw /\ UNCHANGED <<unremoved, budget>>
  \/ /\ Fault /\ thrown' = TRUE
     /\ \/ active' = active \ {now} /\ UNCHANGED unremoved
        \/ unremoved' = unremoved \cup {now} /\ UNCHANGED active
     /\ UNCHANGED dirs

(* The target's CA, when the connection needs one; whether the engine      *)
(* dumps its globals apart comes with the engine.                          *)
StageCa ==
  /\ Goto("ca", "ready")
  /\ cas' \in {cas, cas \cup {now}}
  /\ globals' \in IF mongo THEN {FALSE} ELSE BOOLEAN
  /\ UNCHANGED <<db, bucket, dirs, active, unremoved, now, written, mongo, persisted,
                 thrown, budget>>
(* It cannot be written, its directory removed or not: what was staged for *)
(* mongo is given back.                                                    *)
StageCaThrows ==
  /\ Goto("ca", "return")
  /\ cas' \in {cas, cas \cup {now}}
  /\ IF mongo THEN ReleaseConfig(TRUE)
              ELSE thrown' = TRUE /\ UNCHANGED <<dirs, active, unremoved, budget>>
  /\ UNCHANGED <<db, bucket, now, globals, written, mongo, persisted>>

-----------------------------------------------------------------------------
(* runBackupJob.                                                           *)

(* setState(RUNNING) is outside the try.                                   *)
SetRunning ==
  /\ Goto("ready", "resolve")
  /\ UNCHANGED <<db, bucket, volume, now, locals, budget>>
SetRunningThrows ==
  /\ Goto("ready", "cleanup") /\ Fault
  /\ thrown' = TRUE
  /\ UNCHANGED <<db, bucket, volume, now, globals, written, mongo, persisted>>

(* probe, capabilities, resolveExecutionMode (mongo is STREAM only).       *)
Resolve ==
  /\ \/ Goto("resolve", "reserve") /\ ~mongo
     \/ Goto("resolve", "artifact")
  /\ UNCHANGED <<db, bucket, volume, now, locals, budget>>
(* An unsupported server, no key.                                          *)
ResolveThrows ==
  /\ Goto("resolve", "caught")
  /\ UNCHANGED <<db, bucket, volume, now, locals, budget>>

(* reserveScratch when STAGED, and resolveRecipients.                      *)
ReserveStaging ==
  /\ Goto("reserve", "stage")
  /\ Reserve
  /\ UNCHANGED <<db, bucket, now, locals, budget>>
(* No space, or no key once the reservation is held.                       *)
ReserveStagingThrows ==
  /\ Goto("reserve", "caught")
  /\ ReserveThrows \/ Reserve
  /\ UNCHANGED <<db, bucket, now, locals, budget>>

(* The first of the two STAGED runs: the dump fills the directory.         *)
StageDump ==
  /\ pc = "stage" /\ pc' \in {"artifact", "caught"}
  /\ UNCHANGED <<db, bucket, volume, now, locals, budget>>

(* Mutant: the key is recorded when the put is done.                       *)
UploadRecordsLate(k, from, to) ==
  /\ Goto(from, to)
  /\ UNCHANGED <<db, bucket, volume, now, locals, budget>>

(* uploadEncrypted: the key is recorded before the run and the put start.  *)
Upload(k, from, to) ==
  /\ Goto(from, to)
  /\ written' = written \cup {k}
  /\ UNCHANGED <<db, bucket, volume, now, globals, mongo, persisted, thrown, budget>>

(* Mutant: an exit code of 0 is all it takes, whatever was written.        *)
UploadAcceptsEmpty(k, from, to) ==
  /\ Goto(from, to)
  /\ \E c \in {"partial", "whole"} : Put(k, c)
  /\ UNCHANGED <<db, volume, now, locals, budget>>

(* allSettled([put, run]): the dump is in the bucket ...                   *)
UploadDone(k, from, to) ==
  /\ Goto(from, to)
  /\ Put(k, "whole")
  /\ UNCHANGED <<db, volume, now, locals, budget>>

(* ... or the run failed, or wrote nothing: the object is taken away ...   *)
RunFailed(k, from, to) ==
  /\ Goto(from, to)
  /\ \E c \in {"absent", "partial"} : Put(k, c)
  /\ UNCHANGED <<db, volume, now, locals, budget>>

(* ... or the put was rejected, and may still have left an object.         *)
PutRejected(k, from) ==
  /\ Goto(from, "caught")
  /\ \E c \in {"absent", "partial"} : Put(k, c)
  /\ UNCHANGED <<db, volume, now, locals, budget>>

(* discard([key]).catch(): the key stays in written when the delete fails. *)
DropOne(k, from) ==
  /\ Goto(from, "caught")
  /\ \/ Delete({k}) /\ written' = written \ {k} /\ UNCHANGED budget
     \/ Fault /\ UNCHANGED <<bucket, written>>
  /\ UNCHANGED <<db, volume, now, globals, mongo, persisted, thrown>>

UploadStep ==
  \/ Upload("artifact", "artifact", "putArtifact")
  \/ UploadDone("artifact", "putArtifact", IF globals THEN "globals" ELSE "manifest")
  \/ RunFailed("artifact", "putArtifact", "dropArtifact")
  \/ PutRejected("artifact", "putArtifact")
  \/ DropOne("artifact", "dropArtifact")
  \/ Upload("globals", "globals", "putGlobals")
  \/ UploadDone("globals", "putGlobals", "manifest")
  \/ RunFailed("globals", "putGlobals", "dropGlobals")
  \/ PutRejected("globals", "putGlobals")
  \/ DropOne("globals", "dropGlobals")

(* writeManifest records its key, then writes; a put that rejected may     *)
(* have been stored.                                                       *)
WriteManifest ==
  /\ pc = "manifest"
  /\ written' = written \cup {"manifest"}
  /\ \/ pc' = "persist" /\ Put("manifest", "whole") /\ UNCHANGED budget
     \/ pc' = "caught" /\ Fault /\ \E c \in {"absent", "whole"} : Put("manifest", c)
  /\ UNCHANGED <<db, volume, now, globals, mongo, persisted, thrown>>

(* artifact.create; when it throws, the INSERT may have been committed.    *)
PersistArtifact ==
  /\ Goto("persist", "succeed")
  /\ row' = row \cup {now} /\ persisted' = TRUE
  /\ UNCHANGED <<state, reason, bucket, volume, now, globals, written, mongo, thrown, budget>>
PersistThrows ==
  /\ Goto("persist", "caught")
  /\ \/ Fault /\ UNCHANGED row
     \/ /\ lost < MaxLost /\ lost' = lost + 1 /\ UNCHANGED <<faults, crashes>>
        /\ row' = row \cup {now}
  /\ UNCHANGED <<state, reason, bucket, volume, now, locals>>

Succeed ==
  /\ Goto("succeed", "release")
  /\ SetState("SUCCEEDED", "none")
  /\ UNCHANGED <<bucket, volume, now, locals, budget>>
SucceedThrows ==
  /\ Goto("succeed", "caught")
  /\ \/ Fault /\ UNCHANGED db
     \/ /\ lost < MaxLost /\ lost' = lost + 1 /\ UNCHANGED <<faults, crashes>>
        /\ SetState("SUCCEEDED", "none")
  /\ UNCHANGED <<bucket, volume, now, locals>>

(* Mutant: the objects are discarded whether or not the row exists.        *)
CatchDiscardsAlways ==
  /\ Goto("caught", "discard")
  /\ UNCHANGED <<db, bucket, volume, now, locals, budget>>

(* The catch: what was written is discarded unless the row exists.         *)
Catch ==
  /\ Goto("caught", IF persisted THEN "fail" ELSE "discard")
  /\ UNCHANGED <<db, bucket, volume, now, locals, budget>>

(* DeleteObjects over everything written: all of it, or some of it with an *)
(* error that the reason then mentions.                                    *)
DiscardObjects ==
  /\ \/ Goto("discard", "fail") /\ Delete(written) /\ written' = {} /\ UNCHANGED budget
     \/ /\ Goto("discard", "failNoted") /\ written # {} /\ Fault
        /\ \E ks \in SUBSET written : ks # written /\ Delete(ks)
        /\ UNCHANGED written
  /\ UNCHANGED <<db, volume, now, globals, mongo, persisted, thrown>>

SetFailed ==
  /\ \/ Goto("fail", "release") /\ SetState("FAILED", "plain")
     \/ Goto("failNoted", "release") /\ SetState("FAILED", "noted")
  /\ UNCHANGED <<bucket, volume, now, locals, budget>>
SetFailedThrows ==
  /\ pc \in {"fail", "failNoted"} /\ pc' = "release" /\ Fault
  /\ thrown' = TRUE
  /\ UNCHANGED <<db, bucket, volume, now, globals, written, mongo, persisted>>

(* finally: the reservation, removed or not, gives its slot back.          *)
Release ==
  /\ Goto("release", "cleanup")
  /\ IF now \in active /\ ~mongo
     THEN /\ active' = active \ {now}
          /\ \/ dirs' = dirs \ {now} /\ UNCHANGED <<thrown, budget>>
             \/ Fault /\ thrown' = TRUE /\ UNCHANGED dirs
          /\ UNCHANGED <<cas, unremoved>>
     ELSE UNCHANGED <<volume, thrown, budget>>
  /\ UNCHANGED <<db, bucket, now, globals, written, mongo, persisted>>

(* runBackup's own finally: mongo's file and its reservation ...           *)
RemoveConfig ==
  /\ Goto("cleanup", "dropCa")
  /\ IF mongo THEN ReleaseConfig(thrown)
              ELSE UNCHANGED <<dirs, active, unremoved, thrown, budget>>
  /\ UNCHANGED cas
  /\ UNCHANGED <<db, bucket, now, globals, written, mongo, persisted>>

(* ... and then the CA's directory, whatever became of those.              *)
RemoveCa ==
  /\ Goto("dropCa", "return")
  /\ \/ cas' = cas \ {now} /\ UNCHANGED <<thrown, budget>>
     \/ now \in cas /\ Fault /\ thrown' = TRUE /\ UNCHANGED cas
  /\ UNCHANGED <<db, bucket, dirs, active, unremoved, now, globals, written, mongo,
                 persisted>>

(* runWorkerOnce: an error is written on the job, whatever it says by now. *)
Return ==
  /\ Goto("return", "idle")
  /\ IF thrown THEN SetState("FAILED", "other") ELSE UNCHANGED db
  /\ now' = NoRun
  /\ UNCHANGED <<bucket, volume, locals, budget>>

-----------------------------------------------------------------------------
(* The process dies, and its manager's memory with it; rows, objects and   *)
(* files do not.                                                           *)
Crash ==
  /\ pc # "down" /\ crashes < MaxCrashes /\ crashes' = crashes + 1
  /\ pc' = "down" /\ now' = NoRun
  /\ active' = {} /\ unremoved' = {}
  /\ UNCHANGED <<db, bucket, dirs, cas, locals, faults, lost>>

(* Boot: orphan recovery fails what was RUNNING before anything is claimed.*)
Boot ==
  /\ Goto("down", "idle")
  /\ state' = [b \in Runs |-> IF state[b] = "RUNNING" THEN "FAILED" ELSE state[b]]
  /\ reason' = [b \in Runs |-> IF state[b] = "RUNNING" THEN "other" ELSE reason[b]]
  /\ UNCHANGED <<row, bucket, volume, now, locals, budget>>

(* The live job's directories are younger than the sweep's ceiling, a      *)
(* run's timeout being hours below it, unless it waits for a slot.         *)
Waits == pc \in {"config", "reserve"} /\ Cardinality(active) >= MaxStaged
Young == IF Waits THEN {} ELSE {now}

(* Mutant: the sweep knows reservations and not the CA's directories.      *)
GcReservationsOnly ==
  /\ pc # "down" /\ dirs \ (active \cup Young) # {}
  /\ dirs' = dirs \cap (active \cup Young)
  /\ UNCHANGED <<db, bucket, cas, active, unremoved, now, pc, locals, budget>>

(* ScratchManager.gc: every directory past its age whose name is not in    *)
(* #active; a CA's name never is.                                          *)
Gc ==
  /\ pc # "down" /\ (dirs \ (active \cup Young)) \cup (cas \ Young) # {}
  /\ dirs' = dirs \cap (active \cup Young) /\ cas' = cas \cap Young
  /\ UNCHANGED <<db, bucket, active, unremoved, now, pc, locals, budget>>

Prologue ==
  \/ Claim \/ EarlyReturn \/ PrepareThrows \/ Prepare
  \/ WriteConfig \/ WriteConfigThrows \/ StageCa \/ StageCaThrows
Work ==
  \/ SetRunning \/ SetRunningThrows \/ Resolve \/ ResolveThrows
  \/ ReserveStaging \/ ReserveStagingThrows \/ StageDump
  \/ UploadStep \/ WriteManifest \/ PersistArtifact \/ PersistThrows
  \/ Succeed \/ SucceedThrows
Epilogue ==
  \/ Catch \/ DiscardObjects \/ SetFailed \/ SetFailedThrows
  \/ Release \/ RemoveConfig \/ RemoveCa \/ Return

Next == Prologue \/ Work \/ Epilogue \/ Crash \/ Boot \/ Gc
Spec == Init /\ [][Next]_vars

(* Every await of the pipeline but the semaphore's has a timeout, so a     *)
(* live process goes on, waits for a slot apart; the supervisor restarts a *)
(* dead one; the scratch sweep is hourly.  The sweep is strong because the *)
(* process may be down whenever it is due.                                 *)
FairSpec ==
  Spec /\ WF_vars(Prologue \/ Work \/ Epilogue) /\ WF_vars(Boot) /\ SF_vars(Gc)

-----------------------------------------------------------------------------
(* Properties.                                                             *)

(* An Artifact row never points at nothing (backup.ts: "Once the row       *)
(* exists the objects are the artifact's, and deleting them would leave a  *)
(* row pointing at nothing"): whatever fails before or after the INSERT,   *)
(* and whenever the process dies, a row has its whole dump and manifest.   *)
RowHasItsObjects ==
  \A b \in row :
    /\ bucket[b]["artifact"] = "whole" /\ bucket[b]["manifest"] = "whole"
    /\ bucket[b]["globals"] # "partial"
    /\ (b = now /\ globals) => bucket[b]["globals"] = "whole"

(* A job that ends SUCCEEDED left a row and a whole artifact, never an     *)
(* empty or truncated object over a green job.                             *)
SucceededIsBackedUp ==
  \A b \in Runs : state[b] = "SUCCEEDED" => b \in row /\ bucket[b]["artifact"] = "whole"

(* A failure that says nothing of leftovers left none: without a row, a    *)
(* job whose reason is the failure's own words has no object in the bucket,*)
(* however many deletes were tried before (discardObjects' comment).       *)
PlainFailureLeftNothing ==
  \A b \in Runs : state[b] = "FAILED" /\ reason[b] = "plain" /\ b \notin row =>
    \A k \in Keys : bucket[b][k] = "absent"

(* Cleartext and CA files do not outlive their job for good, crashes and   *)
(* failed removals included.  The one exception the code makes is a        *)
(* --config file whose removal failed: its reservation is never released,  *)
(* and the sweep leaves the directory alone while that process lives; a    *)
(* restart still gets it.                                                  *)
ScratchIsReclaimed ==
  \A b \in Runs :
    /\ b \in dirs ~> (b \notin dirs \/ b \in unremoved)
    /\ b \in cas ~> b \notin cas

=============================================================================
