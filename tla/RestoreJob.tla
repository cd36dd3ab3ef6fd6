------------------------------ MODULE RestoreJob ------------------------------
(***************************************************************************)
(* A restore into a live database, by one worker process: runRestore of    *)
(* jobs/worker-wiring.ts, runRestoreJob (jobs/restore.ts), the pipeline of *)
(* jobs/restore-executor.ts and the scratch volume it decrypts onto        *)
(* (packages/runner/src/scratch.ts).                                       *)
(*                                                                         *)
(* What the gates judge is in Engines and how a container ends is in       *)
(* ContainerRun; here a gate passes or refuses and an executor exits with  *)
(* zero or not.  The process may be told to stop, and may die, anywhere.   *)
(***************************************************************************)
EXTENDS Integers, Sequences, FiniteSets

CONSTANTS
  Restores,    \* the restore jobs of the queue
  NoRestore,   \* no job in hand
  StagedSlots, \* SCHRODUMP_MAX_CONCURRENT_STAGED
  MaxMishaps   \* bound on failing writes, crashes and files that stay

ASSUME RestoreBounds ==
  StagedSlots \in Nat /\ MaxMishaps \in Nat /\ StagedSlots > MaxMishaps /\ NoRestore \notin Restores

Files == {"credential", "dump", "extracted"}
(* planRestoreSteps: PostgreSQL's globals come first, and are never a tar. *)
Plans == {<<"artifact">>, <<"globals", "artifact">>}

VARIABLES
  row,       \* BackupJob.state of every restore
  inHand,    \* the job the worker runs
  rpc,       \* where it is
  plan, staged, mounts, \* its steps, is the artifact a tar, is a credential file needed
  step,      \* the step under way
  failed,    \* an error is on its way out of the pipeline
  audited,   \* restores with an AuditLog row
  applied,   \* steps of each restore whose executor exited with zero
  touched,   \* restores that have written to their database
  clear,     \* cleartext files on the scratch volume, with their job
  slots,     \* slots of the semaphore in use
  active,    \* jobs whose directory gc leaves alone
  stopping,  \* the shutdown signal
  alive,     \* the process runs
  lost,      \* reservations kept because a credential file would not be removed
  orphaned,  \* restores whose directory a death or a failed removal left to gc
  mishaps

job   == <<inHand, plan, staged, mounts, step, failed>>
disk  == <<clear, slots, active, lost>>
facts == <<audited, applied, touched>>
life  == <<stopping, alive, orphaned>>
rvars == <<row, job, rpc, facts, disk, life, mishaps>>

RestoreInit ==
  /\ row = [j \in Restores |-> "PENDING"] /\ inHand = NoRestore /\ rpc = "idle"
  /\ plan = <<>> /\ staged = FALSE /\ mounts = FALSE /\ step = 0 /\ failed = FALSE
  /\ audited = {} /\ applied = [j \in Restores |-> <<>>] /\ touched = {}
  /\ clear = {} /\ slots = 0 /\ active = {} /\ lost = 0
  /\ stopping = FALSE /\ alive = TRUE /\ orphaned = {} /\ mishaps = 0

At(from, to) == alive /\ rpc = from /\ rpc' = to
Mishap == mishaps < MaxMishaps /\ mishaps' = mishaps + 1
SetRow(s) == row' = [row EXCEPT ![inHand] = s]
Create(f) == clear' = clear \cup {<<inHand, f>>}
Remove(fs) == clear' = clear \ ({inHand} \X fs)

-----------------------------------------------------------------------------
(* The job.                                                                *)

(* The claim; the kind of artifact decides what the pipeline will do.      *)
ClaimRestore(j, steps, tar, files) ==
  /\ At("idle", "prologue") /\ ~stopping /\ row[j] = "PENDING"
  /\ inHand' = j /\ plan' = steps /\ staged' = tar /\ mounts' = files
  /\ step' = 1 /\ failed' = FALSE
  /\ row' = [row EXCEPT ![j] = "RUNNING"]
  /\ UNCHANGED <<facts, disk, life, mishaps>>

(* No scratch volume, a row that is gone, a malformed scope ...            *)
RefuseEarly == At("prologue", "idle") /\ SetRow("FAILED") /\ inHand' = NoRestore
               /\ UNCHANGED <<plan, staged, mounts, step, failed, facts, disk, life, mishaps>>
BeginRestore == At("prologue", "gates") /\ UNCHANGED <<row, job, facts, disk, life, mishaps>>

(* Granularity, confinement, the key, existing data: any of them refuses.  *)
GateRefuses == At("gates", "fail") /\ UNCHANGED <<row, job, facts, disk, life, mishaps>>
AuditRestore == /\ At("gates", "reserve") /\ audited' = audited \cup {inHand}
                /\ UNCHANGED <<row, job, applied, touched, disk, life, mishaps>>

(* runRestoreJob's verdict, and its catch; a write that rejects after it   *)
(* took effect leaves the ledger to the handler after it.                  *)
ConcludeRestore ==
  /\ At("verdict", "idle") /\ ~failed /\ SetRow("SUCCEEDED") /\ inHand' = NoRestore
  /\ UNCHANGED <<plan, staged, mounts, step, failed, facts, disk, life, mishaps>>
VerdictThrows ==
  /\ At("verdict", "fail") /\ ~failed /\ Mishap /\ row' \in {row, [row EXCEPT ![inHand] = "SUCCEEDED"]}
  /\ UNCHANGED <<job, facts, disk, life>>
PipelineThrows == At("verdict", "fail") /\ failed /\ UNCHANGED <<row, job, facts, disk, life, mishaps>>
FailRestore ==
  /\ At("fail", "idle") /\ SetRow("FAILED") /\ inHand' = NoRestore
  /\ UNCHANGED <<plan, staged, mounts, step, failed, facts, disk, life, mishaps>>
(* Nobody could write the verdict: the row is an orphan until the boot.    *)
FailThrows ==
  /\ At("fail", "idle") /\ Mishap /\ inHand' = NoRestore
  /\ UNCHANGED <<row, plan, staged, mounts, step, failed, facts, disk, life>>

-----------------------------------------------------------------------------
(* The pipeline: a reservation around one pass per step.                   *)

(* Semaphore.acquire waits for a slot; nothing interrupts the wait.        *)
Reserve ==
  /\ At("reserve", "mounts") /\ slots < StagedSlots
  /\ slots' = slots + 1 /\ active' = active \cup {inHand}
  /\ UNCHANGED <<row, job, facts, clear, lost, life, mishaps>>
(* No key, no space, no directory: the slot goes straight back.            *)
ReserveFails ==
  /\ At("reserve", "fail") /\ slots < StagedSlots
  /\ UNCHANGED <<row, job, facts, disk, life, mishaps>>

MountsReady == /\ At("mounts", "step") /\ IF mounts THEN Create("credential") ELSE UNCHANGED clear
               /\ UNCHANGED <<row, job, facts, slots, active, lost, life, mishaps>>
(* Mutant: the mounts are materialised before the try.                     *)
MountsFailOutside ==
  /\ At("mounts", "verdict") /\ mounts /\ Mishap /\ failed' = TRUE
  /\ UNCHANGED <<row, inHand, plan, staged, mounts, step, facts, disk, life>>
MountsFail ==
  /\ At("mounts", "release") /\ mounts /\ Mishap /\ failed' = TRUE /\ Create("credential")
  /\ UNCHANGED <<row, inHand, plan, staged, mounts, step, facts, slots, active, lost, life>>

Fails(from, to) == At(from, to) /\ failed' = TRUE /\ UNCHANGED <<inHand, plan, staged, mounts, step>>

(* Before each step: has the process been told to stop?                    *)
EnterStep == ~stopping /\ At("step", "get") /\ UNCHANGED <<row, job, facts, disk, life, mishaps>>
(* Mutant: the steps that are left are skipped, and the pipeline returns.  *)
StepSkipped == stopping /\ At("step", "unmount") /\ UNCHANGED <<row, job, facts, disk, life, mishaps>>
StepAborted == stopping /\ Fails("step", "unmount") /\ UNCHANGED <<row, facts, disk, life, mishaps>>

(* driver.get, then decrypt and gunzip into the dump file; the signal is   *)
(* the pipeline's own, so an aborted one writes nothing more.              *)
GetFails == Fails("get", "unmount") /\ UNCHANGED <<row, facts, disk, life, mishaps>>
Decrypt ==
  /\ At("get", IF staged /\ plan[step] = "artifact" THEN "extract" ELSE "start") /\ ~stopping
  /\ Create("dump") /\ UNCHANGED <<row, job, facts, slots, active, lost, life, mishaps>>
DecryptFailsMidway == /\ Fails("get", "tidy") /\ ~stopping /\ Create("dump")
                      /\ UNCHANGED <<row, facts, slots, active, lost, life, mishaps>>

(* The container that unpacks a STAGED artifact; runner.run refuses to     *)
(* start one after the signal.                                             *)
Extract == /\ At("extract", "start") /\ ~stopping /\ Create("extracted")
           /\ UNCHANGED <<row, job, facts, slots, active, lost, life, mishaps>>
ExtractFails == /\ Fails("extract", "tidy") /\ Create("extracted")
                /\ UNCHANGED <<row, facts, slots, active, lost, life, mishaps>>

(* The engine's own tool writes to the database while it runs.             *)
StartExecutor ==
  /\ At("start", "running") /\ ~stopping
  /\ touched' = touched \cup {inHand}
  /\ UNCHANGED <<row, job, audited, applied, disk, life, mishaps>>
ExecutorUnavailable == Fails("start", "tidy") /\ UNCHANGED <<row, facts, disk, life, mishaps>>
ExecutorSucceeds ==
  /\ At("running", "tidy")
  /\ applied' = [applied EXCEPT ![inHand] = Append(@, plan[step])]
  /\ UNCHANGED <<row, job, audited, touched, disk, life, mishaps>>
(* A non-zero exit, the timeout, or the signal; the container is removed.  *)
ExecutorFails == Fails("running", "tidy") /\ UNCHANGED <<row, facts, disk, life, mishaps>>

(* The finally of restoreOne, then the next step.                          *)
Tidy ==
  /\ alive /\ rpc = "tidy" /\ Remove({"dump", "extracted"})
  /\ IF failed \/ step = Len(plan) THEN rpc' = "unmount" /\ UNCHANGED step
                                   ELSE rpc' = "step" /\ step' = step + 1
  /\ UNCHANGED <<row, inHand, plan, staged, mounts, failed, facts, slots, active, lost, life, mishaps>>
(* The disk refuses: both stay, or the second.                             *)
TidyFails ==
  /\ Fails("tidy", "unmount") /\ Mishap
  /\ \E gone \in {{}, {"dump"}} : Remove(gone)
  /\ UNCHANGED <<row, facts, slots, active, lost, life>>

(* The finally of runRestorePipeline: the credential file, then the        *)
(* reservation; when the first is not removed the second is not released.  *)
Unmount == /\ At("unmount", "release") /\ Remove({"credential"})
           /\ UNCHANGED <<row, job, facts, slots, active, lost, life, mishaps>>
UnmountFails ==
  /\ Fails("unmount", "verdict") /\ mounts /\ Mishap /\ lost' = lost + 1
  /\ UNCHANGED <<row, facts, clear, slots, active, life>>
Release ==
  /\ At("release", "verdict") /\ Remove(Files) /\ slots' = slots - 1 /\ active' = active \ {inHand}
  /\ UNCHANGED <<row, job, facts, lost, life, mishaps>>
(* The directory stays, or some of it; the slot is given back all the same.*)
ReleaseFails ==
  /\ Fails("release", "verdict") /\ Mishap /\ slots' = slots - 1 /\ active' = active \ {inHand}
  /\ orphaned' = orphaned \cup {inHand}
  /\ UNCHANGED <<row, facts, clear, lost, stopping, alive>>

-----------------------------------------------------------------------------
(* The process.                                                            *)

(* SIGTERM; the process exits once the job in hand is over.                *)
Stop == /\ alive /\ ~stopping /\ Mishap /\ stopping' = TRUE
        /\ UNCHANGED <<row, job, rpc, facts, disk, alive, orphaned>>
Forget == alive' = FALSE /\ stopping' = FALSE /\ slots' = 0 /\ active' = {} /\ lost' = 0
Exit == /\ alive /\ stopping /\ rpc = "idle" /\ Forget
        /\ orphaned' = orphaned \cup {c[1] : c \in clear}
        /\ UNCHANGED <<row, job, rpc, facts, clear, mishaps>>
(* Killed: memory goes, the disk stays.                                    *)
Die ==
  /\ alive /\ Mishap /\ Forget /\ rpc' = "idle" /\ inHand' = NoRestore
  /\ orphaned' = orphaned \cup ({inHand} \cap Restores) \cup {c[1] : c \in clear}
  /\ UNCHANGED <<row, plan, staged, mounts, step, failed, facts, clear>>
(* Boot: recoverOrphanedJobs.                                              *)
Restart ==
  /\ ~alive /\ alive' = TRUE
  /\ row' = [j \in Restores |-> IF row[j] = "RUNNING" THEN "FAILED" ELSE row[j]]
  /\ UNCHANGED <<job, rpc, facts, disk, stopping, orphaned, mishaps>>
(* ScratchManager.gc at boot and hourly: directories no job owns, once they*)
(* are a day old.                                                          *)
Collect ==
  /\ alive /\ ~stopping /\ \E c \in clear : c[1] \notin active
  /\ clear' = {c \in clear : c[1] \in active}
  /\ UNCHANGED <<row, job, rpc, facts, slots, active, lost, life, mishaps>>

Pipeline ==
  \/ Reserve \/ ReserveFails \/ MountsReady \/ MountsFail \/ EnterStep \/ StepAborted \/ GetFails
  \/ Decrypt \/ DecryptFailsMidway \/ Extract \/ ExtractFails \/ StartExecutor \/ ExecutorUnavailable
  \/ ExecutorSucceeds \/ ExecutorFails
  \/ Tidy \/ TidyFails \/ Unmount \/ UnmountFails \/ Release \/ ReleaseFails
RestoreWork ==
  \/ \E j \in Restores, steps \in Plans, tar, files \in BOOLEAN : ClaimRestore(j, steps, tar, files)
  \/ RefuseEarly \/ BeginRestore \/ GateRefuses \/ AuditRestore
  \/ ConcludeRestore \/ VerdictThrows \/ PipelineThrows \/ FailRestore \/ FailThrows
  \/ Pipeline
RestoreNext == RestoreWork \/ Stop \/ Exit \/ Die \/ Restart \/ Collect
RestoreSpec == RestoreInit /\ [][RestoreNext]_rvars

-----------------------------------------------------------------------------
(* Properties.                                                             *)

RestoreTypeOK ==
  /\ row \in [Restores -> {"PENDING", "RUNNING", "SUCCEEDED", "FAILED"}]
  /\ inHand \in Restores \cup {NoRestore} /\ plan \in Plans \cup {<<>>} /\ step \in 0..2
  /\ {staged, mounts, failed, stopping, alive} \subseteq BOOLEAN
  /\ applied \in [Restores -> Plans \cup {<<>>, <<"globals">>}]
  /\ audited \cup touched \cup active \cup orphaned \subseteq Restores
  /\ clear \subseteq Restores \X Files /\ slots \in 0..StagedSlots
  /\ lost \in 0..MaxMishaps /\ mishaps \in 0..MaxMishaps

(* No database is written to by a restore the audit log does not hold, and *)
(* a restore is SUCCEEDED only after every step of its plan, globals first,*)
(* exited with zero: never because a signal or an error ended it early.    *)
RestoresAreAudited == touched \subseteq audited
SuccessWasApplied ==
  \A j \in Restores : row[j] # "SUCCEEDED" /\ row'[j] = "SUCCEEDED" => applied[j] = plan
LedgerTellsTheRestore == [][RestoresAreAudited' /\ SuccessWasApplied]_rvars

(* Cleartext on the scratch volume belongs to the job in hand, or to one   *)
(* whose directory a death or a failed release left to gc, or to one that  *)
(* keeps its reservation because a credential file would not go; and       *)
(* between jobs every slot is back, but for those so kept: a later job that*)
(* waits for one waits for ever.                                           *)
ScratchIsGivenBack ==
  /\ \A c \in clear : c[1] \in {inHand} \cup orphaned \/ (c[1] \in active /\ lost > 0)
  /\ alive /\ rpc = "idle" => slots = lost
=============================================================================
