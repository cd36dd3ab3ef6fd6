------------------------------- MODULE Worker -------------------------------
(***************************************************************************)
(* The worker of every server replica and the job table they share:        *)
(* apps/server/src/server.ts (worker boot), jobs/{claim,worker,loop,       *)
(* shutdown}.ts, scheduler/advisory-lock.ts and the parts of               *)
(* jobs/worker-wiring.ts and packages/runner/src/docker.ts they call.      *)
(*                                                                         *)
(* A replica is one process.  It boots (orphan recovery, then a sweep of   *)
(* abandoned containers, each under the WORKER advisory lock), then runs   *)
(* two loops over the same lock: the drain loop claims jobs and executes   *)
(* them one at a time, the hourly sweep loop removes managed containers.   *)
(* SIGTERM stops it with a grace period, SIGKILL or a host crash stops it  *)
(* at once.  The job rows live in the metadata database and outlive it.    *)
(***************************************************************************)
EXTENDS Integers, FiniteSets, AdvisoryLock

CONSTANTS
  Replicas,      \* server processes, each with its own lock session
  NoJob,         \* no job in hand
  MaxJobs,       \* bound on the rows ever created
  MaxCrashes,    \* bound on crashes and on exits that outlast the grace
  MaxFaults,     \* bound on metadata-database writes that throw
  MaxStops       \* bound on SIGTERMs

ASSUME BoundsAssumption ==
  /\ MaxJobs \in Nat /\ MaxCrashes \in Nat
  /\ MaxFaults \in Nat /\ MaxStops \in Nat
ASSUME NamesAssumption ==
  /\ Nobody \notin Replicas /\ Stale \notin Replicas /\ Nobody # Stale
  /\ NoJob \notin Nat

Jobs     == 1..MaxJobs          \* in createdAt order
Kinds    == {"BACKUP", "VERIFY", "RESTORE", "RETENTION"}
Terminal == {"SUCCEEDED", "FAILED", "INCONCLUSIVE"}
States   == {"ABSENT", "PENDING", "RUNNING"} \cup Terminal

VARIABLES
  job,         \* BackupJob.state of every row, "ABSENT" before its INSERT
  kind,        \* BackupJob.kind
  lock,        \* the WORKER advisory lock
  phase,       \* per replica: where the process is in its life
  wpc,         \* per replica: where the drain loop is
  cur,         \* per replica: the job runWorkerOnce has in hand
  todo,        \* per replica: follow-ups still to enqueue
  spc,         \* per replica: where the sweep is
  victims,     \* per replica: containers the sweep listed and has to remove
  containers,  \* managed containers on the Docker host, named by their job
  late,        \* per replica: jobs claimed since its shutdown began
  crashes, faults, stops

rows   == <<job, kind>>
drain  == <<wpc, cur, todo, late>>
sweep  == <<spc, victims>>
budget == <<crashes, faults, stops>>
vars   == <<rows, lock, phase, drain, sweep, containers, budget>>

Phases == {"down", "boot", "recover", "bootsweep", "up", "stopping", "exiting"}
DrainPcs == {"idle", "drain", "claiming", "claimed", "executing", "working",
             "settled", "crashed", "chain", "unlock"}
SweepPcs == {"idle", "list", "remove"}

TypeOK ==
  /\ job \in [Jobs -> States]
  /\ kind \in [Jobs -> Kinds]
  /\ lock \in Locks(Replicas)
  /\ phase \in [Replicas -> Phases]
  /\ wpc \in [Replicas -> DrainPcs]
  /\ cur \in [Replicas -> Jobs \cup {NoJob}]
  /\ todo \in [Replicas -> SUBSET {"VERIFY", "RETENTION"}]
  /\ spc \in [Replicas -> SweepPcs]
  /\ victims \in [Replicas -> SUBSET Jobs]
  /\ containers \in SUBSET Jobs
  /\ late \in [Replicas -> Nat]
  /\ crashes \in 0..MaxCrashes /\ faults \in 0..MaxFaults /\ stops \in 0..MaxStops

Init ==
  /\ job = [j \in Jobs |-> "ABSENT"]
  /\ kind = [j \in Jobs |-> "BACKUP"]
  /\ lock = Free
  /\ phase = [r \in Replicas |-> "down"]
  /\ wpc = [r \in Replicas |-> "idle"]
  /\ cur = [r \in Replicas |-> NoJob]
  /\ todo = [r \in Replicas |-> {}]
  /\ spc = [r \in Replicas |-> "idle"]
  /\ victims = [r \in Replicas |-> {}]
  /\ containers = {}
  /\ late = [r \in Replicas |-> 0]
  /\ crashes = 0 /\ faults = 0 /\ stops = 0

Aborted(r) == phase[r] \in {"stopping", "exiting"}   \* shutdownController

(* r's process and its lock session are both alive: it has not been told   *)
(* to exit with work in hand, and it has not dropped its connection.       *)
InSession(r) == phase[r] \notin {"down", "exiting"}

Transition(r, from, to) == wpc[r] = from /\ wpc' = [wpc EXCEPT ![r] = to]

-----------------------------------------------------------------------------
(* The job table.                                                          *)

(* INSERT of a PENDING row: the createdAt order is the order of insertion. *)
Insert(j, k) ==
  /\ job[j] = "ABSENT" /\ \A i \in Jobs : i < j => job[i] # "ABSENT"
  /\ job' = [job EXCEPT ![j] = "PENDING"]
  /\ kind' = [kind EXCEPT ![j] = k]

(* UPDATE ... SET state WHERE id: whatever the state was.                  *)
SetState(j, s) == job' = [job EXCEPT ![j] = s] /\ UNCHANGED kind

(* Mutants: a claim whose subquery ignores the state, and one that ignores *)
(* the order.                                                              *)
IsOldestUnfinished(j) ==
  /\ job[j] \in {"PENDING", "RUNNING"}
  /\ \A i \in Jobs : job[i] \in {"PENDING", "RUNNING"} => j <= i
IsAnyPending(j) == job[j] = "PENDING"

(* The oldest PENDING row, the one claimNextJob's subquery selects.        *)
IsOldestPending(j) ==
  /\ job[j] = "PENDING"
  /\ \A i \in Jobs : job[i] = "PENDING" => j <= i

(* The API and the scheduler insert jobs in a process of their own right:  *)
(* no lock of this module guards them.                                     *)
Enqueue(k) ==
  /\ \E j \in Jobs : Insert(j, k)
  /\ UNCHANGED <<lock, phase, drain, sweep, containers, budget>>

-----------------------------------------------------------------------------
(* Boot.                                                                   *)

Start(r) ==
  /\ phase[r] = "down"
  /\ phase' = [phase EXCEPT ![r] = "boot"]
  /\ UNCHANGED <<rows, lock, drain, sweep, containers, budget>>

(* Mutant: the answer of tryLock is not looked at.                         *)
BootIgnoresLock(r) ==
  /\ phase[r] = "boot"
  /\ lock' = IF CanTake(lock, r) THEN Take(lock, r) ELSE lock
  /\ phase' = [phase EXCEPT ![r] = "recover"]
  /\ UNCHANGED <<rows, drain, sweep, containers, budget>>

(* withAdvisoryLock(WORKER, recoverOrphanedJobs): skipped when another     *)
(* session holds the lock.                                                 *)
BootTryLock(r) ==
  /\ phase[r] = "boot"
  /\ IF CanTake(lock, r)
     THEN lock' = Take(lock, r) /\ phase' = [phase EXCEPT ![r] = "recover"]
     ELSE UNCHANGED lock /\ phase' = [phase EXCEPT ![r] = "bootsweep"]
  /\ UNCHANGED <<rows, drain, sweep, containers, budget>>

RecoverOrphanedJobs(r) ==
  /\ phase[r] = "recover"
  /\ job' = [j \in Jobs |-> IF job[j] = "RUNNING" THEN "FAILED" ELSE job[j]]
  /\ lock' = Release(lock, r)
  /\ phase' = [phase EXCEPT ![r] = "bootsweep"]
  /\ UNCHANGED <<kind, drain, sweep, containers, budget>>

(* The boot sweep found the lock taken: the loops start without it.        *)
SkipBootSweep(r) ==
  /\ phase[r] = "bootsweep" /\ spc[r] = "idle" /\ ~CanTake(lock, r)
  /\ phase' = [phase EXCEPT ![r] = "up"]
  /\ UNCHANGED <<rows, lock, drain, sweep, containers, budget>>

-----------------------------------------------------------------------------
(* The sweep: once at boot, then hourly, every time under the WORKER lock. *)

(* Mutants: a sweep without the lock, and no sweep after boot.             *)
SweepWithoutLock(r) ==
  /\ phase[r] \in {"bootsweep", "up"} /\ spc[r] = "idle"
  /\ spc' = [spc EXCEPT ![r] = "list"]
  /\ UNCHANGED <<rows, lock, phase, drain, victims, containers, budget>>
SweepAtBootOnly(r) ==
  /\ phase[r] = "bootsweep" /\ spc[r] = "idle"
  /\ CanTake(lock, r)
  /\ lock' = Take(lock, r)
  /\ spc' = [spc EXCEPT ![r] = "list"]
  /\ UNCHANGED <<rows, phase, drain, victims, containers, budget>>

SweepTryLock(r) ==
  /\ phase[r] \in {"bootsweep", "up"} /\ spc[r] = "idle"
  /\ CanTake(lock, r)
  /\ lock' = Take(lock, r)
  /\ spc' = [spc EXCEPT ![r] = "list"]
  /\ UNCHANGED <<rows, phase, drain, victims, containers, budget>>

(* listContainers filters on the managed label and on nothing else.        *)
SweepList(r) ==
  /\ spc[r] = "list"
  /\ victims' = [victims EXCEPT ![r] = containers]
  /\ spc' = [spc EXCEPT ![r] = "remove"]
  /\ UNCHANGED <<rows, lock, phase, drain, containers, budget>>

(* Forced removal; one that fails is left for the next sweep.              *)
SweepRemove(r) ==
  /\ spc[r] = "remove"
  /\ \E c \in victims[r] :
       /\ victims' = [victims EXCEPT ![r] = @ \ {c}]
       /\ \/ containers' = containers \ {c} /\ UNCHANGED faults
          \/ UNCHANGED containers /\ faults < MaxFaults /\ faults' = faults + 1
  /\ UNCHANGED <<rows, lock, phase, drain, spc, crashes, stops>>

SweepUnlock(r) ==
  /\ spc[r] = "remove" /\ victims[r] = {}
  /\ spc' = [spc EXCEPT ![r] = "idle"]
  /\ lock' = Release(lock, r)
  /\ phase' = [phase EXCEPT ![r] = IF @ = "bootsweep" THEN "up" ELSE @]
  /\ UNCHANGED <<rows, drain, victims, containers, budget>>

-----------------------------------------------------------------------------
(* The drain loop: withAdvisoryLock(WORKER, drainQueue).                   *)

TickTryLock(r) ==
  /\ phase[r] = "up"
  /\ CanTake(lock, r)
  /\ Transition(r, "idle", "drain")
  /\ lock' = Take(lock, r)
  /\ UNCHANGED <<rows, phase, cur, todo, late, sweep, containers, budget>>

(* Mutants: the signal is not looked at, and is looked at backwards.       *)
AskRegardless(r) ==
  /\ Transition(r, "drain", "claiming")
  /\ UNCHANGED <<rows, lock, phase, cur, todo, late, sweep, containers, budget>>
AskOnlyWhenAborted(r) ==
  /\ Transition(r, "drain", IF Aborted(r) THEN "claiming" ELSE "unlock")
  /\ UNCHANGED <<rows, lock, phase, cur, todo, late, sweep, containers, budget>>

(* The store's claimNextJob answers null once the shutdown signal is set.  *)
AskForJob(r) ==
  /\ Transition(r, "drain", IF Aborted(r) THEN "unlock" ELSE "claiming")
  /\ UNCHANGED <<rows, lock, phase, cur, todo, late, sweep, containers, budget>>

(* UPDATE ... WHERE id = (oldest PENDING, FOR UPDATE SKIP LOCKED).  The    *)
(* statement may reach the database after a shutdown began.                *)
ClaimNextJob(r) ==
  /\ Transition(r, "claiming", "claimed")
  /\ \E j \in Jobs :
       /\ IsOldestPending(j)
       /\ SetState(j, "RUNNING")
       /\ cur' = [cur EXCEPT ![r] = j]
  /\ late' = [late EXCEPT ![r] = IF Aborted(r) THEN @ + 1 ELSE @]
  /\ UNCHANGED <<lock, phase, todo, sweep, containers, budget>>

ClaimFindsNothing(r) ==
  /\ \A j \in Jobs : job[j] # "PENDING"
  /\ Transition(r, "claiming", "unlock")
  /\ UNCHANGED <<rows, lock, phase, cur, todo, late, sweep, containers, budget>>

(* The claim throws: before it took effect, or after, its answer lost.     *)
ClaimThrows(r) ==
  /\ faults < MaxFaults /\ faults' = faults + 1
  /\ Transition(r, "claiming", "unlock")
  /\ \/ UNCHANGED rows
     \/ \E j \in Jobs : IsOldestPending(j) /\ SetState(j, "RUNNING")
  /\ UNCHANGED <<lock, phase, cur, todo, late, sweep, containers, crashes, stops>>

DrainUnlock(r) ==
  /\ Transition(r, "unlock", "idle")
  /\ lock' = Release(lock, r)
  /\ UNCHANGED <<rows, phase, cur, todo, late, sweep, containers, budget>>

-----------------------------------------------------------------------------
(* One claimed job: runWorkerOnce and the executor it dispatches to.  The  *)
(* executor is abstracted to its writes of the job row and its container.  *)

(* setState(RUNNING), then the run: in a container, unless the work needs  *)
(* none (retention, a checksum).  A run asked for after the abort signal   *)
(* is refused before it creates a container.                               *)
StartExecutor(r) ==
  LET j == cur[r] IN
  /\ \/ /\ Transition(r, "claimed", "executing")
        /\ kind[j] # "RETENTION" /\ ~Aborted(r)
        /\ containers' = containers \cup {j}
     \/ /\ Transition(r, "claimed", "working")
        /\ kind[j] \in {"VERIFY", "RETENTION"}
        /\ UNCHANGED containers
  /\ IF kind[j] = "RETENTION" THEN UNCHANGED rows ELSE SetState(j, "RUNNING")
  /\ UNCHANGED <<lock, phase, cur, todo, late, sweep, budget>>

(* The port wrote SUCCEEDED.  A container somebody removed ends the run    *)
(* with exit code 137, which no engine reports as success.  What to chain  *)
(* was read from the policy before the run.                                *)
SettleSucceeded(r) ==
  LET j == cur[r] IN
  /\ \/ Transition(r, "executing", "settled") /\ j \in containers
     \/ Transition(r, "working", "settled")
  /\ SetState(j, "SUCCEEDED")
  /\ containers' = containers \ {j}
  /\ \E t \in SUBSET (IF kind[j] = "BACKUP" THEN {"VERIFY", "RETENTION"} ELSE {}) :
       todo' = [todo EXCEPT ![r] = t]
  /\ UNCHANGED <<lock, phase, cur, late, sweep, budget>>

(* The port wrote FAILED, or INCONCLUSIVE for a check that could not run.  *)
SettleFailed(r) ==
  LET j == cur[r] IN
  /\ wpc[r] \in {"claimed", "executing", "working"}
  /\ wpc' = [wpc EXCEPT ![r] = "settled"]
  /\ \/ SetState(j, "FAILED")
     \/ kind[j] = "VERIFY" /\ SetState(j, "INCONCLUSIVE")
  /\ containers' = containers \ {j}
  /\ UNCHANGED <<lock, phase, cur, todo, late, sweep, budget>>

(* The executor throws before it wrote a terminal state ...                *)
ExecutorThrows(r) ==
  /\ wpc[r] \in {"claimed", "executing", "working"}
  /\ wpc' = [wpc EXCEPT ![r] = "crashed"]
  /\ containers' = containers \ {cur[r]}
  /\ UNCHANGED <<rows, lock, phase, cur, todo, late, sweep, budget>>

(* ... or after: runBackup still removes the credential file, runVerify    *)
(* still records the provenance of its verdict.                            *)
TailThrows(r) ==
  /\ faults < MaxFaults /\ faults' = faults + 1
  /\ Transition(r, "settled", "crashed")
  /\ kind[cur[r]] \in {"BACKUP", "VERIFY"} /\ job[cur[r]] # "INCONCLUSIVE"
  /\ todo' = [todo EXCEPT ![r] = {}]
  /\ UNCHANGED <<rows, lock, phase, cur, late, sweep, containers, crashes, stops>>

FailJob(r) ==
  /\ Transition(r, "crashed", "drain")
  /\ SetState(cur[r], "FAILED")
  /\ cur' = [cur EXCEPT ![r] = NoJob]
  /\ UNCHANGED <<lock, phase, todo, late, sweep, containers, budget>>

(* failJob itself throws: the drain ends, the tick logs it, the row stays. *)
FailJobThrows(r) ==
  /\ faults < MaxFaults /\ faults' = faults + 1
  /\ Transition(r, "crashed", "unlock")
  /\ cur' = [cur EXCEPT ![r] = NoJob]
  /\ UNCHANGED <<rows, lock, phase, todo, late, sweep, containers, crashes, stops>>

ExecutorReturns(r) ==
  /\ Transition(r, "settled", "chain")
  /\ UNCHANGED <<rows, lock, phase, cur, todo, late, sweep, containers, budget>>

(* enqueueVerify, then enqueueRetention.  An enqueue that throws is logged *)
(* and leaves the backup as it is.  The last disjunct is the model's bound *)
(* on rows.                                                                *)
Chain(r) ==
  LET k == IF "VERIFY" \in todo[r] THEN "VERIFY" ELSE "RETENTION" IN
  /\ wpc[r] = "chain" /\ todo[r] # {}
  /\ \/ /\ \E j \in Jobs : Insert(j, k)
        /\ UNCHANGED faults
     \/ /\ faults < MaxFaults /\ faults' = faults + 1
        /\ UNCHANGED rows
     \/ /\ \A j \in Jobs : job[j] # "ABSENT"
        /\ UNCHANGED <<rows, faults>>
  /\ todo' = [todo EXCEPT ![r] = @ \ {k}]
  /\ UNCHANGED <<lock, phase, wpc, cur, late, sweep, containers, crashes, stops>>

EndJob(r) ==
  /\ todo[r] = {}
  /\ Transition(r, "chain", "drain")
  /\ cur' = [cur EXCEPT ![r] = NoJob]
  /\ UNCHANGED <<rows, lock, phase, todo, late, sweep, containers, budget>>

-----------------------------------------------------------------------------
(* The end of a process.                                                   *)

(* What dies with it: everything in memory.  Containers and rows do not.   *)
Wipe(r) ==
  /\ phase' = [phase EXCEPT ![r] = "down"]
  /\ wpc' = [wpc EXCEPT ![r] = "idle"]
  /\ cur' = [cur EXCEPT ![r] = NoJob]
  /\ todo' = [todo EXCEPT ![r] = {}]
  /\ late' = [late EXCEPT ![r] = 0]
  /\ spc' = [spc EXCEPT ![r] = "idle"]
  /\ victims' = [victims EXCEPT ![r] = {}]
  /\ lock' = Abandon(lock, r)

(* SIGKILL, the OOM killer, a host crash, or SIGTERM before the handlers   *)
(* are installed.                                                          *)
Crash(r) ==
  /\ phase[r] # "down"
  /\ crashes < MaxCrashes /\ crashes' = crashes + 1
  /\ Wipe(r)
  /\ UNCHANGED <<rows, containers, faults, stops>>

(* SIGTERM: stop the loops, set the abort signal.  A second one is ignored.*)
Signal(r) ==
  /\ phase[r] = "up"
  /\ stops < MaxStops /\ stops' = stops + 1
  /\ phase' = [phase EXCEPT ![r] = "stopping"]
  /\ UNCHANGED <<rows, lock, drain, sweep, containers, crashes, faults>>

(* The drain is idle, or the grace is over (counted as a crash): the lock  *)
(* connection is dropped, or the attempt hangs and is given up.  The sweep *)
(* is not waited for.                                                      *)
Disconnect(r) ==
  /\ phase[r] = "stopping"
  /\ IF wpc[r] = "idle" THEN UNCHANGED crashes
     ELSE crashes < MaxCrashes /\ crashes' = crashes + 1
  /\ phase' = [phase EXCEPT ![r] = "exiting"]
  /\ lock' \in {lock, EndSession(lock, r)}
  /\ UNCHANGED <<rows, drain, sweep, containers, faults, stops>>

Exit(r) ==
  /\ phase[r] = "exiting"
  /\ Wipe(r)
  /\ UNCHANGED <<rows, containers, budget>>

(* PostgreSQL notices that the client of a session is gone.                *)
ServerEndsStaleSession ==
  /\ lock.holder = Stale
  /\ lock' = Free
  /\ UNCHANGED <<rows, phase, drain, sweep, containers, budget>>

(* The connection of a live process breaks.  The process does not notice   *)
(* until it uses it again.                                                 *)
SessionDrops(r) ==
  /\ InSession(r) /\ lock.holder = r
  /\ crashes < MaxCrashes /\ crashes' = crashes + 1
  /\ lock' = Free
  /\ UNCHANGED <<rows, phase, drain, sweep, containers, faults, stops>>

-----------------------------------------------------------------------------
BootStep(r) ==
  Start(r) \/ BootTryLock(r) \/ RecoverOrphanedJobs(r) \/ SkipBootSweep(r)

SweepStep(r) == SweepList(r) \/ SweepRemove(r) \/ SweepUnlock(r)

ClaimStep(r) ==
  AskForJob(r) \/ ClaimNextJob(r) \/ ClaimFindsNothing(r) \/ ClaimThrows(r)

RunStep(r) ==
  \/ StartExecutor(r) \/ SettleSucceeded(r) \/ SettleFailed(r)
  \/ ExecutorThrows(r) \/ TailThrows(r) \/ FailJob(r) \/ FailJobThrows(r)
  \/ ExecutorReturns(r) \/ Chain(r) \/ EndJob(r)

DrainStep(r) == ClaimStep(r) \/ RunStep(r) \/ DrainUnlock(r)

StopStep(r) == Disconnect(r) \/ Exit(r)

Next ==
  \/ \E k \in {"BACKUP", "VERIFY", "RESTORE"} : Enqueue(k)
  \/ \E r \in Replicas :
       \/ BootStep(r) \/ SweepTryLock(r) \/ SweepStep(r)
       \/ TickTryLock(r) \/ DrainStep(r)
       \/ Crash(r) \/ Signal(r) \/ StopStep(r)
  \/ ServerEndsStaleSession

Spec == Init /\ [][Next]_vars

(* The same system when a lock connection may break under a live process.  *)
NextLossy == Next \/ \E r \in Replicas : SessionDrops(r)
SpecLossy == Init /\ [][NextLossy]_vars

(* A running process takes its steps (one event loop, awaits with timeouts *)
(* of their own), the supervisor restarts one that is down, and PostgreSQL *)
(* ends a dead client's session.  The two ticks only try the lock and come *)
(* back later, so they need the strong form: a tick that finds the lock    *)
(* free again and again is not always the one that comes too late.         *)
Fairness ==
  /\ WF_vars(ServerEndsStaleSession)
  /\ \A r \in Replicas :
       /\ WF_vars(BootStep(r)) /\ WF_vars(SweepStep(r))
       /\ WF_vars(DrainStep(r)) /\ WF_vars(StopStep(r))
       /\ SF_vars(TickTryLock(r)) /\ SF_vars(SweepTryLock(r))
FairSpec == Spec /\ Fairness
FairSpecLossy == SpecLossy /\ Fairness

-----------------------------------------------------------------------------
(* Properties.                                                             *)

(* FOR UPDATE SKIP LOCKED "makes concurrent claims safe without a          *)
(* double-run" (claim.ts): whatever happens to the advisory lock, no two   *)
(* processes ever have the same job in hand, and a job in hand was claimed.*)
NoDoubleRun ==
  /\ \A q, r \in Replicas : q # r /\ cur[q] # NoJob => cur[q] # cur[r]
  /\ \A r \in Replicas : cur[r] # NoJob => job[cur[r]] \notin {"ABSENT", "PENDING"}

(* The WORKER lock keeps one replica draining (server.ts): two processes   *)
(* whose sessions are alive are never both between tryLock and unlock of a *)
(* drain, although each process may hold the lock twice.                   *)
SingleDrainer ==
  \A q, r \in Replicas :
    /\ InSession(q) /\ wpc[q] # "idle"
    /\ InSession(r) /\ wpc[r] # "idle"
    => q = r

(* A shutdown leaves the queue PENDING for the next boot: the drain that   *)
(* keeps looping after the abort signal burns at most the one job whose    *)
(* claim was already on its way.                                           *)
ShutdownBurnsAtMostOne == \A r \in Replicas : late[r] <= 1

(* Boot recovery never fails the job of a live replica (server.ts): while  *)
(* a process and its session live, its RUNNING job leaves RUNNING by a     *)
(* step of that process only.                                              *)
RecoverySparesLiveJobs ==
  [][\A r \in Replicas :
       /\ InSession(r) /\ cur[r] # NoJob
       /\ job[cur[r]] = "RUNNING" /\ job'[cur[r]] # "RUNNING"
       => wpc'[r] # wpc[r]]_vars

(* The sweep does not abort the run of ANOTHER replica: the container of a *)
(* run in progress goes away by a step of its own process, unless a        *)
(* process that has already let go of its lock is still sweeping.          *)
SweepSparesOtherReplicas ==
  [][\A r \in Replicas :
       /\ InSession(r) /\ wpc[r] = "executing"
       /\ cur[r] \in containers \ containers'
       => \/ wpc'[r] # wpc[r] \/ victims'[r] # victims[r]
          \/ \E q \in Replicas : phase[q] = "exiting" /\ victims'[q] # victims[q]]_vars

(* Every job that waits is eventually taken by some replica.               *)
PendingIsClaimed == \A j \in Jobs : job[j] = "PENDING" ~> job[j] # "PENDING"

(* What a killed process left running on the Docker host is eventually     *)
(* removed (server.ts, step 2a).                                           *)
Abandoned(c) == c \in containers /\ \A r \in Replicas : cur[r] # c
AbandonedContainersSwept == \A c \in Jobs : Abandoned(c) ~> ~Abandoned(c)

(* The whole module implements the ledger its users rely on, with the lock *)
(* sessions deciding who is reachable.                                     *)
Ledger == INSTANCE JobLedger WITH
  Workers <- Replicas, Rows <- Jobs, NoRow <- NoJob,
  state <- job, hand <- cur, reachable <- {r \in Replicas : InSession(r)}
ImplementsLedger == Ledger!Spec
=============================================================================
