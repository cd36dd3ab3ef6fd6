------------------------------ MODULE VerifyJob ------------------------------
(***************************************************************************)
(* The verification of one artifact, again and again, by one worker:       *)
(* jobs/verify.ts (runVerifyJob), jobs/verify-wiring.ts, runVerify in      *)
(* jobs/worker-wiring.ts, the restore pipeline of jobs/restore-executor.ts *)
(* it runs into a sandbox, and the sandbox's life in                       *)
(* packages/runner/src/docker.ts.                                          *)
(*                                                                         *)
(* The artifact is one row and two stored objects.  The environment damages*)
(* or loses the objects, deletes the row, scopes the target anew, kills    *)
(* the process and sweeps containers; a tool may exit non-zero for reasons *)
(* of its own.  What the row says afterwards has to follow from bytes that *)
(* somebody read.                                                          *)
(***************************************************************************)
EXTENDS Integers, FiniteSets

CONSTANTS
  MaxRuns,     \* bound on the verify jobs
  NoRun,       \* no job in hand
  MaxFaults,   \* bound on database writes that throw
  MaxCrashes,  \* bound on process crashes
  MaxKills,    \* bound on sandboxes swept while a verify uses them
  MaxDamage    \* bound on what happens to the objects, the row and the scope

ASSUME VerifyBounds ==
  /\ MaxRuns \in Nat /\ MaxFaults \in Nat /\ MaxCrashes \in Nat
  /\ MaxKills \in Nat /\ MaxDamage \in Nat
  /\ NoRun \notin Nat

Runs      == 1..MaxRuns
Objects   == {"globals", "dump"}
(* "unusable": stored as it was dumped, and it restores to no schema.      *)
Health    == {"good", "unusable", "rotted", "missing"}
Levels    == {"NONE", "CHECKSUM", "FULL_RESTORE"}
Proofs    == {"VERIFIED", "FAILED", "INCONCLUSIVE"}
JobStates == {"PENDING", "RUNNING", "SUCCEEDED", "FAILED", "INCONCLUSIVE"}
(* The first database of the target's scope: none, one the archive holds,  *)
(* or one it does not.                                                     *)
Scopes    == {"none", "held", "other"}
(* What condemns over good objects: a tool's own exit, or a count taken in *)
(* a database the archive does not hold.                                   *)
Causes    == {"none", "tool", "count"}

VARIABLES
  obj,       \* the stored objects
  art,       \* Artifact.state, "DELETED" without a row
  level,     \* Artifact.verifiedLevel, "NONE" for null
  proven,    \* the level whose verdict art holds
  blamed,    \* history: the cause of the verdict art holds
  scope,     \* the target's scope by now
  twofold,   \* PostgreSQL: a globals object of its own
  run,       \* BackupJob.state of the verify jobs
  now,       \* the job in hand
  pc,        \* where runVerify is
  want,      \* plan.effectiveLevel, then the level runVerifyJob runs at
  seen,      \* what was read of each object, "unread" before
  origin,    \* the scope this job read, where its assertion will count
  proof,     \* the attempt's proof
  cause,     \* history: what the proof rests on beside the objects
  sandbox,   \* the ephemeral database container exists
  faults, crashes, kills, damage

locals == <<want, seen, origin, proof, cause>>
budget == <<faults, crashes, kills, damage>>
vars   == <<obj, art, level, proven, blamed, scope, twofold, run, now, pc, locals, sandbox, budget>>

Pcs == {"idle", "claimed", "begin", "checksum", "reserve", "start", "fetchGlobals",
        "restoreGlobals", "fetchDump", "restoreDump", "assert", "verdict",
        "settle", "caught", "provenance", "done", "thrown", "down"}
InSandbox == {"fetchGlobals", "restoreGlobals", "fetchDump", "restoreDump", "assert"}

TypeOK ==
  /\ obj \in [Objects -> Health]
  /\ art \in {"UNOBSERVED", "VERIFIED", "FAILED", "DELETED"}
  /\ level \in Levels /\ proven \in Levels /\ want \in Levels
  /\ {twofold, sandbox} \subseteq BOOLEAN
  /\ scope \in Scopes /\ origin \in Scopes /\ blamed \in Causes /\ cause \in Causes
  /\ run \in [Runs -> JobStates] /\ now \in Runs \cup {NoRun} /\ pc \in Pcs
  /\ seen \in [Objects -> Health \cup {"unread"}]
  /\ proof \in Proofs
  /\ faults \in 0..MaxFaults /\ crashes \in 0..MaxCrashes
  /\ kills \in 0..MaxKills /\ damage \in 0..MaxDamage

Unread == [o \in Objects |-> "unread"]

Init ==
  /\ obj \in {o \in [Objects -> {"good", "unusable"}] : o["globals"] = "good"}
  /\ art = "UNOBSERVED" /\ level = "NONE" /\ proven = "NONE"
  /\ twofold \in BOOLEAN /\ scope \in {"none", "held"} /\ origin = "none"
  /\ blamed = "none" /\ cause = "none"
  /\ run = [b \in Runs |-> "PENDING"] /\ now = NoRun /\ pc = "idle"
  /\ want = "NONE" /\ seen = Unread /\ proof = "INCONCLUSIVE"
  /\ sandbox = FALSE
  /\ faults = 0 /\ crashes = 0 /\ kills = 0 /\ damage = 0

Goto(from, to) == pc = from /\ pc' = to
Fault == faults < MaxFaults /\ faults' = faults + 1 /\ UNCHANGED <<crashes, kills, damage>>
SetJob(s) == run' = [run EXCEPT ![now] = s]
(* A job that is over takes with it what it knew.                          *)
Forget ==
  /\ want' = "NONE" /\ seen' = Unread /\ origin' = "none"
  /\ proof' = "INCONCLUSIVE" /\ cause' = "none"
Read(o) == seen' = [seen EXCEPT ![o] = obj[o]]
row   == <<art, level, proven, blamed>>
traits == <<scope, twofold>>
world == <<obj, row, traits>>

-----------------------------------------------------------------------------
(* runVerify, up to runVerifyJob.                                          *)

Claim ==
  /\ Goto("idle", "claimed")
  /\ \E b \in Runs :
       /\ run[b] = "PENDING" /\ \A a \in Runs : run[a] = "PENDING" => b <= a
       /\ run' = [run EXCEPT ![b] = "RUNNING"] /\ now' = b
  /\ UNCHANGED <<world, locals, sandbox, budget>>

(* No artifact, another organization's, no destination: failJob.           *)
EarlyReturn ==
  /\ Goto("claimed", "done")
  /\ SetJob("FAILED")
  /\ UNCHANGED <<world, now, want, seen, origin, proof, cause, sandbox, budget>>

(* Where the assertion counts: PostgreSQL in every schema of the sandbox's *)
(* database, the others in the first database the target is scoped to now. *)
Origin == IF twofold THEN "held" ELSE scope

(* Mutant: an unscoped target keeps its FULL_RESTORE.                      *)
EffectiveAsRequested(requested) == requested

(* resolveVerifyPlan over the policy's level and the target's scope of the *)
(* moment: without a scope the assertion would count a system database, so *)
(* the artifact is checksummed.  (A sealed destination downgrades too: it  *)
(* shows as a CHECKSUM request.)                                           *)
Effective(requested) ==
  IF requested = "FULL_RESTORE" /\ Origin = "none" THEN "CHECKSUM" ELSE requested
Plan ==
  /\ Goto("claimed", "begin")
  /\ art # "DELETED"
  /\ \E requested \in Levels : want' = Effective(requested)
  /\ origin' = Origin
  /\ UNCHANGED <<world, run, now, seen, proof, cause, sandbox, budget>>

-----------------------------------------------------------------------------
(* runVerifyJob: setJobState(RUNNING), then the attempt.                   *)

Begin ==
  /\ \/ want = "CHECKSUM" /\ Goto("begin", "checksum")
     \/ want = "FULL_RESTORE" /\ Goto("begin", "reserve")
  /\ UNCHANGED <<world, run, now, locals, sandbox, budget>>

(* Verify is off: the job succeeds over an artifact nobody looked at.      *)
VerifyOff ==
  /\ want = "NONE" /\ Goto("begin", "done")
  /\ SetJob("SUCCEEDED")
  /\ UNCHANGED <<world, now, want, seen, origin, proof, cause, sandbox, budget>>

BeginThrows ==
  /\ Goto("begin", "thrown") /\ Fault
  /\ UNCHANGED <<world, run, now, locals, sandbox>>

(* compareChecksum reads the dump object only.  Gone is a verdict ...      *)
ChecksumProof(h) ==
  CASE h \in {"good", "unusable"} -> "VERIFIED"
    [] h \in {"rotted", "missing"} -> "FAILED"
CompareChecksum ==
  /\ Goto("checksum", "verdict")
  /\ Read("dump") /\ proof' = ChecksumProof(obj["dump"])
  /\ UNCHANGED <<world, run, now, want, origin, cause, sandbox, budget>>

(* ... and a bucket that cannot be read says nothing.                      *)
ChecksumUnreadable ==
  /\ Goto("checksum", "verdict")
  /\ proof' = "INCONCLUSIVE"
  /\ UNCHANGED <<world, run, now, want, seen, origin, cause, sandbox, budget>>

(* runFullRestore's own guards: no scratch, no key, a destination that     *)
(* cannot be opened ...                                                    *)
RestoreGuarded ==
  /\ Goto("reserve", "verdict") /\ proof' = "INCONCLUSIVE"
  /\ UNCHANGED <<world, run, now, want, seen, origin, cause, sandbox, budget>>

(* ... and its total catch: no space, a sandbox that does not come up, a   *)
(* source that cannot be read, a full disk, a timeout, an aborted run.  The*)
(* sandbox goes in the finally, or stays for the next sweep.               *)
RestoreInfraFails ==
  /\ pc \in {"reserve", "start"} \cup InSandbox /\ pc' = "verdict"
  /\ proof' = "INCONCLUSIVE"
  /\ sandbox' \in {FALSE, sandbox}
  /\ UNCHANGED <<world, run, now, want, seen, origin, cause, budget>>

Reserve ==
  /\ Goto("reserve", "start")
  /\ UNCHANGED <<world, run, now, locals, sandbox, budget>>

StartSandbox ==
  /\ Goto("start", "fetchGlobals") /\ sandbox' = TRUE
  /\ UNCHANGED <<world, run, now, locals, budget>>

(* A MySQL or MongoDB artifact has no globals object.                      *)
SkipGlobals ==
  /\ ~twofold /\ Goto("fetchGlobals", "fetchDump")
  /\ UNCHANGED <<world, run, now, locals, sandbox, budget>>

(* restoreOne: download, decrypt, gunzip.  A missing object is a source    *)
(* that cannot be read (RestoreInfraFails).                                *)
Fetch(o, from, to) ==
  /\ Goto(from, to) /\ (o = "globals" => twofold)
  /\ obj[o] \in {"good", "unusable"} /\ Read(o)
  /\ UNCHANGED <<world, run, now, want, origin, proof, cause, sandbox, budget>>
DecryptFails(o, from) ==
  /\ Goto(from, "verdict") /\ (o = "globals" => twofold)
  /\ obj[o] = "rotted" /\ Read(o)
  /\ proof' = "FAILED" /\ sandbox' \in {FALSE, sandbox}
  /\ UNCHANGED <<world, run, now, want, origin, cause, budget>>

(* The engine's restore tool, into the sandbox.                            *)
Restore(from, to) ==
  /\ Goto(from, to) /\ sandbox
  /\ UNCHANGED <<world, run, now, locals, sandbox, budget>>
(* It exits non-zero: over a dump it cannot apply, with the sandbox or its *)
(* own container gone, or over a good dump in a sandbox that stands (an    *)
(* extension or a role it lacks, no memory).  classifyVerifyError takes    *)
(* every exit for the artifact's.                                          *)
RestoreFails(o, from) ==
  /\ Goto(from, "verdict")
  /\ proof' = "FAILED" /\ cause' = IF seen[o] = "good" /\ sandbox THEN "tool" ELSE "none"
  /\ sandbox' \in {FALSE, sandbox}
  /\ UNCHANGED <<world, run, now, want, seen, origin, budget>>

(* buildVerifyAssertions counts what was restored, where origin says: in   *)
(* no scope the system tables of the sandbox; in a database the archive    *)
(* does not hold, nothing, or what a script that names none restored there.*)
AssertSchema ==
  /\ Goto("assert", "verdict")
  /\ \/ /\ sandbox /\ (seen["dump"] = "good" \/ origin = "none")
        /\ proof' = "VERIFIED" /\ UNCHANGED cause
     \/ /\ ~sandbox \/ (seen["dump"] # "good" /\ origin # "none")
        /\ proof' = "FAILED" /\ UNCHANGED cause
     \/ /\ sandbox /\ origin = "other"
        /\ proof' = "FAILED" /\ cause' = "count"
  /\ sandbox' \in {FALSE, sandbox}
  /\ UNCHANGED <<world, run, now, want, seen, origin, budget>>
(* The check itself exits non-zero.                                        *)
AssertionFails ==
  /\ Goto("assert", "verdict")
  /\ proof' = "FAILED" /\ cause' = IF sandbox THEN "tool" ELSE "none"
  /\ sandbox' \in {FALSE, sandbox}
  /\ UNCHANGED <<world, run, now, want, seen, origin, budget>>

Attempt ==
  \/ Begin \/ VerifyOff \/ BeginThrows
  \/ CompareChecksum \/ ChecksumUnreadable
  \/ RestoreGuarded \/ Reserve \/ StartSandbox \/ SkipGlobals \/ RestoreInfraFails
  \/ Fetch("globals", "fetchGlobals", "restoreGlobals")
  \/ DecryptFails("globals", "fetchGlobals")
  \/ Restore("restoreGlobals", "fetchDump") \/ RestoreFails("globals", "restoreGlobals")
  \/ Fetch("dump", "fetchDump", "restoreDump")
  \/ DecryptFails("dump", "fetchDump")
  \/ Restore("restoreDump", "assert") \/ RestoreFails("dump", "restoreDump")
  \/ AssertSchema \/ AssertionFails

-----------------------------------------------------------------------------
(* The verdict: the artifact's state, then the job's, then the provenance. *)

Inconclusive ==
  /\ proof = "INCONCLUSIVE"
  /\ \/ /\ Goto("verdict", "done")
        /\ SetJob("INCONCLUSIVE") /\ UNCHANGED budget
     \/ /\ Goto("verdict", "caught") /\ Fault
        /\ UNCHANGED run
  /\ UNCHANGED <<world, now, want, seen, origin, proof, cause, sandbox>>

(* setArtifactState: an UPDATE by id, which throws when the row is gone.   *)
SetArtifactState ==
  /\ proof # "INCONCLUSIVE" /\ art # "DELETED"
  /\ Goto("verdict", "settle")
  /\ art' = proof /\ proven' = want /\ blamed' = cause
  /\ UNCHANGED <<obj, level, traits, run, now, locals, sandbox, budget>>
SetArtifactStateThrows ==
  /\ proof # "INCONCLUSIVE"
  /\ Goto("verdict", "caught")
  /\ \/ art = "DELETED" /\ UNCHANGED budget
     \/ Fault
  /\ UNCHANGED <<world, run, now, locals, sandbox>>

SetJobState ==
  /\ Goto("settle", "provenance")
  /\ SetJob(IF proof = "VERIFIED" THEN "SUCCEEDED" ELSE "FAILED")
  /\ UNCHANGED <<world, now, want, seen, origin, proof, cause, sandbox, budget>>
SetJobStateThrows ==
  /\ Goto("settle", "caught") /\ Fault
  /\ UNCHANGED <<world, run, now, locals, sandbox>>

(* Mutant: the catch condemns the artifact, as it once did.                *)
CatchCondemns ==
  /\ Goto("caught", "done")
  /\ SetJob("FAILED")
  /\ art' = IF art = "DELETED" THEN art ELSE "FAILED"
  /\ UNCHANGED <<obj, level, proven, blamed, traits, now, want, seen, origin, proof, cause,
                 sandbox, budget>>

(* The catch: INCONCLUSIVE, "artifact unchanged".                          *)
Catch ==
  /\ Goto("caught", "done")
  /\ SetJob("INCONCLUSIVE")
  /\ UNCHANGED <<world, now, want, seen, origin, proof, cause, sandbox, budget>>
CatchThrows ==
  /\ Goto("caught", "thrown") /\ Fault
  /\ UNCHANGED <<world, run, now, locals, sandbox>>

(* verifiedProvenance, an UPDATE of its own.                               *)
RecordProvenance ==
  /\ art # "DELETED" /\ Goto("provenance", "done")
  /\ level' = want
  /\ UNCHANGED <<obj, art, proven, blamed, traits, run, now, locals, sandbox, budget>>
RecordProvenanceThrows ==
  /\ Goto("provenance", "thrown")
  /\ \/ art = "DELETED" /\ UNCHANGED budget
     \/ Fault
  /\ UNCHANGED <<world, run, now, locals, sandbox>>

Finish ==
  /\ Goto("done", "idle") /\ now' = NoRun /\ Forget
  /\ UNCHANGED <<world, run, sandbox, budget>>

(* runWorkerOnce: FAILED, or the write fails too and the row stays as it is*)
FailJob ==
  /\ Goto("thrown", "idle") /\ now' = NoRun /\ Forget
  /\ \/ SetJob("FAILED") /\ UNCHANGED budget
     \/ Fault /\ UNCHANGED run
  /\ UNCHANGED <<world, sandbox>>

Conclude ==
  \/ Inconclusive \/ SetArtifactState \/ SetArtifactStateThrows
  \/ SetJobState \/ SetJobStateThrows \/ Catch \/ CatchThrows
  \/ RecordProvenance \/ RecordProvenanceThrows \/ Finish \/ FailJob

-----------------------------------------------------------------------------
(* The environment.                                                        *)

Damage(o, h) ==
  /\ obj[o] \in {"good", "unusable"} /\ damage < MaxDamage /\ damage' = damage + 1
  /\ obj' = [obj EXCEPT ![o] = h]
  /\ UNCHANGED <<row, traits, run, now, pc, locals, sandbox, faults, crashes, kills>>

(* The operator scopes the target anew.                                    *)
Rescope ==
  /\ damage < MaxDamage /\ damage' = damage + 1
  /\ scope' \in Scopes \ {scope}
  /\ UNCHANGED <<obj, row, twofold, run, now, pc, locals, sandbox, faults, crashes, kills>>

DeleteRow ==
  /\ art # "DELETED" /\ damage < MaxDamage /\ damage' = damage + 1
  /\ art' = "DELETED"
  /\ UNCHANGED <<obj, level, proven, blamed, traits, run, now, pc, locals, sandbox, faults,
                 crashes, kills>>

Crash ==
  /\ pc # "down" /\ crashes < MaxCrashes /\ crashes' = crashes + 1
  /\ pc' = "down" /\ now' = NoRun /\ Forget
  /\ UNCHANGED <<world, run, sandbox, faults, kills, damage>>

(* Boot: orphan recovery, then the sweep.                                  *)
Boot ==
  /\ Goto("down", "idle")
  /\ run' = [b \in Runs |-> IF run[b] = "RUNNING" THEN "FAILED" ELSE run[b]]
  /\ sandbox' = FALSE
  /\ UNCHANGED <<world, now, locals, budget>>

(* Mutant: there is no sweep after boot.                                   *)
SweepNever == FALSE /\ UNCHANGED vars

(* The hourly sweep does not look at who uses a container.                 *)
Sweep ==
  /\ pc # "down" /\ sandbox /\ sandbox' = FALSE
  /\ IF pc \in InSandbox THEN kills < MaxKills /\ kills' = kills + 1 ELSE UNCHANGED kills
  /\ UNCHANGED <<world, run, now, pc, locals, faults, crashes, damage>>

Worker == Claim \/ EarlyReturn \/ Plan \/ Attempt \/ Conclude
Environment ==
  \/ \E o \in Objects, h \in {"rotted", "missing"} : Damage(o, h)
  \/ Rescope \/ DeleteRow \/ Crash

Next == Worker \/ Environment \/ Boot \/ Sweep
Spec == Init /\ [][Next]_vars

(* Every run has a timeout and every other await a client's, so a live     *)
(* worker goes on; a dead one is restarted; the sweep comes every hour.    *)
FairSpec == Spec /\ WF_vars(Worker) /\ WF_vars(Boot) /\ SF_vars(Sweep)

-----------------------------------------------------------------------------
(* Properties.                                                             *)

(* An artifact is condemned by a verdict about the artifact (verify.ts):   *)
(* whatever the bucket, the scratch disk, the daemon, the database or a    *)
(* shutdown did, a FAILED artifact has a damaged or unusable object, with  *)
(* two exceptions the code makes.  A restore or assertion that exited      *)
(* non-zero condemns whatever its reason; and, but for PostgreSQL, so does *)
(* a count in a database the target was scoped to after the dump.  Neither *)
(* is an excuse for a CHECKSUM, and a sandbox taken away is none at all.   *)
CondemnedOnEvidence ==
  art = "FAILED" =>
    \/ \E o \in Objects : obj[o] # "good"
    \/ blamed = "tool" /\ proven = "FULL_RESTORE"
    \/ blamed = "count" /\ proven = "FULL_RESTORE" /\ ~twofold

(* A state is reached only through bytes read in this job: green at        *)
(* FULL_RESTORE after both objects came back good, green at CHECKSUM after *)
(* the dump was read whole, and no state at all at NONE.  Without a lost   *)
(* write or a crash the level on record is the one whose verdict the       *)
(* artifact carries.                                                       *)
GreenReadTheBytes ==
  /\ [][art' = "VERIFIED" /\ pc = "verdict" /\ pc' = "settle" =>
          /\ want \in {"CHECKSUM", "FULL_RESTORE"}
          /\ seen["dump"] \in (IF want = "CHECKSUM" THEN {"good", "unusable"} ELSE {"good"})
          /\ want = "FULL_RESTORE" /\ twofold => seen["globals"] = "good"]_vars
  /\ [](pc = "idle" /\ faults = 0 /\ crashes = 0 /\ art \in {"VERIFIED", "FAILED"}
           => level = proven)

(* No sandbox, with a restored copy of the data in it, stays for good.     *)
SandboxGoes == sandbox ~> ~sandbox
=============================================================================
