---------------------------- MODULE VerifyProofs ----------------------------
(***************************************************************************)
(* Proofs about VerifyJob: for any number of jobs, failing writes, crashes,*)
(* sweeps and damage, an artifact is condemned and proven on bytes read.   *)
(***************************************************************************)
EXTENDS VerifyJob, TLAPS

Damaged == \E o \in Objects : obj[o] # "good"
(* What else condemns, at which level and of which engine.                 *)
Excused(why, at) ==
  at = "FULL_RESTORE" /\ (why = "tool" \/ (why = "count" /\ ~twofold))

(* Damage is not undone, so what was read bad is bad still; the globals    *)
(* restore as they were dumped or not at all; a restore whose assertion    *)
(* would count a system database is never planned.                         *)
ReadInv ==
  /\ \A o \in Objects : seen[o] \notin {"unread", "good"} => obj[o] # "good"
  /\ obj["globals"] # "unusable"
  /\ want = "FULL_RESTORE" => origin # "none"
  /\ origin = "other" => ~twofold

(* Where the attempt is: what is wanted, what is read and standing by then.*)
AttemptInv ==
  /\ pc = "checksum" => want = "CHECKSUM"
  /\ pc \in {"reserve", "start"} \cup InSandbox => want = "FULL_RESTORE"
  /\ pc \in {"restoreDump", "assert"} => seen["dump"] \in {"good", "unusable"}
  /\ pc \in {"restoreGlobals", "fetchDump", "restoreDump", "assert"} /\ twofold =>
       seen["globals"] = "good"
  /\ pc = "restoreGlobals" => twofold
  /\ pc \in InSandbox /\ kills = 0 => sandbox
  /\ pc = "settle" => proof # "INCONCLUSIVE"

(* What a verdict rests on, at the moment it is written on the artifact.   *)
VerdictInv ==
  pc = "verdict" =>
    /\ want \in {"CHECKSUM", "FULL_RESTORE"}
    /\ proof = "FAILED" /\ kills = 0 => Damaged \/ Excused(cause, want)
    /\ proof = "VERIFIED" =>
         /\ seen["dump"] \in (IF want = "CHECKSUM" THEN {"good", "unusable"} ELSE {"good"})
         /\ want = "FULL_RESTORE" /\ twofold => seen["globals"] = "good"

(* What stands on the row: a condemnation has its reason, and without a    *)
(* failed write or a crash only the two writes between the verdict and its *)
(* provenance keep the level from being the one that was proven.           *)
RowInv ==
  /\ art = "FAILED" /\ kills = 0 => Damaged \/ Excused(blamed, proven)
  /\ pc \in {"settle", "provenance"} => proven = want
  /\ faults = 0 /\ crashes = 0 /\ art \in {"VERIFIED", "FAILED"} =>
       level = proven \/ pc \in {"settle", "provenance"}

VerifyInv == ReadInv /\ AttemptInv /\ VerdictInv /\ RowInv
IInv == TypeOK /\ VerifyInv

-----------------------------------------------------------------------------
(* The types, one variable at a time.                                      *)

LEMMA IInvInit == Init => IInv
  <1> SUFFICES ASSUME Init PROVE IInv
    OBVIOUS
  <1>1. TypeOK
    <2>1. {twofold, sandbox} \subseteq BOOLEAN
      BY DEF Init
    <2>2. obj \in [Objects -> Health] /\ seen \in [Objects -> Health \cup {"unread"}]
      BY DEF Init, Health, Unread
    <2> QED
      BY <2>1, <2>2, VerifyBounds DEF Init, TypeOK, JobStates, Levels, Proofs, Pcs,
        Scopes, Causes
  <1>2. VerifyInv
    BY DEF Init, VerifyInv, ReadInv, AttemptInv, VerdictInv, RowInv, Unread, Objects, InSandbox
  <1> QED
    BY <1>1, <1>2 DEF IInv

LEMMA TypeStep == IInv /\ Next => TypeOK'
  <1> SUFFICES ASSUME IInv, Next PROVE TypeOK'
    OBVIOUS
  <1>0. TypeOK /\ (pc = "settle" => proof # "INCONCLUSIVE")
    BY DEF IInv, VerifyInv, AttemptInv
  <1> USE DEF Next, Worker, Environment, Attempt, Conclude, Claim, EarlyReturn, Plan, Begin,
    VerifyOff,
    BeginThrows, CompareChecksum, ChecksumUnreadable, RestoreGuarded, Reserve, StartSandbox,
    SkipGlobals, RestoreInfraFails, Fetch, DecryptFails, Restore, RestoreFails, AssertSchema,
    AssertionFails, Rescope, Forget, Origin,
    Inconclusive, SetArtifactState, SetArtifactStateThrows, SetJobState, SetJobStateThrows,
    Catch,
    CatchThrows, RecordProvenance, RecordProvenanceThrows, Finish, FailJob, Damage, DeleteRow,
    Crash, Boot, Sweep, Goto, Fault, SetJob, Read, world, row, traits, locals, budget
  <1>1. obj' \in [Objects -> Health]
    BY <1>0 DEF TypeOK, Health
  <1>2. art' \in {"UNOBSERVED", "VERIFIED", "FAILED", "DELETED"}
    BY <1>0 DEF TypeOK, Proofs
  <1>3. level' \in Levels /\ proven' \in Levels
    BY <1>0 DEF TypeOK
  <1>4. want' \in Levels
    BY <1>0 DEF TypeOK, Levels, Effective
  <1>5. {twofold, sandbox}' \subseteq BOOLEAN
    BY <1>0 DEF TypeOK
  <1>6. run' \in [Runs -> JobStates]
    BY <1>0 DEF TypeOK, JobStates
  <1>7. now' \in Runs \cup {NoRun} /\ pc' \in Pcs
    BY <1>0 DEF TypeOK, Pcs
  <1>8. seen' \in [Objects -> Health \cup {"unread"}]
    BY <1>0 DEF TypeOK, Unread, Objects
  <1>9. proof' \in Proofs
    BY <1>0 DEF TypeOK, Proofs, ChecksumProof, Health, Objects
  <1>10. scope' \in Scopes /\ origin' \in Scopes
    <2>1. scope' \in Scopes
      BY <1>0 DEF TypeOK
    <2>2. origin' \in {origin, "none", "held", scope}
      BY <1>0
    <2> HIDE DEF Next
    <2> QED
      BY <1>0, <2>1, <2>2 DEF TypeOK, Scopes
  <1>13. blamed' \in Causes /\ cause' \in Causes
    <2>1. blamed' \in {blamed, cause}
      BY <1>0
    <2>2. cause' \in {cause, "none", "tool", "count"}
      BY <1>0
    <2> HIDE DEF Next
    <2> QED
      BY <1>0, <2>1, <2>2 DEF TypeOK, Causes
  <1>11. faults' \in 0..MaxFaults /\ crashes' \in 0..MaxCrashes
    <2>1. faults' = faults \/ (faults < MaxFaults /\ faults' = faults + 1)
      OBVIOUS
    <2>2. crashes' = crashes \/ (crashes < MaxCrashes /\ crashes' = crashes + 1)
      OBVIOUS
    <2> HIDE DEF Next
    <2> QED
      BY <1>0, <2>1, <2>2, VerifyBounds DEF TypeOK
  <1>12. kills' \in 0..MaxKills /\ damage' \in 0..MaxDamage
    <2>1. kills' = kills \/ (kills < MaxKills /\ kills' = kills + 1)
      OBVIOUS
    <2>2. damage' = damage \/ (damage < MaxDamage /\ damage' = damage + 1)
      OBVIOUS
    <2> HIDE DEF Next
    <2> QED
      BY <1>0, <2>1, <2>2, VerifyBounds DEF TypeOK
  <1> QED
    BY <1>12, <1>13, <1>1, <1>2, <1>3, <1>4, <1>5, <1>6, <1>7, <1>8, <1>9, <1>10, <1>11 DEF TypeOK

-----------------------------------------------------------------------------
(* What a step can change: nothing mends an object or changes what the     *)
(* artifact is, and no counter goes back to zero.                          *)
LEMMA Moves ==
  ASSUME TypeOK, Next
  PROVE  /\ \A o \in Objects : obj'[o] = obj[o] \/ obj'[o] \in {"rotted", "missing"}
         /\ \A o \in Objects : seen'[o] = seen[o] \/ seen'[o] = "unread" \/ (seen'[o] = obj[o] /\ obj' = obj)
         /\ twofold' = twofold
         /\ kills' = 0 => kills = 0
         /\ faults' = 0 => faults = 0
         /\ crashes' = 0 => crashes = 0
  <1> USE DEF Next, Worker, Environment, Attempt, Conclude, Claim, EarlyReturn, Plan, Begin,
    VerifyOff,
    BeginThrows, CompareChecksum, ChecksumUnreadable, RestoreGuarded, Reserve, StartSandbox,
    SkipGlobals, RestoreInfraFails, Fetch, DecryptFails, Restore, RestoreFails, AssertSchema,
    AssertionFails, Rescope, Forget, Origin,
    Inconclusive, SetArtifactState, SetArtifactStateThrows, SetJobState, SetJobStateThrows,
    Catch,
    CatchThrows, RecordProvenance, RecordProvenanceThrows, Finish, FailJob, Damage, DeleteRow,
    Crash, Boot, Sweep, Goto, Fault, SetJob, Read, world, row, traits, locals, budget
  <1>1. \A o \in Objects : obj'[o] = obj[o] \/ obj'[o] \in {"rotted", "missing"}
    BY DEF TypeOK
  <1>2. \A o \in Objects : seen'[o] = seen[o] \/ seen'[o] = "unread" \/ (seen'[o] = obj[o] /\ obj' = obj)
    BY DEF TypeOK, Unread, Objects
  <1>4. twofold' = twofold
    OBVIOUS
  <1>5. (kills' = kills \/ kills' = kills + 1) /\ (faults' = faults \/ faults' = faults + 1)
    OBVIOUS
  <1>6. crashes' = crashes \/ crashes' = crashes + 1
    OBVIOUS
  <1>7. kills \in Nat /\ faults \in Nat /\ crashes \in Nat
    BY VerifyBounds DEF TypeOK
  <1> HIDE DEF Next
  <1> QED
    BY <1>1, <1>2, <1>4, <1>5, <1>6, <1>7

LEMMA ReadStep == IInv /\ Next => ReadInv'
  <1> SUFFICES ASSUME IInv, Next PROVE ReadInv'
    OBVIOUS
  <1>0. TypeOK /\ ReadInv
    BY DEF IInv, VerifyInv
  <1>1. ASSUME NEW o \in Objects, seen'[o] \notin {"unread", "good"} PROVE obj'[o] # "good"
    BY <1>0, <1>1, Moves DEF ReadInv
  <1>2. obj'["globals"] # "unusable"
    BY <1>0, Moves DEF ReadInv, Objects
  <1>3. (want' = "FULL_RESTORE" => origin' # "none") /\ (origin' = "other" => ~twofold)
    BY <1>0 DEF ReadInv, Effective, Next, Worker, Environment, Attempt, Conclude, Claim,
      EarlyReturn, Plan, Begin, VerifyOff,
    BeginThrows, CompareChecksum, ChecksumUnreadable, RestoreGuarded, Reserve, StartSandbox,
    SkipGlobals, RestoreInfraFails, Fetch, DecryptFails, Restore, RestoreFails, AssertSchema,
    AssertionFails, Rescope, Forget, Origin,
    Inconclusive, SetArtifactState, SetArtifactStateThrows, SetJobState, SetJobStateThrows, Catch,
    CatchThrows, RecordProvenance, RecordProvenanceThrows, Finish, FailJob, Damage, DeleteRow,
    Crash, Boot, Sweep, Goto, Fault, SetJob, Read, world, row, traits, locals, budget
  <1> QED
    BY <1>0, <1>1, <1>2, <1>3, Moves DEF ReadInv

LEMMA AttemptStep == IInv /\ Next => AttemptInv'
  <1> SUFFICES ASSUME IInv, Next PROVE AttemptInv'
    OBVIOUS
  <1>0. TypeOK /\ ReadInv /\ AttemptInv
    BY DEF IInv, VerifyInv
  <1> USE DEF Next, Worker, Environment, Attempt, Conclude, Claim, EarlyReturn, Plan, Begin,
    VerifyOff,
    BeginThrows, CompareChecksum, ChecksumUnreadable, RestoreGuarded, Reserve, StartSandbox,
    SkipGlobals, RestoreInfraFails, Fetch, DecryptFails, Restore, RestoreFails, AssertSchema,
    AssertionFails, Rescope, Forget, Origin,
    Inconclusive, SetArtifactState, SetArtifactStateThrows, SetJobState, SetJobStateThrows,
    Catch,
    CatchThrows, RecordProvenance, RecordProvenanceThrows, Finish, FailJob, Damage, DeleteRow,
    Crash, Boot, Sweep, Goto, Fault, SetJob, Read, world, row, traits, locals, budget
  <1>1. /\ pc' = "checksum" => want' = "CHECKSUM"
        /\ pc' \in {"reserve", "start"} \cup InSandbox => want' = "FULL_RESTORE"
    BY <1>0 DEF AttemptInv, InSandbox
  <1>2. pc' \in {"restoreDump", "assert"} => seen'["dump"] \in {"good", "unusable"}
    BY <1>0 DEF TypeOK, AttemptInv, Objects
  <1>3. pc' = "restoreGlobals" => twofold
    BY <1>0 DEF AttemptInv
  <1>4. pc' \in {"restoreGlobals", "fetchDump", "restoreDump", "assert"} /\ twofold =>
          seen'["globals"] = "good"
    <2>1. pc' \in {"restoreGlobals", "fetchDump", "restoreDump", "assert"} /\ twofold =>
            \/ /\ pc \in {"restoreGlobals", "fetchDump", "restoreDump", "assert"}
               /\ seen'["globals"] = seen["globals"]
            \/ seen'["globals"] = obj["globals"] /\ obj["globals"] \in {"good", "unusable"}
      BY <1>0 DEF TypeOK, Objects
    <2> HIDE DEF Next
    <2> QED
      BY <1>0, <2>1 DEF AttemptInv, ReadInv
  <1>5. pc' \in InSandbox /\ kills' = 0 => sandbox'
    <2>1. \/ pc' \notin InSandbox
          \/ pc \in InSandbox /\ sandbox' = sandbox
          \/ sandbox' = TRUE
          \/ kills' = kills + 1
      BY DEF InSandbox
    <2>2. kills \in Nat
      BY <1>0, VerifyBounds DEF TypeOK
    <2> HIDE DEF Next
    <2> QED
      BY <1>0, <2>1, <2>2, Moves DEF AttemptInv
  <1>6. pc' = "settle" => proof' # "INCONCLUSIVE"
    BY <1>0 DEF AttemptInv
  <1> HIDE DEF Next
  <1> QED
    BY <1>0, <1>1, <1>2, <1>3, <1>4, <1>5, <1>6, Moves DEF AttemptInv

LEMMA VerdictStep == IInv /\ Next => VerdictInv'
  <1> SUFFICES ASSUME IInv, Next, pc' = "verdict"
               PROVE  /\ want' \in {"CHECKSUM", "FULL_RESTORE"}
                      /\ proof' = "FAILED" /\ kills' = 0 => Damaged' \/ Excused(cause, want)'
                      /\ proof' = "VERIFIED" =>
                           /\ seen'["dump"] \in
                                (IF want' = "CHECKSUM" THEN {"good", "unusable"} ELSE {"good"})
                           /\ want' = "FULL_RESTORE" /\ twofold' => seen'["globals"] = "good"
    BY DEF VerdictInv
  <1>0. TypeOK /\ ReadInv /\ AttemptInv /\ VerdictInv
    BY DEF IInv, VerifyInv
  <1>1. CASE CompareChecksum
    BY <1>0, <1>1 DEF CompareChecksum, Goto, Read, ChecksumProof, TypeOK, Health, AttemptInv,
      Objects, Damaged, world
  <1>2. CASE ChecksumUnreadable \/ RestoreGuarded \/ RestoreInfraFails
    BY <1>0, <1>2 DEF ChecksumUnreadable, RestoreGuarded, RestoreInfraFails, Goto, AttemptInv
  <1>3. CASE DecryptFails("globals", "fetchGlobals") \/ DecryptFails("dump", "fetchDump")
    BY <1>0, <1>3 DEF DecryptFails, Goto, AttemptInv, InSandbox, Damaged, Objects, world
  <1>4. CASE RestoreFails("globals", "restoreGlobals") \/ RestoreFails("dump", "restoreDump")
    <2>1. /\ want' = want /\ want = "FULL_RESTORE" /\ obj' = obj /\ kills' = kills
          /\ proof' = "FAILED" /\ pc \in {"restoreGlobals", "restoreDump"}
          /\ cause' = "tool" \/ ~sandbox \/ \E o \in Objects :
               seen[o] # "good" /\ pc = (IF o = "dump" THEN "restoreDump" ELSE "restoreGlobals")
      BY <1>0, <1>4 DEF RestoreFails, Goto, AttemptInv, InSandbox, Objects, world, budget
    <2>2. kills = 0 => sandbox
      BY <1>0, <2>1 DEF AttemptInv, InSandbox
    <2>3. seen["dump"] # "good" /\ pc = "restoreDump" => Damaged'
      BY <1>0, <2>1 DEF AttemptInv, ReadInv, Damaged, Objects
    <2>4. pc = "restoreGlobals" => seen["globals"] = "good"
      BY <1>0 DEF AttemptInv
    <2> QED
      BY <2>1, <2>2, <2>3, <2>4 DEF Excused, Objects
  <1>5. CASE AssertSchema
    <2>1. /\ want' = want /\ want = "FULL_RESTORE" /\ seen' = seen /\ obj' = obj /\ kills' = kills
          /\ pc = "assert" /\ twofold' = twofold
          /\ \/ proof' = "VERIFIED" /\ (seen["dump"] = "good" \/ origin = "none")
             \/ proof' = "FAILED" /\ (~sandbox \/ (seen["dump"] # "good" /\ origin # "none"))
             \/ proof' = "FAILED" /\ origin = "other" /\ cause' = "count"
      BY <1>0, <1>5 DEF AssertSchema, Goto, AttemptInv, InSandbox, world, traits, budget
    <2>2. /\ origin # "none" /\ (origin = "other" => ~twofold) /\ (kills = 0 => sandbox)
          /\ seen["dump"] \in {"good", "unusable"}
      BY <1>0, <2>1 DEF AttemptInv, ReadInv, InSandbox
    <2>3. seen["dump"] = "unusable" => Damaged'
      BY <1>0, <2>1 DEF ReadInv, Damaged, Objects
    <2>4. twofold' => seen["globals"] = "good"
      BY <1>0, <2>1 DEF AttemptInv
    <2> QED
      BY <2>1, <2>2, <2>3, <2>4 DEF Excused
  <1>7. CASE AssertionFails
    <2>1. /\ want' = want /\ want = "FULL_RESTORE" /\ kills' = kills /\ proof' = "FAILED"
          /\ cause' = "tool" \/ ~sandbox
      BY <1>0, <1>7 DEF AssertionFails, Goto, AttemptInv, InSandbox, budget
    <2>2. kills = 0 => sandbox
      BY <1>0, <1>7 DEF AttemptInv, InSandbox, AssertionFails, Goto
    <2> QED
      BY <2>1, <2>2 DEF Excused
  <1>6. CASE pc = "verdict"
    <2>1. want' = want /\ proof' = proof /\ seen' = seen /\ cause' = cause
      BY <1>6 DEF InSandbox, Next, Worker, Environment, Attempt, Conclude, Claim, EarlyReturn,
        Plan, Begin, VerifyOff,
    BeginThrows, CompareChecksum, ChecksumUnreadable, RestoreGuarded, Reserve, StartSandbox,
    SkipGlobals, RestoreInfraFails, Fetch, DecryptFails, Restore, RestoreFails, AssertSchema,
    AssertionFails, Rescope, Forget, Origin,
    Inconclusive, SetArtifactState, SetArtifactStateThrows, SetJobState, SetJobStateThrows, Catch,
    CatchThrows, RecordProvenance, RecordProvenanceThrows, Finish, FailJob, Damage, DeleteRow,
    Crash, Boot, Sweep, Goto, Fault, SetJob, Read, world, row, traits, locals, budget
    <2>2. Damaged => Damaged'
      BY <1>0, Moves DEF Damaged
    <2> QED
      BY <1>0, <1>6, <2>1, <2>2, Moves DEF VerdictInv, Excused
  <1> QED
    <2>1. \/ CompareChecksum \/ ChecksumUnreadable \/ RestoreGuarded \/ RestoreInfraFails
          \/ DecryptFails("globals", "fetchGlobals") \/ DecryptFails("dump", "fetchDump")
          \/ RestoreFails("globals", "restoreGlobals") \/ RestoreFails("dump", "restoreDump")
          \/ AssertSchema \/ AssertionFails \/ pc = "verdict"
      BY DEF Next, Worker, Environment, Attempt, Conclude, Claim, EarlyReturn, Plan, Begin,
        VerifyOff,
    BeginThrows, CompareChecksum, ChecksumUnreadable, RestoreGuarded, Reserve, StartSandbox,
    SkipGlobals, RestoreInfraFails, Fetch, DecryptFails, Restore, RestoreFails, AssertSchema,
    AssertionFails, Rescope, Forget, Origin,
    Inconclusive, SetArtifactState, SetArtifactStateThrows, SetJobState, SetJobStateThrows, Catch,
    CatchThrows, RecordProvenance, RecordProvenanceThrows, Finish, FailJob, Damage, DeleteRow,
    Crash, Boot, Sweep, Goto, Fault, SetJob, Read, world, row, traits, locals, budget
    <2> QED
      BY <1>1, <1>2, <1>3, <1>4, <1>5, <1>6, <1>7, <2>1

LEMMA RowStep == IInv /\ Next => RowInv'
  <1> SUFFICES ASSUME IInv, Next PROVE RowInv'
    OBVIOUS
  <1>0. TypeOK /\ VerdictInv /\ RowInv
    BY DEF IInv, VerifyInv
  <1>1. art' = "FAILED" /\ kills' = 0 => Damaged' \/ Excused(blamed, proven)'
    <2>1. \/ art' = art /\ blamed' = blamed /\ proven' = proven
          \/ art' = "DELETED"
          \/ art' = proof /\ blamed' = cause /\ proven' = want /\ pc = "verdict"
      BY DEF Next, Worker, Environment, Attempt, Conclude, Claim, EarlyReturn, Plan, Begin,
        VerifyOff,
    BeginThrows, CompareChecksum, ChecksumUnreadable, RestoreGuarded, Reserve, StartSandbox,
    SkipGlobals, RestoreInfraFails, Fetch, DecryptFails, Restore, RestoreFails, AssertSchema,
    AssertionFails, Rescope, Forget, Origin,
    Inconclusive, SetArtifactState, SetArtifactStateThrows, SetJobState, SetJobStateThrows, Catch,
    CatchThrows, RecordProvenance, RecordProvenanceThrows, Finish, FailJob, Damage, DeleteRow,
    Crash, Boot, Sweep, Goto, Fault, SetJob, Read, world, row, traits, locals, budget
    <2>2. Damaged => Damaged'
      BY <1>0, Moves DEF Damaged
    <2> QED
      BY <1>0, <2>1, <2>2, Moves DEF VerdictInv, RowInv, Excused
  <1>2. faults' = 0 /\ crashes' = 0 /\ art' \in {"VERIFIED", "FAILED"} =>
          level' = proven' \/ pc' \in {"settle", "provenance"}
    <2>1. CASE SetArtifactState
      BY <2>1 DEF SetArtifactState, Goto
    <2>2. CASE RecordProvenance
      BY <1>0, <2>2 DEF RecordProvenance, Goto, RowInv, locals, budget
    <2>3. CASE ~SetArtifactState /\ ~RecordProvenance
      <3>1. level' = level /\ proven' = proven /\ (art' = art \/ art' = "DELETED")
        BY <2>3 DEF Next, Worker, Environment, Attempt, Conclude, Claim, EarlyReturn, Plan,
          Begin, VerifyOff,
    BeginThrows, CompareChecksum, ChecksumUnreadable, RestoreGuarded, Reserve, StartSandbox,
    SkipGlobals, RestoreInfraFails, Fetch, DecryptFails, Restore, RestoreFails, AssertSchema,
    AssertionFails, Rescope, Forget, Origin,
    Inconclusive, SetArtifactState, SetArtifactStateThrows, SetJobState, SetJobStateThrows, Catch,
    CatchThrows, RecordProvenance, RecordProvenanceThrows, Finish, FailJob, Damage, DeleteRow,
    Crash, Boot, Sweep, Goto, Fault, SetJob, Read, world, row, traits, locals, budget
      <3>2. faults \in Nat /\ crashes \in Nat
        BY <1>0, VerifyBounds DEF TypeOK
      <3>3. CASE pc \in {"settle", "provenance"}
        <4>1. \/ pc' \in {"settle", "provenance"}
              \/ faults' = faults + 1 \/ crashes' = crashes + 1 \/ art' = "DELETED"
          BY <2>3, <3>3 DEF InSandbox, Next, Worker, Environment, Attempt, Conclude, Claim,
            EarlyReturn, Plan, Begin, VerifyOff,
    BeginThrows, CompareChecksum, ChecksumUnreadable, RestoreGuarded, Reserve, StartSandbox,
    SkipGlobals, RestoreInfraFails, Fetch, DecryptFails, Restore, RestoreFails, AssertSchema,
    AssertionFails, Rescope, Forget, Origin,
    Inconclusive, SetArtifactState, SetArtifactStateThrows, SetJobState, SetJobStateThrows, Catch,
    CatchThrows, RecordProvenance, RecordProvenanceThrows, Finish, FailJob, Damage, DeleteRow,
    Crash, Boot, Sweep, Goto, Fault, SetJob, Read, world, row, traits, locals, budget
        <4> QED
          BY <3>2, <4>1
      <3>4. CASE pc \notin {"settle", "provenance"}
        BY <1>0, <3>1, <3>4, Moves DEF RowInv
      <3> QED
        BY <3>3, <3>4
    <2> QED
      BY <2>1, <2>2, <2>3
  <1>3. pc' \in {"settle", "provenance"} => proven' = want'
    <2>1. pc' \in {"settle", "provenance"} =>
            (proven' = want') \/ (pc \in {"settle", "provenance"} /\ proven' = proven /\ want' = want)
      BY DEF Next, Worker, Environment, Attempt, Conclude, Claim, EarlyReturn, Plan, Begin,
        VerifyOff,
    BeginThrows, CompareChecksum, ChecksumUnreadable, RestoreGuarded, Reserve, StartSandbox,
    SkipGlobals, RestoreInfraFails, Fetch, DecryptFails, Restore, RestoreFails, AssertSchema,
    AssertionFails, Rescope, Forget, Origin,
    Inconclusive, SetArtifactState, SetArtifactStateThrows, SetJobState, SetJobStateThrows, Catch,
    CatchThrows, RecordProvenance, RecordProvenanceThrows, Finish, FailJob, Damage, DeleteRow,
    Crash, Boot, Sweep, Goto, Fault, SetJob, Read, world, row, traits, locals, budget
    <2> QED
      BY <1>0, <2>1 DEF RowInv
  <1> QED
    BY <1>1, <1>2, <1>3 DEF RowInv

LEMMA IInvInvariant == Spec => []IInv
  <1>1. IInv /\ UNCHANGED vars => IInv'
    BY DEF IInv, TypeOK, VerifyInv, ReadInv, AttemptInv, VerdictInv, RowInv, Damaged, Excused,
      vars, row, traits, locals, budget
  <1>2. IInv /\ [Next]_vars => IInv'
    BY <1>1, TypeStep, ReadStep, AttemptStep, VerdictStep, RowStep DEF IInv, VerifyInv
  <1> QED
    BY <1>2, IInvInit, PTL DEF Spec

-----------------------------------------------------------------------------
(* The theorems.                                                           *)

(* Every behaviour keeps every variable in its type.                       *)
THEOREM VerifyTypes == Spec => []TypeOK
  <1>1. IInv => TypeOK
    BY DEF IInv
  <1> QED
    BY <1>1, IInvInvariant, PTL

(* As long as no sweep takes a sandbox from under a verification (what the *)
(* run over MCVerifyJobSwept shows it does), an artifact that is condemned *)
(* is damaged, or a tool in a sandbox that stood exited non-zero, or, but  *)
(* for PostgreSQL, the target was scoped to a database the archive does    *)
(* not hold; a CHECKSUM condemns over damage alone.                        *)
THEOREM CondemnedForCause == Spec => [](kills = 0 => CondemnedOnEvidence)
  <1>1. IInv => (kills = 0 => CondemnedOnEvidence)
    BY DEF IInv, VerifyInv, RowInv, Damaged, Excused, CondemnedOnEvidence
  <1> QED
    BY <1>1, IInvInvariant, PTL

(* Green at a level only over what the level asks to be read, and the      *)
(* level on record is the one proven.                                      *)
THEOREM GreenIsRead == Spec => GreenReadTheBytes
  <1>1. IInv /\ [Next]_vars =>
          [art' = "VERIFIED" /\ pc = "verdict" /\ pc' = "settle" =>
             /\ want \in {"CHECKSUM", "FULL_RESTORE"}
             /\ seen["dump"] \in (IF want = "CHECKSUM" THEN {"good", "unusable"} ELSE {"good"})
             /\ want = "FULL_RESTORE" /\ twofold => seen["globals"] = "good"]_vars
    <2> SUFFICES ASSUME IInv, Next, art' = "VERIFIED", pc = "verdict", pc' = "settle"
                 PROVE  /\ want \in {"CHECKSUM", "FULL_RESTORE"}
                        /\ seen["dump"] \in (IF want = "CHECKSUM" THEN {"good", "unusable"} ELSE {"good"})
                        /\ want = "FULL_RESTORE" /\ twofold => seen["globals"] = "good"
      OBVIOUS
    <2>1. art' = proof
      BY DEF Next, Worker, Environment, Attempt, Conclude, Claim, EarlyReturn, Plan, Begin,
        VerifyOff,
    BeginThrows, CompareChecksum, ChecksumUnreadable, RestoreGuarded, Reserve, StartSandbox,
    SkipGlobals, RestoreInfraFails, Fetch, DecryptFails, Restore, RestoreFails, AssertSchema,
    AssertionFails, Rescope, Forget, Origin,
    Inconclusive, SetArtifactState, SetArtifactStateThrows, SetJobState, SetJobStateThrows, Catch,
    CatchThrows, RecordProvenance, RecordProvenanceThrows, Finish, FailJob, Damage, DeleteRow,
    Crash, Boot, Sweep, Goto, Fault, SetJob, Read, world, row, traits, locals, budget
    <2> QED
      BY <2>1 DEF IInv, VerifyInv, VerdictInv
  <1>2. IInv => (pc = "idle" /\ faults = 0 /\ crashes = 0 /\ art \in {"VERIFIED", "FAILED"} =>
                   level = proven)
    BY DEF IInv, VerifyInv, RowInv
  <1> QED
    BY <1>1, <1>2, IInvInvariant, PTL DEF Spec, GreenReadTheBytes
=============================================================================
