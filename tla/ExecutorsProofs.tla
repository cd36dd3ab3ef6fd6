--------------------------- MODULE ExecutorsProofs ---------------------------
(***************************************************************************)
(* Proofs about the three components MCExecutors checks in one run, each   *)
(* of its own specification: ContainerRun, for any number of daemon calls  *)
(* that fail; RestoreJob, for any set of restores and any number of failing*)
(* writes, crashes and credential files that stay; Engines, for any        *)
(* finite set of databases, any content of them, and any number of edits of*)
(* the target and changes of its server.                                   *)
(***************************************************************************)
EXTENDS Engines, RestoreJob, ContainerRun, FiniteSetTheorems, SequenceTheorems, TLAPS

-----------------------------------------------------------------------------
(* The run of one container.                                               *)

(* Where no container has been asked for yet.                              *)
Before == {"entry", "image", "network", "start"}

(* There is no container before one is started; nothing is waited for      *)
(* before the race; an exit that was waited for is the container's; and no *)
(* race goes on under a signal.                                            *)
ContainerInv ==
  /\ cpc \in Before => container = "absent"
  /\ cpc \in Before \cup {"wire"} => ~waited
  /\ cpc = "race" /\ waited => container = "exited"
  /\ cpc = "race" => ~signal
  /\ NothingIsLeftRunning

LEMMA ContainerInvInit == ContainerInit => ContainerInv
  BY DEF ContainerInit, ContainerInv, Before, NothingIsLeftRunning

(* The steps of the call itself.                                           *)
LEMMA CallKeepsInv == ContainerInv /\ Call => ContainerInv'
  <1> SUFFICES ASSUME ContainerInv, Call PROVE ContainerInv'
    OBVIOUS
  <1> USE DEF ContainerInv, Before, NothingIsLeftRunning, Step, daemon, io
  <1>1. CASE Enter \/ PullImage \/ FindNetwork
    BY <1>1 DEF Enter, PullImage, FindNetwork
  <1>2. CASE EnterAborted \/ ServiceAborted
    BY <1>2 DEF EnterAborted, ServiceAborted, Throw
  <1>3. CASE StartContainer \/ StartService
    BY <1>3 DEF StartContainer, StartService, Started
  <1>4. CASE Wire
    BY <1>4 DEF Wire
  <1>5. CASE ExecutionSettles \/ ExecutionRejects \/ Timeout \/ Finally
    BY <1>5 DEF ExecutionSettles, ExecutionRejects, Timeout, Finally
  <1>6. CASE UploadEnds
    BY <1>6 DEF UploadEnds
  <1> QED
    BY <1>1, <1>2, <1>3, <1>4, <1>5, <1>6 DEF Call

(* The steps of the daemon, the container, the consumer and the caller.    *)
LEMMA WorldKeepsInv == ContainerInv /\ World => ContainerInv'
  <1> SUFFICES ASSUME ContainerInv, World PROVE ContainerInv'
    OBVIOUS
  <1> USE DEF ContainerInv, Before, NothingIsLeftRunning, Step, daemon, io
  <1>1. CASE PullFails \/ NetworkMissing \/ StartFails
    BY <1>1 DEF PullFails, NetworkMissing, StartFails, Throw
  <1>2. CASE ReapFails
    BY <1>2 DEF ReapFails
  <1>3. CASE WaitRejects \/ PollEnds \/ UseEnds \/ Ready
    BY <1>3 DEF WaitRejects, PollEnds, UseEnds, Ready
  <1>4. CASE RemoveContainer \/ RemoveFails
    BY <1>4 DEF RemoveContainer, RemoveFails
  <1>5. CASE Exits \/ WaitResolves
    BY <1>5 DEF Exits, WaitResolves
  <1>6. CASE StreamEnds \/ StreamBreaks \/ Drained \/ UploadFails
    BY <1>6 DEF StreamEnds, StreamBreaks, Drained, UploadFails
  <1>7. CASE Abort
    BY <1>7 DEF Abort
  <1> QED
    BY <1>1, <1>2, <1>3, <1>4, <1>5, <1>6, <1>7 DEF World

LEMMA ContainerInvStep == ContainerInv /\ [ContainerNext]_nvars => ContainerInv'
  <1>1. ContainerInv /\ UNCHANGED nvars => ContainerInv'
    BY DEF ContainerInv, Before, NothingIsLeftRunning, nvars, daemon
  <1> QED
    BY <1>1, CallKeepsInv, WorldKeepsInv DEF ContainerNext

LEMMA ContainerInvariant == ContainerSpec => []ContainerInv
  BY ContainerInvInit, ContainerInvStep, PTL DEF ContainerSpec

(* Before the container is asked to go, the sink of a run has been ended.  *)
SinkInv == ~service /\ cpc \in {"removing", "settled"} => sink = "ended"

(* Types, and the end of the sink, of the call itself.                     *)
LEMMA CallKeepsTypes ==
  ContainerTypeOK /\ SinkInv /\ Call => ContainerTypeOK' /\ SinkInv'
  <1> SUFFICES ASSUME ContainerTypeOK, SinkInv, Call PROVE ContainerTypeOK' /\ SinkInv'
    OBVIOUS
  <1> USE DaemonBounds
      DEF ContainerTypeOK, SinkInv, RunPcs, Outcomes, Step, EndStdout, daemon, io
  <1>1. CASE Enter \/ PullImage \/ FindNetwork
    BY <1>1 DEF Enter, PullImage, FindNetwork
  <1>2. CASE EnterAborted \/ ServiceAborted
    BY <1>2 DEF EnterAborted, ServiceAborted, Throw
  <1>3. CASE StartContainer \/ StartService
    BY <1>3 DEF StartContainer, StartService, Started
  <1>4. CASE Wire
    BY <1>4 DEF Wire
  <1>5. CASE ExecutionSettles \/ ExecutionRejects \/ Timeout
    BY <1>5 DEF ExecutionSettles, ExecutionRejects, Timeout
  <1>6. CASE Finally \/ UploadEnds
    BY <1>6 DEF Finally, UploadEnds
  <1> QED
    BY <1>1, <1>2, <1>3, <1>4, <1>5, <1>6 DEF Call

(* And of what is around it.                                               *)
LEMMA WorldKeepsTypes ==
  ContainerTypeOK /\ SinkInv /\ World => ContainerTypeOK' /\ SinkInv'
  <1> SUFFICES ASSUME ContainerTypeOK, SinkInv, World PROVE ContainerTypeOK' /\ SinkInv'
    OBVIOUS
  <1> USE DaemonBounds
      DEF ContainerTypeOK, SinkInv, RunPcs, Outcomes, Step, EndStdout, DaemonFault, daemon, io
  <1>1. CASE PullFails \/ NetworkMissing \/ StartFails
    BY <1>1 DEF PullFails, NetworkMissing, StartFails, Throw
  <1>2. CASE ReapFails
    BY <1>2 DEF ReapFails
  <1>3. CASE WaitRejects \/ PollEnds \/ UseEnds \/ Ready
    BY <1>3 DEF WaitRejects, PollEnds, UseEnds, Ready
  <1>4. CASE RemoveContainer \/ RemoveFails
    BY <1>4 DEF RemoveContainer, RemoveFails
  <1>5. CASE Exits \/ WaitResolves
    BY <1>5 DEF Exits, WaitResolves
  <1>6. CASE StreamEnds \/ StreamBreaks
    BY <1>6 DEF StreamEnds, StreamBreaks
  <1>7. CASE Drained
    BY <1>7 DEF Drained
  <1>8. CASE UploadFails
    BY <1>8 DEF UploadFails
  <1>9. CASE Abort
    BY <1>9 DEF Abort
  <1> QED
    BY <1>1, <1>2, <1>3, <1>4, <1>5, <1>6, <1>7, <1>8, <1>9 DEF World

LEMMA TypesAndSink == ContainerSpec => [](ContainerTypeOK /\ SinkInv)
  <1>1. ContainerInit => ContainerTypeOK /\ SinkInv
    <2> SUFFICES ASSUME ContainerInit PROVE ContainerTypeOK /\ SinkInv
      OBVIOUS
    <2>1. {service, whole, waited, wired, signal} \subseteq BOOLEAN
      BY DEF ContainerInit
    <2> QED
      BY <2>1, DaemonBounds DEF ContainerInit, ContainerTypeOK, SinkInv, RunPcs, Outcomes
  <1>2. ContainerTypeOK /\ SinkInv /\ UNCHANGED nvars => ContainerTypeOK' /\ SinkInv'
    BY DEF ContainerTypeOK, SinkInv, nvars, daemon, io
  <1>3. ContainerTypeOK /\ SinkInv /\ [ContainerNext]_nvars => (ContainerTypeOK /\ SinkInv)'
    BY <1>2, CallKeepsTypes, WorldKeepsTypes DEF ContainerNext
  <1> QED
    BY <1>1, <1>3, PTL DEF ContainerSpec

-----------------------------------------------------------------------------
(* Everything the call keeps has its type, and faults stay within bounds.  *)
THEOREM ContainerTypes == ContainerSpec => []ContainerTypeOK
  BY TypesAndSink, PTL

(* The safety half of UploadUnblocks (docker.ts ends stdout before it      *)
(* removes the container): whatever ended a run, when its container is told*)
(* to go nobody reads an output that will not end.                         *)
THEOREM NoReaderIsStranded ==
  ContainerSpec => [](~service /\ cpc \in {"removing", "settled"} => sink = "ended")
  BY TypesAndSink, PTL DEF SinkInv

(* A call that is over leaves no container, but one the daemon refused to  *)
(* remove: whether it was started, aborted, timed out or never began.      *)
THEOREM NothingIsLeft == ContainerSpec => []NothingIsLeftRunning
  <1>1. ContainerInv => NothingIsLeftRunning
    BY DEF ContainerInv
  <1> QED
    BY <1>1, ContainerInvariant, PTL

(* The exit code of a run is the container's own, after its whole output;  *)
(* and a run that was told to stop never ends in its timeout.              *)
THEOREM OutcomesAreEarned == ContainerSpec => OutcomeIsEarned
  <1> DEFINE Earned == outcome = "none" => VerdictIsTheStatus /\ AbortBeatsTheTimeout
  <1>1. ContainerInv /\ [ContainerNext]_nvars => [Earned]_nvars
    <2> SUFFICES ASSUME ContainerInv, ContainerNext, outcome = "none"
                 PROVE  VerdictIsTheStatus /\ AbortBeatsTheTimeout
      OBVIOUS
    <2> USE DEF VerdictIsTheStatus, AbortBeatsTheTimeout, Step
    <2>1. CASE ExecutionSettles
      BY <2>1 DEF ExecutionSettles, ContainerInv, io, daemon
    <2>2. CASE Timeout
      BY <2>2 DEF Timeout, ContainerInv, io, daemon
    <2>3. ASSUME outcome' = "none" \/ outcome' \notin {"exit0", "exit1", "timeout"}
          PROVE  VerdictIsTheStatus /\ AbortBeatsTheTimeout
      BY <2>3
    <2>4. CASE Call
      BY <2>1, <2>2, <2>3, <2>4 DEF Call, Enter, EnterAborted, PullImage, FindNetwork,
        ServiceAborted, StartContainer, StartService, Wire, ExecutionRejects, Finally,
        UploadEnds,
        Throw, Started
    <2>5. CASE World
      BY <2>3, <2>5 DEF World, PollEnds, UseEnds, PullFails, NetworkMissing, StartFails,
        ReapFails,
        WaitRejects, RemoveContainer, RemoveFails, Ready, Exits, WaitResolves, StreamEnds,
        StreamBreaks, Drained, UploadFails, Abort, Throw
    <2> QED
      BY <2>4, <2>5 DEF ContainerNext
  <1> QED
    BY <1>1, ContainerInvariant, PTL DEF ContainerSpec, OutcomeIsEarned

-----------------------------------------------------------------------------
(* A restore.                                                              *)

(* Where the reservation is held; where no step has begun; in a step; and  *)
(* after the audit.                                                        *)
Inside == {"get", "extract", "start", "running"}
Holding == {"mounts", "step", "tidy", "unmount", "release"} \cup Inside
Untouched == {"prologue", "gates", "reserve", "mounts"}
PastAudit == {"reserve", "verdict"} \cup Holding

(* What has been applied once n steps of the plan have succeeded.          *)
Applied(n) == IF n = 0 THEN <<>> ELSE IF n = Len(plan) THEN plan ELSE <<"globals">>

(* There is a job in hand, and it is RUNNING, from its claim to its        *)
(* verdict; a restore nobody claimed has applied nothing.                  *)
JobInv ==
  /\ inHand = NoRestore <=> rpc = "idle"
  /\ ~alive => rpc = "idle"
  /\ rpc # "idle" => plan \in Plans /\ step \in 1..Len(plan)
  /\ \A j \in Restores : row[j] = "PENDING" => applied[j] = <<>>
  /\ rpc \notin {"idle", "fail"} => row[inHand] = "RUNNING"
  /\ rpc = "fail" => row[inHand] # "PENDING"

(* What the job in hand has applied, unless it has failed.                 *)
ProgressInv ==
  /\ rpc \in Untouched => ~failed /\ step = 1 /\ applied[inHand] = <<>>
  /\ rpc = "step" \/ rpc \in Inside => ~failed /\ applied[inHand] = Applied(step - 1)
  /\ rpc = "tidy" /\ ~failed => applied[inHand] = Applied(step)
  /\ rpc \in {"unmount", "release", "verdict"} /\ ~failed => applied[inHand] = plan

AuditInv == RestoresAreAudited /\ (rpc \in PastAudit => inHand \in audited)

(* A slot that is not the job's own stays with a credential file; the job's*)
(* own goes with its reservation.                                          *)
SlotInv ==
  /\ rpc \in Holding => inHand \in active
  /\ slots = lost + (IF rpc \in Holding THEN 1 ELSE 0)
  /\ lost <= mishaps
  /\ ~alive => lost = 0

(* The files of the job in hand that its place accounts for.               *)
OwnFile(f) ==
  \/ rpc \in {"extract", "start", "running", "tidy", "unmount", "release"}
  \/ rpc \in {"step", "get"} /\ f = "credential"
FileInv ==
  \A c \in clear : \/ c[1] \in orphaned
                   \/ c[1] \in active /\ lost > 0
                   \/ c[1] = inHand /\ OwnFile(c[2])

RestoreInv == RestoreTypeOK /\ JobInv /\ ProgressInv /\ AuditInv /\ SlotInv /\ FileInv

LEMMA RestoreInvInit == RestoreInit => RestoreInv
  <1> SUFFICES ASSUME RestoreInit PROVE RestoreInv
    OBVIOUS
  <1> USE RestoreBounds DEF RestoreInit
  <1>1. RestoreTypeOK
    <2>1. row \in [Restores -> {"PENDING", "RUNNING", "SUCCEEDED", "FAILED"}]
      OBVIOUS
    <2>2. applied \in [Restores -> Plans \cup {<<>>, <<"globals">>}]
      OBVIOUS
    <2>3. inHand \in Restores \cup {NoRestore} /\ plan \in Plans \cup {<<>>}
      OBVIOUS
    <2>4. {staged, mounts, failed, stopping, alive} \subseteq BOOLEAN
      OBVIOUS
    <2>5. /\ audited \cup touched \cup active \cup orphaned \subseteq Restores
          /\ clear \subseteq Restores \X Files
      OBVIOUS
    <2>6. step \in 0..2 /\ slots \in 0..StagedSlots /\ lost \in 0..MaxMishaps /\ mishaps \in 0..MaxMishaps
      OBVIOUS
    <2> QED
      BY <2>1, <2>2, <2>3, <2>4, <2>5, <2>6 DEF RestoreTypeOK
  <1>2. JobInv /\ ProgressInv
    BY DEF JobInv, ProgressInv, Inside, Untouched
  <1>3. AuditInv /\ SlotInv /\ FileInv
    BY DEF AuditInv, SlotInv, FileInv, RestoresAreAudited, Holding, Inside, PastAudit
  <1> QED
    BY <1>1, <1>2, <1>3 DEF RestoreInv

(* A sequence of one or of two.                                            *)
LEMMA AppendOne == ASSUME NEW S, NEW a \in S PROVE Append(<<>>, a) = <<a>>
  OBVIOUS
LEMMA AppendTwo == ASSUME NEW a, NEW b PROVE Append(<<a>>, b) = <<a, b>>
  <1> DEFINE S == {a, b}
  <1>1. <<a>> \in Seq(S)
    OBVIOUS
  <1>2. <<a, b>> \in Seq(S)
    OBVIOUS
  <1>3. Append(<<a>>, b) \in Seq(S)
    BY <1>1
  <1>4. Len(Append(<<a>>, b)) = 2 /\ Len(<<a, b>>) = 2
    BY <1>1
  <1>5. \A i \in 1..2 : Append(<<a>>, b)[i] = <<a, b>>[i]
    BY <1>1
  <1> QED
    BY <1>2, <1>3, <1>4, <1>5, SeqEqual

(* A step that succeeds takes what is applied one step further; after the  *)
(* last one it is the plan.                                                *)
LEMMA AppliedGrows ==
  ASSUME plan \in Plans, step \in 1..Len(plan)
  PROVE  /\ Append(Applied(step - 1), plan[step]) = Applied(step)
         /\ Applied(step) \in Plans \cup {<<>>, <<"globals">>}
         /\ step = Len(plan) => Applied(step) = plan
         /\ step # Len(plan) => step + 1 \in 1..Len(plan)
         /\ Applied(0) = <<>>
         /\ Len(plan) \in 1..2
  <1>1. CASE plan = <<"artifact">>
    <2>1. Len(plan) = 1 /\ plan[1] = "artifact" /\ step = 1
      BY <1>1
    <2>2. Applied(0) = <<>> /\ Applied(1) = <<"artifact">>
      BY <1>1, <2>1 DEF Applied
    <2>3. Append(<<>>, "artifact") = <<"artifact">>
      BY AppendOne
    <2>4. Append(Applied(0), plan[1]) = Applied(1) /\ Applied(1) = plan
      BY <1>1, <2>1, <2>2, <2>3
    <2> QED
      BY <1>1, <2>1, <2>2, <2>4 DEF Plans
  <1>2. CASE plan = <<"globals", "artifact">>
    <2>1. Len(plan) = 2 /\ plan[1] = "globals" /\ plan[2] = "artifact" /\ step \in {1, 2}
      BY <1>2
    <2>2. Applied(0) = <<>> /\ Applied(1) = <<"globals">> /\ Applied(2) = <<"globals", "artifact">>
      BY <1>2, <2>1 DEF Applied
    <2>3. Append(<<>>, "globals") = <<"globals">>
      BY AppendOne
    <2>4. Append(<<"globals">>, "artifact") = <<"globals", "artifact">>
      BY AppendTwo
    <2>5. Append(Applied(0), plan[1]) = Applied(1)
      BY <2>1, <2>2, <2>3
    <2>6. Append(Applied(1), plan[2]) = Applied(2) /\ Applied(2) = plan
      BY <1>2, <2>1, <2>2, <2>4
    <2>7. ASSUME step = 1 PROVE step - 1 = 0
      BY <2>7
    <2>8. ASSUME step = 2 PROVE step - 1 = 1
      BY <2>8
    <2>9. Applied(1) \in Plans \cup {<<>>, <<"globals">>} /\ Applied(2) \in Plans
      BY <1>2, <2>2, <2>6 DEF Plans
    <2> QED
      BY <2>1, <2>2, <2>5, <2>6, <2>7, <2>8, <2>9
  <1> QED
    BY <1>1, <1>2 DEF Plans

(* The stages that change each variable, and how.                          *)
LEMMA RestoreTypeStep ==
  ASSUME RestoreTypeOK, JobInv, ProgressInv, SlotInv, RestoreNext
  PROVE  RestoreTypeOK'
  <1> USE RestoreBounds DEF RestoreNext, RestoreWork, Pipeline, job, disk, facts, life, At,
    Mishap, SetRow, Create, Remove, Forget, Fails, ClaimRestore, RefuseEarly, BeginRestore,
    GateRefuses, AuditRestore, ConcludeRestore, VerdictThrows, PipelineThrows, FailRestore,
    FailThrows, Reserve, ReserveFails, MountsReady, MountsFail, EnterStep, StepAborted,
    GetFails, Decrypt, DecryptFailsMidway, Extract, ExtractFails, StartExecutor,
    ExecutorUnavailable, ExecutorSucceeds, ExecutorFails, Tidy, TidyFails, Unmount,
    UnmountFails, Release, ReleaseFails, Stop, Exit, Die, Restart, Collect
  <1>0. RestoreTypeOK /\ JobInv /\ ProgressInv /\ SlotInv
    OBVIOUS
  <1>1. row' \in [Restores -> {"PENDING", "RUNNING", "SUCCEEDED", "FAILED"}]
    BY <1>0 DEF RestoreTypeOK
  <1>2. inHand' \in Restores \cup {NoRestore}
    BY <1>0 DEF RestoreTypeOK
  <1>3. plan' \in Plans \cup {<<>>}
    BY <1>0 DEF RestoreTypeOK
  <1>4. step' \in 0..2
    <2>1. step \in 0..2 /\ (rpc = "tidy" => plan \in Plans /\ step \in 1..Len(plan))
      BY <1>0 DEF RestoreTypeOK, JobInv
    <2>2. rpc = "tidy" /\ step # Len(plan) => step + 1 \in 0..2
      <3>1. ASSUME rpc = "tidy", step # Len(plan)
            PROVE  step + 1 \in 1..Len(plan) /\ Len(plan) \in 1..2
        BY <2>1, <3>1, AppliedGrows
      <3>2. \A n \in 1..2 : \A k : k \in 1..n => k \in 0..2
        OBVIOUS
      <3> QED
        BY <3>1, <3>2
    <2>3. step' = step \/ step' = 1 \/ (rpc = "tidy" /\ step # Len(plan) /\ step' = step + 1)
      OBVIOUS
    <2> QED
      BY <2>1, <2>2, <2>3
  <1>5. {staged', mounts', failed', stopping', alive'} \subseteq BOOLEAN
    <2>1. staged' \in BOOLEAN /\ mounts' \in BOOLEAN
      BY <1>0 DEF RestoreTypeOK
    <2>2. failed' \in BOOLEAN
      BY <1>0 DEF RestoreTypeOK
    <2>3. stopping' \in BOOLEAN /\ alive' \in BOOLEAN
      BY <1>0 DEF RestoreTypeOK
    <2> QED
      BY <2>1, <2>2, <2>3
  <1>6. applied' \in [Restores -> Plans \cup {<<>>, <<"globals">>}]
    <2>1. applied \in [Restores -> Plans \cup {<<>>, <<"globals">>}]
      BY <1>0 DEF RestoreTypeOK
    <2>2. \/ applied' = applied
          \/ rpc = "running" /\ applied' = [applied EXCEPT ![inHand] = Append(@, plan[step])]
      OBVIOUS
    <2>3. ASSUME rpc = "running"
          PROVE  Append(applied[inHand], plan[step]) \in Plans \cup {<<>>, <<"globals">>}
      BY <1>0, <2>3, AppliedGrows DEF JobInv, ProgressInv, Inside
    <2> QED
      BY <2>1, <2>2, <2>3
  <1>7. audited' \cup touched' \cup active' \subseteq Restores
    <2>1. rpc # "idle" => inHand \in Restores
      BY <1>0 DEF RestoreTypeOK, JobInv
    <2>2. audited' \subseteq Restores
      BY <1>0, <2>1 DEF RestoreTypeOK
    <2>3. touched' \subseteq Restores
      BY <1>0, <2>1 DEF RestoreTypeOK
    <2>4. active' \subseteq Restores
      BY <1>0, <2>1 DEF RestoreTypeOK
    <2> QED
      BY <2>2, <2>3, <2>4
  <1>8. orphaned' \subseteq Restores
    <2>1. orphaned \subseteq Restores /\ clear \subseteq Restores \X Files
      BY <1>0 DEF RestoreTypeOK
    <2>2. {c[1] : c \in clear} \subseteq Restores
      BY <2>1
    <2>3. orphaned' = orphaned \/ orphaned' = orphaned \cup {c[1] : c \in clear}
            \/ orphaned' = orphaned \cup ({inHand} \cap Restores) \cup {c[1] : c \in clear}
            \/ (rpc # "idle" /\ orphaned' = orphaned \cup {inHand})
      OBVIOUS
    <2>4. rpc # "idle" => inHand \in Restores
      BY <1>0 DEF RestoreTypeOK, JobInv
    <2> QED
      BY <2>1, <2>2, <2>3, <2>4
  <1>9. clear' \subseteq Restores \X Files
    <2>1. clear \subseteq Restores \X Files /\ (rpc # "idle" => inHand \in Restores)
      BY <1>0 DEF RestoreTypeOK, JobInv
    <2>2. \/ clear' \subseteq clear
          \/ rpc # "idle" /\ \E f \in Files : clear' = clear \cup {<<inHand, f>>}
      BY DEF Files
    <2> QED
      BY <2>1, <2>2
  <1>10. slots' \in 0..StagedSlots
    <2>1. slots \in 0..StagedSlots /\ (rpc \in Holding => slots > 0)
      BY <1>0 DEF RestoreTypeOK, SlotInv
    <2>2. \/ slots' = slots \/ slots' = 0
          \/ slots < StagedSlots /\ slots' = slots + 1
          \/ rpc \in Holding /\ slots' = slots - 1
      BY DEF Holding
    <2> HIDE DEF RestoreNext
    <2> QED
      BY <2>1, <2>2
  <1>11. lost' \in 0..MaxMishaps /\ mishaps' \in 0..MaxMishaps
    <2>1. lost \in 0..MaxMishaps /\ mishaps \in 0..MaxMishaps /\ lost <= mishaps
      BY <1>0 DEF RestoreTypeOK, SlotInv
    <2>2. \/ mishaps' = mishaps /\ (lost' = lost \/ lost' = 0)
          \/ /\ mishaps < MaxMishaps /\ mishaps' = mishaps + 1
             /\ lost' = lost \/ lost' = 0 \/ lost' = lost + 1
      OBVIOUS
    <2> HIDE DEF RestoreNext
    <2> QED
      BY <2>1, <2>2
  <1> HIDE DEF RestoreNext
  <1> QED
    BY <1>1, <1>2, <1>3, <1>4, <1>5, <1>6, <1>7, <1>8, <1>9, <1>10, <1>11 DEF RestoreTypeOK

(* The job in hand.                                                        *)
LEMMA JobStep ==
  ASSUME RestoreTypeOK, JobInv, ProgressInv, RestoreNext
  PROVE  JobInv'
  <1> USE RestoreBounds DEF RestoreNext, RestoreWork, Pipeline, job, disk, facts, life, At,
    Mishap, SetRow, Create, Remove, Forget, Fails, ClaimRestore, RefuseEarly, BeginRestore,
    GateRefuses, AuditRestore, ConcludeRestore, VerdictThrows, PipelineThrows, FailRestore,
    FailThrows, Reserve, ReserveFails, MountsReady, MountsFail, EnterStep, StepAborted,
    GetFails, Decrypt, DecryptFailsMidway, Extract, ExtractFails, StartExecutor,
    ExecutorUnavailable, ExecutorSucceeds, ExecutorFails, Tidy, TidyFails, Unmount,
    UnmountFails, Release, ReleaseFails, Stop, Exit, Die, Restart, Collect
  <1>0. RestoreTypeOK /\ JobInv /\ ProgressInv
    OBVIOUS
  <1>1. (inHand' = NoRestore <=> rpc' = "idle") /\ (~alive' => rpc' = "idle")
    BY <1>0 DEF RestoreTypeOK, JobInv
  <1>2. rpc' # "idle" => plan' \in Plans /\ step' \in 1..Len(plan')
    <2>1. rpc # "idle" => plan \in Plans /\ step \in 1..Len(plan)
      BY <1>0 DEF JobInv
    <2>2. ASSUME rpc # "idle", step # Len(plan) PROVE step + 1 \in 1..Len(plan)
      BY <2>1, <2>2, AppliedGrows
    <2>3. \/ rpc' = "idle"
          \/ rpc # "idle" /\ plan' = plan /\ step' = step
          \/ rpc # "idle" /\ plan' = plan /\ step # Len(plan) /\ step' = step + 1
          \/ plan' \in Plans /\ step' = 1
      BY <1>0 DEF JobInv
    <2>4. \A p \in Plans : 1 \in 1..Len(p)
      BY DEF Plans
    <2> HIDE DEF RestoreNext
    <2> QED
      BY <2>1, <2>2, <2>3, <2>4
  <1>3. \A j \in Restores : row'[j] = "PENDING" => applied'[j] = <<>>
    <2>1. row \in [Restores -> {"PENDING", "RUNNING", "SUCCEEDED", "FAILED"}]
            /\ applied \in [Restores -> Plans \cup {<<>>, <<"globals">>}]
      BY <1>0 DEF RestoreTypeOK
    <2>2. rpc = "running" => row[inHand] = "RUNNING"
      BY <1>0 DEF JobInv
    <2>3. \A j \in Restores : row[j] = "PENDING" => applied[j] = <<>>
      BY <1>0 DEF JobInv
    <2>4. \A j \in Restores : row'[j] = "PENDING" => row[j] = "PENDING"
      BY <2>1
    <2>5. \A j \in Restores : applied'[j] = applied[j] \/ (rpc = "running" /\ j = inHand)
      BY <2>1
    <2> HIDE DEF RestoreNext
    <2> QED
      BY <2>2, <2>3, <2>4, <2>5
  <1>4. /\ rpc' \notin {"idle", "fail"} => row'[inHand'] = "RUNNING"
        /\ rpc' = "fail" => row'[inHand'] # "PENDING"
    BY <1>0 DEF RestoreTypeOK, JobInv
  <1> HIDE DEF RestoreNext
  <1> QED
    BY <1>1, <1>2, <1>3, <1>4 DEF JobInv

(* The steps it has applied.                                               *)
LEMMA ProgressStep ==
  ASSUME RestoreTypeOK, JobInv, ProgressInv, RestoreNext
  PROVE  ProgressInv'
  <1> USE RestoreBounds DEF RestoreNext, RestoreWork, Pipeline, job, disk, facts, life, At,
    Mishap, SetRow, Create, Remove, Forget, Fails, ClaimRestore, RefuseEarly, BeginRestore,
    GateRefuses, AuditRestore, ConcludeRestore, VerdictThrows, PipelineThrows, FailRestore,
    FailThrows, Reserve, ReserveFails, MountsReady, MountsFail, EnterStep, StepAborted,
    GetFails, Decrypt, DecryptFailsMidway, Extract, ExtractFails, StartExecutor,
    ExecutorUnavailable, ExecutorSucceeds, ExecutorFails, Tidy, TidyFails, Unmount,
    UnmountFails, Release, ReleaseFails, Stop, Exit, Die, Restart, Collect
  <1>0. RestoreTypeOK /\ JobInv /\ ProgressInv
    OBVIOUS
  <1>1. rpc' \in Untouched => ~failed' /\ step' = 1 /\ applied'[inHand'] = <<>>
    BY <1>0 DEF RestoreTypeOK, JobInv, ProgressInv, Untouched
  <1>2. rpc' = "step" \/ rpc' \in Inside => ~failed' /\ applied'[inHand'] = Applied(step - 1)'
    <2>1. \/ rpc = "mounts" /\ ~failed /\ step = 1 /\ applied[inHand] = <<>>
          \/ (rpc = "step" \/ rpc \in Inside) /\ ~failed /\ applied[inHand] = Applied(step - 1)
          \/ rpc = "tidy" /\ (~failed => applied[inHand] = Applied(step))
          \/ rpc' # "step" /\ rpc' \notin Inside
      BY <1>0 DEF ProgressInv, Untouched, Inside
    <2>2. ASSUME rpc' = "step" \/ rpc' \in Inside
          PROVE  /\ failed' = failed /\ applied' = applied /\ inHand' = inHand /\ plan' = plan
                 /\ rpc = "tidy" => ~failed /\ step' = step + 1
                 /\ rpc # "tidy" => step' = step
      BY <2>2 DEF Inside
    <2>3. rpc # "idle" => plan \in Plans /\ step \in 1..Len(plan) /\ step \in 0..2
      BY <1>0 DEF JobInv, RestoreTypeOK
    <2>4. ASSUME plan' = plan, step' = step PROVE Applied(step - 1)' = Applied(step - 1)
      BY <2>4 DEF Applied
    <2>5. ASSUME plan' = plan, step' = step + 1, step \in 0..2
          PROVE  Applied(step - 1)' = Applied(step)
      <3>1. step' - 1 = step
        BY <2>5
      <3> QED
        BY <2>5, <3>1 DEF Applied
    <2>6. step = 1 => Applied(step - 1) = <<>>
      BY DEF Applied
    <2> HIDE DEF RestoreNext
    <2> QED
      BY <2>1, <2>2, <2>3, <2>4, <2>5, <2>6 DEF Inside
  <1>3. rpc' = "tidy" /\ ~failed' => applied'[inHand'] = Applied(step)'
    <2>1. rpc' = "tidy" /\ ~failed' =>
            /\ ~failed /\ inHand' = inHand /\ plan' = plan /\ step' = step
            /\ \/ rpc = "tidy" /\ applied' = applied
               \/ rpc = "running" /\ applied' = [applied EXCEPT ![inHand] = Append(@, plan[step])]
      OBVIOUS
    <2>2. rpc = "running" => plan \in Plans /\ step \in 1..Len(plan) /\ applied[inHand] = Applied(step - 1)
      BY <1>0 DEF JobInv, ProgressInv, Inside
    <2>3. rpc = "running" => Append(applied[inHand], plan[step]) = Applied(step)
      BY <2>2, AppliedGrows
    <2>4. rpc = "running" => inHand \in Restores
      BY <1>0 DEF RestoreTypeOK, JobInv
    <2>5. rpc = "tidy" /\ ~failed => applied[inHand] = Applied(step)
      BY <1>0 DEF ProgressInv
    <2>6. applied \in [Restores -> Plans \cup {<<>>, <<"globals">>}]
      BY <1>0 DEF RestoreTypeOK
    <2>7. ASSUME plan' = plan, step' = step PROVE Applied(step)' = Applied(step)
      BY <2>7 DEF Applied
    <2> HIDE DEF RestoreNext
    <2> QED
      BY <2>1, <2>3, <2>4, <2>5, <2>6, <2>7
  <1>4. rpc' \in {"unmount", "release", "verdict"} /\ ~failed' => applied'[inHand'] = plan'
    BY <1>0, AppliedGrows DEF JobInv, ProgressInv
  <1> HIDE DEF RestoreNext
  <1> QED
    BY <1>1, <1>2, <1>3, <1>4 DEF ProgressInv

(* The audit log comes before the database.                                *)
LEMMA AuditStep ==
  ASSUME JobInv, AuditInv, RestoreNext
  PROVE  AuditInv'
  <1> USE RestoreBounds DEF RestoreNext, RestoreWork, Pipeline, job, disk, facts, life, At,
    Mishap, SetRow, Create, Remove, Forget, Fails, ClaimRestore, RefuseEarly, BeginRestore,
    GateRefuses, AuditRestore, ConcludeRestore, VerdictThrows, PipelineThrows, FailRestore,
    FailThrows, Reserve, ReserveFails, MountsReady, MountsFail, EnterStep, StepAborted,
    GetFails, Decrypt, DecryptFailsMidway, Extract, ExtractFails, StartExecutor,
    ExecutorUnavailable, ExecutorSucceeds, ExecutorFails, Tidy, TidyFails, Unmount,
    UnmountFails, Release, ReleaseFails, Stop, Exit, Die, Restart, Collect
  <1>0. JobInv /\ AuditInv
    OBVIOUS
  <1>1. touched' \subseteq audited'
    BY <1>0 DEF AuditInv, RestoresAreAudited, PastAudit, Holding, Inside
  <1>2. rpc' \in PastAudit => inHand' \in audited'
    BY <1>0 DEF JobInv, AuditInv, PastAudit, Holding, Inside
  <1> HIDE DEF RestoreNext
  <1> QED
    BY <1>1, <1>2 DEF AuditInv, RestoresAreAudited

(* The slots.                                                              *)
LEMMA SlotStep ==
  ASSUME RestoreTypeOK, JobInv, SlotInv, RestoreNext
  PROVE  SlotInv'
  <1> USE RestoreBounds DEF RestoreNext, RestoreWork, Pipeline, job, disk, facts, life, At,
    Mishap, SetRow, Create, Remove, Forget, Fails, ClaimRestore, RefuseEarly, BeginRestore,
    GateRefuses, AuditRestore, ConcludeRestore, VerdictThrows, PipelineThrows, FailRestore,
    FailThrows, Reserve, ReserveFails, MountsReady, MountsFail, EnterStep, StepAborted,
    GetFails, Decrypt, DecryptFailsMidway, Extract, ExtractFails, StartExecutor,
    ExecutorUnavailable, ExecutorSucceeds, ExecutorFails, Tidy, TidyFails, Unmount,
    UnmountFails, Release, ReleaseFails, Stop, Exit, Die, Restart, Collect
  <1>0. RestoreTypeOK /\ JobInv /\ SlotInv
    OBVIOUS
  <1>1. lost \in Nat /\ slots \in Nat /\ mishaps \in Nat
    BY <1>0 DEF RestoreTypeOK
  <1>2. \/ slots' = slots /\ lost' = lost /\ (rpc' \in Holding <=> rpc \in Holding)
        \/ slots' = slots + 1 /\ lost' = lost /\ rpc' \in Holding /\ rpc \notin Holding
        \/ slots' = slots - 1 /\ lost' = lost /\ rpc' \notin Holding /\ rpc \in Holding
        \/ slots' = slots /\ lost' = lost + 1 /\ rpc' \notin Holding /\ rpc \in Holding
        \/ slots' = 0 /\ lost' = 0 /\ rpc' \notin Holding
    BY <1>0 DEF JobInv, Holding, Inside
  <1>3. \/ mishaps' = mishaps /\ (lost' = lost \/ lost' = 0)
        \/ /\ mishaps' = mishaps + 1
           /\ lost' = lost \/ lost' = 0 \/ lost' = lost + 1
    OBVIOUS
  <1>4. (~alive' => lost' = 0) /\ (rpc' \in Holding => inHand' \in active')
    BY <1>0 DEF SlotInv, Holding, Inside
  <1>5. slots = lost + (IF rpc \in Holding THEN 1 ELSE 0) /\ lost <= mishaps
    BY <1>0 DEF SlotInv
  <1> HIDE DEF RestoreNext
  <1>6. slots' = lost' + (IF rpc' \in Holding THEN 1 ELSE 0)
    BY <1>1, <1>2, <1>5
  <1>7. lost' <= mishaps'
    BY <1>1, <1>3, <1>5
  <1> QED
    BY <1>4, <1>6, <1>7 DEF SlotInv, Holding, Inside

(* The files.                                                              *)
LEMMA FileStep ==
  ASSUME RestoreTypeOK, JobInv, SlotInv, FileInv, RestoreNext
  PROVE  FileInv'
  <1> USE RestoreBounds DEF RestoreNext, RestoreWork, Pipeline, job, disk, facts, life, At,
    Mishap, SetRow, Create, Remove, Forget, Fails, ClaimRestore, RefuseEarly, BeginRestore,
    GateRefuses, AuditRestore, ConcludeRestore, VerdictThrows, PipelineThrows, FailRestore,
    FailThrows, Reserve, ReserveFails, MountsReady, MountsFail, EnterStep, StepAborted,
    GetFails, Decrypt, DecryptFailsMidway, Extract, ExtractFails, StartExecutor,
    ExecutorUnavailable, ExecutorSucceeds, ExecutorFails, Tidy, TidyFails, Unmount,
    UnmountFails, Release, ReleaseFails, Stop, Exit, Die, Restart, Collect
  <1>0. RestoreTypeOK /\ JobInv /\ SlotInv /\ FileInv
    OBVIOUS
  <1>1. clear \subseteq Restores \X Files /\ lost \in Nat
    BY <1>0 DEF RestoreTypeOK
  <1>2. orphaned \subseteq orphaned' /\ (inHand' = inHand \/ rpc' = "idle" \/ rpc = "idle")
    OBVIOUS
  <1>3. \A c \in clear' : c \in clear /\ c[1] \in active /\ lost > 0 =>
          c[1] \in orphaned' \/ (c[1] \in active' /\ lost' > 0)
    BY <1>1
  <1>4. \A c \in clear' :
          \/ c \in clear
          \/ c[1] = inHand' /\ OwnFile(c[2])'
    <2>1. \/ clear' \subseteq clear
          \/ \E f \in Files : clear' = clear \cup {<<inHand', f>>} /\ OwnFile(f)'
      <3>1. \/ clear' \subseteq clear
            \/ /\ clear' = clear \cup {<<inHand', "credential">>}
               /\ rpc' \in {"step", "release"}
            \/ /\ clear' = clear \cup {<<inHand', "dump">>}
               /\ rpc' \in {"extract", "start", "tidy"}
            \/ /\ clear' = clear \cup {<<inHand', "extracted">>}
               /\ rpc' \in {"start", "tidy"}
        OBVIOUS
      <3> HIDE DEF RestoreNext
      <3> QED
        BY <3>1 DEF OwnFile, Files
    <2> HIDE DEF RestoreNext
    <2> QED
      BY <2>1
  <1>5. \A c \in clear' : c \in clear /\ c[1] = inHand /\ OwnFile(c[2]) =>
          \/ c[1] \in orphaned'
          \/ c[1] \in active' /\ lost' > 0
          \/ c[1] = inHand' /\ OwnFile(c[2])'
    <2> SUFFICES ASSUME NEW c \in clear', c \in clear, c[1] = inHand, OwnFile(c[2])
                 PROVE  \/ c[1] \in orphaned'
                        \/ c[1] \in active' /\ lost' > 0
                        \/ c[1] = inHand' /\ OwnFile(c[2])'
      OBVIOUS
    <2>1. c = <<c[1], c[2]>> /\ c[2] \in Files
      BY <1>1
    <2>2. OwnFile(c[2]) /\ (rpc \in Holding => inHand \in active)
      BY <1>0 DEF SlotInv
    <2> QED
      BY <1>1, <2>1, <2>2 DEF OwnFile, Files, Holding, Inside
  <1> HIDE DEF RestoreNext
  <1>6. \A c \in clear :
          \/ c[1] \in orphaned
          \/ c[1] \in active /\ lost > 0
          \/ c[1] = inHand /\ OwnFile(c[2])
    BY <1>0 DEF FileInv
  <1> QED
    BY <1>2, <1>3, <1>4, <1>5, <1>6 DEF FileInv

LEMMA RestoreInvStep == RestoreInv /\ [RestoreNext]_rvars => RestoreInv'
  <1>1. ASSUME RestoreInv, RestoreNext PROVE RestoreInv'
    <2>1. RestoreTypeOK /\ JobInv /\ ProgressInv /\ AuditInv /\ SlotInv /\ FileInv
      BY <1>1 DEF RestoreInv
    <2>2. RestoreTypeOK' /\ JobInv' /\ ProgressInv'
      BY <1>1, <2>1, RestoreTypeStep, JobStep, ProgressStep
    <2>3. AuditInv' /\ SlotInv' /\ FileInv'
      BY <1>1, <2>1, AuditStep, SlotStep, FileStep
    <2> QED
      BY <2>2, <2>3 DEF RestoreInv
  <1>2. ASSUME RestoreInv, UNCHANGED rvars PROVE RestoreInv'
    <2>1. RestoreTypeOK /\ JobInv /\ ProgressInv /\ AuditInv /\ SlotInv /\ FileInv
      BY <1>2 DEF RestoreInv
    <2> USE <1>2, <2>1 DEF rvars, job, facts, disk, life
    <2>2. RestoreTypeOK'
      BY DEF RestoreTypeOK
    <2>3. JobInv' /\ AuditInv' /\ SlotInv'
      BY DEF JobInv, AuditInv, SlotInv, RestoresAreAudited
    <2>4. ProgressInv'
      BY DEF ProgressInv, Applied
    <2>5. FileInv'
      BY DEF FileInv, OwnFile
    <2> QED
      BY <2>2, <2>3, <2>4, <2>5 DEF RestoreInv
  <1> QED
    BY <1>1, <1>2

LEMMA RestoreInvariant == RestoreSpec => []RestoreInv
  BY RestoreInvInit, RestoreInvStep, PTL DEF RestoreSpec

-----------------------------------------------------------------------------
(* Every variable of the restore stays in its type.                        *)
THEOREM RestoreTypes == RestoreSpec => []RestoreTypeOK
  <1>1. RestoreInv => RestoreTypeOK
    BY DEF RestoreInv
  <1> QED
    BY <1>1, RestoreInvariant, PTL

(* Cleartext on the scratch volume is the job's in hand, or what a crash   *)
(* or a failing unlink left; between jobs every slot of the semaphore is   *)
(* back, but for those of credential files that would not go.              *)
THEOREM ScratchComesBack == RestoreSpec => []ScratchIsGivenBack
  <1>1. RestoreInv => ScratchIsGivenBack
    <2> SUFFICES ASSUME RestoreInv PROVE ScratchIsGivenBack
      OBVIOUS
    <2>1. RestoreTypeOK /\ FileInv /\ SlotInv
      BY DEF RestoreInv
    <2>2. rpc = "idle" => slots = lost
      <3>1. lost \in Nat
        BY <2>1 DEF RestoreTypeOK
      <3> QED
        BY <2>1, <3>1 DEF SlotInv, Holding, Inside
    <2> QED
      BY <2>1, <2>2 DEF ScratchIsGivenBack, FileInv
  <1> QED
    BY <1>1, RestoreInvariant, PTL

(* A restore writes to a database only once the audit log holds it, and it *)
(* becomes SUCCEEDED only when every step of its plan exited with zero.    *)
THEOREM LedgerTells == RestoreSpec => LedgerTellsTheRestore
  <1>1. RestoreInv /\ [RestoreNext]_rvars => [RestoresAreAudited' /\ SuccessWasApplied]_rvars
    <2> SUFFICES ASSUME RestoreInv, RestoreNext PROVE RestoresAreAudited' /\ SuccessWasApplied
      OBVIOUS
    <2>1. RestoresAreAudited'
      BY RestoreInvStep DEF RestoreInv, AuditInv
    <2>2. RestoreTypeOK /\ JobInv /\ ProgressInv
      BY DEF RestoreInv
    <2>3. rpc = "verdict" /\ ~failed => applied[inHand] = plan
      BY <2>2 DEF ProgressInv
    <2>4. row \in [Restores -> {"PENDING", "RUNNING", "SUCCEEDED", "FAILED"}]
      BY <2>2 DEF RestoreTypeOK
    <2>5. \A j \in Restores :
            row[j] # "SUCCEEDED" /\ row'[j] = "SUCCEEDED" => j = inHand /\ rpc = "verdict" /\ ~failed
      BY <2>4 DEF RestoreNext, RestoreWork, Pipeline, At, SetRow, Fails, ClaimRestore,
        RefuseEarly,
        BeginRestore, GateRefuses, AuditRestore, ConcludeRestore, VerdictThrows, PipelineThrows,
        FailRestore, FailThrows, Reserve, ReserveFails, MountsReady, MountsFail, EnterStep,
        StepAborted, GetFails, Decrypt, DecryptFailsMidway, Extract, ExtractFails,
        StartExecutor,
        ExecutorUnavailable, ExecutorSucceeds, ExecutorFails, Tidy, TidyFails, Unmount,
        UnmountFails, Release, ReleaseFails, Stop, Exit, Die, Restart, Collect
    <2> QED
      BY <2>1, <2>3, <2>5 DEF SuccessWasApplied
  <1> QED
    BY <1>1, RestoreInvariant, PTL DEF RestoreSpec, LedgerTellsTheRestore

-----------------------------------------------------------------------------
(* The engines' own tools.                                                 *)

(* What a dump will be taken of is there: the database the probe opened,   *)
(* and those it found; an unscoped script has found something.             *)
ProbeInv ==
  at = "probed" =>
    /\ \A n \in found : Content(n) # Missing
    /\ engine # "mongodb" => Content(ConnectDatabase) # Missing
    /\ engine \in ScriptEngines /\ selection = <<>> => found # {}

(* A restore under way passed the gates, for the artifact that is there.   *)
AskInv ==
  at = "restoring" =>
    artifact # NoArtifact /\ asked.target \in Capabilities[engine].targets /\ Confinable(asked.target)

(* What the row of an artifact says of its content.                        *)
ScriptSays ==
  engine \in ScriptEngines =>
    /\ ~artifact.uses => artifact.holds[System] = Missing
    /\ artifact.mode = "STREAM" /\ ~artifact.several => \A a, b \in Held : a = b
    /\ artifact.mode = "STREAM" /\ artifact.multi = "no" => ~artifact.several
ArtifactInv ==
  /\ artifact # NoArtifact /\ engine # "mongodb" => Held # {}
  /\ ScriptSays
  /\ artifact.oplog => engine = "mongodb" /\ artifact.hasOplog \in {"yes", "unknown"}

EnginesInv ==
  /\ EnginesTypeOK /\ ScopeFits(selection) /\ ProbeInv /\ AskInv /\ ArtifactInv
  /\ FullRestoreSawTheData /\ TlsIsNotDropped

(* A finite set of at most one member.                                     *)
LEMMA FewerThanTwo ==
  ASSUME NEW S, IsFiniteSet(S), ~(Cardinality(S) >= 2), NEW a \in S, NEW b \in S
  PROVE  a = b
  <1>1. Cardinality(S) \in Nat /\ (Cardinality(S) = 0 <=> S = {})
    BY FS_CardinalityType, FS_EmptySet
  <1>2. Cardinality(S) = 1
    BY <1>1
  <1>3. PICK x : S = {x}
    BY <1>2, FS_Singleton
  <1> QED
    BY <1>3

(* What the target selects.                                                *)
LEMMA SelectionShape ==
  ASSUME selection \in Selections
  PROVE  /\ Selected \subseteq Databases /\ Len(selection) \in 0..2
         /\ selection = <<>> <=> Len(selection) = 0
         /\ selection # <<>> => selection[1] \in Selected
         /\ Len(selection) = 1 => Selected = {selection[1]}
         /\ ConnectDatabase \in Names
         /\ selection # <<>> /\ engine # "mongodb" => ConnectDatabase = selection[1]
  <1>1. CASE selection = <<>>
    BY <1>1 DEF Selected, ConnectDatabase, Names
  <1>2. ASSUME NEW d \in Databases, selection = <<d>>
        PROVE  /\ Len(selection) = 1 /\ selection[1] = d /\ Selected = {d} /\ selection # <<>>
    BY <1>2 DEF Selected
  <1>3. ASSUME NEW d \in Databases, NEW e \in Databases, selection = <<d, e>>
        PROVE  /\ Len(selection) = 2 /\ selection[1] = d /\ Selected = {d, e} /\ selection # <<>>
    <2>1. Len(selection) = 2 /\ selection[1] = d /\ selection[2] = e
      BY <1>3
    <2>2. 1..2 = {1, 2}
      OBVIOUS
    <2> QED
      BY <2>1, <2>2 DEF Selected
  <1>4. \/ selection = <<>>
        \/ \E d \in Databases : selection = <<d>>
        \/ \E d, e \in Databases : selection = <<d, e>>
    <2>1. \A q \in Databases \X Databases : q = <<q[1], q[2]>> /\ q[1] \in Databases /\ q[2] \in Databases
      OBVIOUS
    <2> QED
      BY <2>1 DEF Selections
  <1>5. ASSUME NEW d \in Databases, selection = <<d>> \/ \E e \in Databases : selection = <<d, e>>
        PROVE  /\ selection # <<>> /\ selection[1] = d /\ d \in Selected
               /\ Len(selection) \in 1..2 /\ Selected \subseteq Databases
               /\ Len(selection) = 1 => Selected = {selection[1]}
    BY <1>2, <1>3, <1>5
  <1>6. ASSUME selection # <<>>, engine # "mongodb" PROVE ConnectDatabase = selection[1]
    BY <1>6 DEF ConnectDatabase
  <1>7. ASSUME selection # <<>> PROVE ConnectDatabase \in {System, selection[1]}
    BY <1>7 DEF ConnectDatabase
  <1>8. CASE selection # <<>>
    <2>1. PICK d \in Databases : selection = <<d>> \/ \E e \in Databases : selection = <<d, e>>
      BY <1>4, <1>8
    <2> QED
      BY <1>5, <1>6, <1>7, <1>8, <2>1 DEF Names
  <1> QED
    BY <1>1, <1>8

(* The contents of every database are versions.                            *)
LEMMA ContentType ==
  ASSUME EnginesTypeOK, NEW n \in Names
  PROVE  /\ Content(n) \in 0..MaxVersion /\ Content(System) > Blank
         /\ n \in Databases => Content(n) = data[n]
  BY EngineBounds DEF EnginesTypeOK, Content, Names, Blank

LEMMA EnginesInvInit == EnginesInit => EnginesInv
  <1> SUFFICES ASSUME EnginesInit PROVE EnginesInv
    OBVIOUS
  <1> USE EngineBounds DEF EnginesInit, Missing, Blank
  <1>1. EnginesTypeOK
    <2>1. engine \in EngineKinds /\ selection \in Selections /\ sees \subseteq Names
      BY DEF Names
    <2>2. {narrows, secure, ca, replica, offers} \subseteq BOOLEAN
      OBVIOUS
    <2>3. data \in [Databases -> 0..MaxVersion] /\ events \in 0..MaxEvents
      OBVIOUS
    <2>4. artifact \in Artifacts
      BY DEF NoArtifact, Artifacts, Modes, Answers
    <2>5. asked \in [target : RestoreTargets, confirm : BOOLEAN]
      BY DEF NoRequest, RestoreTargets
    <2>6. /\ restored.state \in {"none", "SUCCEEDED", "DEGRADED", "FAILED"} /\ restored.replayed \in BOOLEAN
          /\ restored.touched \subseteq Names \X Parts
      BY DEF NoOutcome
    <2> QED
      BY <2>1, <2>2, <2>3, <2>4, <2>5, <2>6 DEF EnginesTypeOK
  <1>2. ScopeFits(selection) /\ ProbeInv /\ AskInv
    BY DEF ProbeInv, AskInv
  <1>3. ArtifactInv
    BY DEF ArtifactInv, ScriptSays, NoArtifact, Held, Names
  <1>4. FullRestoreSawTheData /\ TlsIsNotDropped
    BY DEF FullRestoreSawTheData, TlsIsNotDropped
  <1> QED
    BY <1>1, <1>2, <1>3, <1>4 DEF EnginesInv

(* What each adapter's dump copies, and what it records of it.  The last   *)
(* conjunct is the heart of DumpsHoldTheSelection.                         *)
DumpIsSound(d, mode) ==
  /\ d.copies \subseteq Names /\ d.parts \subseteq Parts /\ d.uses \in BOOLEAN /\ d.oplog \in BOOLEAN
  /\ d.tool \in {"mydumper", "myloader"} => tls # "require"
  /\ d.tool = "mariadb" \/ d.tool \in {"pg_dump", "mongodump", "mysql", "mydumper"}
  /\ engine # "mongodb" => \E n \in d.copies : Content(n) # Missing
  /\ engine \in ScriptEngines => /\ ~d.uses => System \notin d.copies
                                 /\ mode = "STREAM" /\ ~(Cardinality(DumpDatabases(mode)) >= 2) =>
                                      \A a, b \in d.copies : a = b
  /\ d.oplog => engine = "mongodb" /\ replica
  /\ \A n \in found \cap Databases : selection = <<>> \/ n \in Selected => n \in d.copies

LEMMA DumpShape ==
  ASSUME EnginesTypeOK, ScopeFits(selection), ProbeInv, at = "probed",
         NEW mode \in Modes, NEW d \in BuildDump(mode)
  PROVE  DumpIsSound(d, mode)
  <1>1. engine \in EngineKinds /\ selection \in Selections /\ found \subseteq Names /\ replica \in BOOLEAN
    BY DEF EnginesTypeOK
  <1>2. /\ \A n \in found : Content(n) # Missing
        /\ engine # "mongodb" => Content(ConnectDatabase) # Missing
        /\ engine \in ScriptEngines /\ selection = <<>> => found # {}
    BY DEF ProbeInv
  <1>3. Databases \subseteq Names /\ System \notin Databases /\ System \in Names
    BY EngineBounds DEF Names
  <1>4. CASE engine = "postgres"
    <2>1. d = Dump("pg_dump", {ConnectDatabase}, IF narrows THEN {"named"} ELSE Parts, FALSE, FALSE)
      BY <1>4 DEF BuildDump, PostgresDump
    <2>2. /\ d.copies = {ConnectDatabase} /\ d.parts \subseteq Parts
          /\ d.uses = FALSE /\ d.oplog = FALSE /\ d.tool = "pg_dump"
      BY <2>1 DEF Dump, Parts
    <2>3. selection = <<>> => found \cap Databases = {}
      <3>1. Alternatives = {}
        BY DEF BuildDump
      <3> QED
        BY <1>3, <1>4, <3>1 DEF Alternatives
    <2>4. Len(selection) <= 1
      BY <1>4 DEF ScopeFits
    <2>5. selection # <<>> => Len(selection) = 1 /\ Selected = {ConnectDatabase}
      BY <1>1, <1>4, <2>4, SelectionShape
    <2> QED
      BY <1>1, <1>2, <1>4, <2>2, <2>3, <2>5, SelectionShape DEF DumpIsSound, ScriptEngines
  <1>5. CASE engine = "mongodb"
    <2>1. /\ d = Dump("mongodump", IF selection = <<>> THEN found ELSE Selected, Parts, FALSE, replica)
      BY <1>5 DEF BuildDump, MongoDump, Alternatives
    <2>2. /\ d.copies = (IF selection = <<>> THEN found ELSE Selected) /\ d.parts = Parts
          /\ d.uses = FALSE /\ d.oplog = replica /\ d.tool = "mongodump"
      BY <2>1 DEF Dump
    <2> QED
      BY <1>1, <1>3, <1>5, <2>2, SelectionShape DEF DumpIsSound, ScriptEngines
  <1>6. CASE engine \in ScriptEngines /\ mode = "STREAM"
    <2>1. d = Dump(engine, IF found = {} THEN {ConnectDatabase} ELSE found, Parts, found # {}, FALSE)
      BY <1>6 DEF BuildDump, ScriptDump, Alternatives, ScriptEngines
    <2>2. /\ d.copies = (IF found = {} THEN {ConnectDatabase} ELSE found) /\ d.parts = Parts
          /\ d.uses = (found # {}) /\ d.oplog = FALSE /\ d.tool = engine
      BY <2>1 DEF Dump
    <2>3. DumpDatabases(mode) = found
      BY <1>6 DEF DumpDatabases, ScriptEngines
    <2>4. IsFiniteSet(found)
      <3>1. IsFiniteSet(Names)
        BY EngineBounds, FS_Singleton, FS_Union DEF Names
      <3> QED
        BY <1>1, <3>1, FS_Subset
    <2>5. ~(Cardinality(found) >= 2) => \A a, b \in found : a = b
      BY <2>4, FewerThanTwo
    <2>6. found = {} => ConnectDatabase \in Databases
      BY <1>1, <1>2, <1>6, SelectionShape DEF ScriptEngines
    <2>7. ConnectDatabase \in Names
      BY <1>1, SelectionShape
    <2>8. \E n \in d.copies : Content(n) # Missing
      BY <1>2, <1>6, <2>2 DEF ScriptEngines
    <2>9. ~d.uses => System \notin d.copies
      BY <1>3, <2>2, <2>6
    <2>10. ~(Cardinality(found) >= 2) => \A a, b \in d.copies : a = b
      BY <2>2, <2>5
    <2>11. d.tool \in {"mysql", "mariadb"}
      BY <1>6, <2>2 DEF ScriptEngines
    <2> QED
      BY <1>1, <1>6, <2>2, <2>3, <2>7, <2>8, <2>9, <2>10, <2>11 DEF DumpIsSound, ScriptEngines
  <1>7. CASE engine \in ScriptEngines /\ mode = "STAGED"
    <2>1. Len(selection) = 1 /\ ~StagedTlsRefusal /\ d = Dump("mydumper", Selected, Parts, FALSE, FALSE)
      BY <1>7 DEF BuildDump, ScriptDump, Alternatives, ScriptEngines
    <2>2. /\ d.copies = Selected /\ d.parts = Parts
          /\ d.uses = FALSE /\ d.oplog = FALSE /\ d.tool = "mydumper"
      BY <2>1 DEF Dump
    <2>3. tls # "require"
      BY <1>7, <2>1 DEF StagedTlsRefusal
    <2>4. Selected = {ConnectDatabase} /\ ConnectDatabase \in Databases /\ selection # <<>>
      BY <1>1, <1>7, <2>1, SelectionShape DEF ScriptEngines
    <2>5. \E n \in d.copies : Content(n) # Missing
      BY <1>2, <1>7, <2>2, <2>4 DEF ScriptEngines
    <2>6. mode # "STREAM" /\ engine # "mongodb"
      BY <1>7 DEF ScriptEngines
    <2>7. d.copies \subseteq Names /\ System \notin d.copies
      BY <1>3, <2>2, <2>4
    <2>8. d.parts \subseteq Parts /\ d.uses \in BOOLEAN /\ d.oplog \in BOOLEAN /\ ~d.oplog
      BY <2>2
    <2> QED
      BY <2>2, <2>3, <2>4, <2>5, <2>6, <2>7, <2>8 DEF DumpIsSound
  <1> QED
    BY <1>1, <1>4, <1>5, <1>6, <1>7 DEF EngineKinds, ScriptEngines, Modes

(* What each adapter's restore writes into, for a request that passed the  *)
(* gates.                                                                  *)
RestoreIsSound(r, t) ==
  /\ r.into \in Names /\ r.only \subseteq Names /\ r.parts \subseteq Parts /\ r.replay \in BOOLEAN
  /\ r.tool \in {"mydumper", "myloader"} => tls # "require"
  /\ r.tool = "mongorestore" <=> engine = "mongodb"
  /\ r.tool \in ScriptEngines => artifact.mode = "STREAM" /\ engine \in ScriptEngines
  /\ engine = "mongodb" /\ t # "FULL_CLUSTER" => r.only = Selected
  /\ engine = "mongodb" /\ t = "FULL_CLUSTER" => r.replay = (artifact.hasOplog = "yes")
  /\ t \in Capabilities[engine].targets /\ t \in {"SCHEMA", "COLLECTION"} => r.parts = {"named"}

LEMMA RestoreShape ==
  ASSUME EnginesTypeOK, NEW t, NEW r \in BuildRestore(t)
  PROVE  RestoreIsSound(r, t)
  <1>1. engine \in EngineKinds /\ selection \in Selections /\ artifact \in Artifacts
    BY DEF EnginesTypeOK
  <1>2. /\ ConnectDatabase \in Names /\ Selected \subseteq Names /\ System \in Names
    BY <1>1, SelectionShape DEF Names
  <1>3. CASE engine = "postgres"
    <2>1. r = Restore("pg_restore", ConnectDatabase, Names,
                      IF t = "SCHEMA" THEN {"named"} ELSE Parts, FALSE)
      BY <1>3 DEF BuildRestore, PostgresRestore
    <2>2. /\ r.into = ConnectDatabase /\ r.only = Names /\ r.replay = FALSE /\ r.tool = "pg_restore"
          /\ r.parts = (IF t = "SCHEMA" THEN {"named"} ELSE Parts)
      BY <2>1 DEF Restore
    <2>3. t \in Capabilities[engine].targets => t # "COLLECTION"
      BY <1>3 DEF Capabilities
    <2> QED
      BY <1>2, <1>3, <2>2, <2>3 DEF RestoreIsSound, ScriptEngines, Parts
  <1>4. CASE engine = "mongodb"
    <2>1. r = Restore("mongorestore", System, Namespaces(t),
                      IF t = "COLLECTION" THEN {"named"} ELSE Parts, Replay(t))
      BY <1>4 DEF BuildRestore, MongoRestore
    <2>2. /\ r.into = System /\ r.only = Namespaces(t) /\ r.replay = Replay(t) /\ r.tool = "mongorestore"
          /\ r.parts = (IF t = "COLLECTION" THEN {"named"} ELSE Parts)
      BY <2>1 DEF Restore
    <2>3. t \in Capabilities[engine].targets => t # "SCHEMA"
      BY <1>4 DEF Capabilities
    <2>4. Replay(t) \in BOOLEAN /\ (t = "FULL_CLUSTER" => Replay(t) = (artifact.hasOplog = "yes"))
      BY DEF Replay
    <2> QED
      BY <1>2, <1>4, <2>2, <2>3, <2>4 DEF RestoreIsSound, ScriptEngines, Parts, Namespaces
  <1>5. CASE engine \in ScriptEngines
    <2>1. \/ artifact.mode = "STREAM" /\ r = Restore(engine, ConnectDatabase, Names, Parts, FALSE)
          \/ ~StagedTlsRefusal /\ r = Restore("myloader", ConnectDatabase, Names, Parts, FALSE)
      BY <1>5 DEF BuildRestore, ScriptRestore, ScriptEngines
    <2>2. /\ r.into = ConnectDatabase /\ r.only = Names /\ r.replay = FALSE /\ r.parts = Parts
          /\ \/ artifact.mode = "STREAM" /\ r.tool = engine
             \/ tls # "require" /\ r.tool = "myloader"
      BY <1>5, <2>1 DEF Restore, StagedTlsRefusal
    <2>3. t \in Capabilities[engine].targets => t \notin {"SCHEMA", "COLLECTION"}
      BY <1>5 DEF Capabilities, ScriptEngines, SqlFamily
    <2> QED
      BY <1>2, <1>5, <2>2, <2>3 DEF RestoreIsSound, ScriptEngines
  <1> QED
    BY <1>1, <1>3, <1>4, <1>5 DEF EngineKinds, ScriptEngines

(* The row of a dump.                                                      *)
DumpRow(mode, d, recorded) ==
  [mode |-> mode,
   holds |-> [n \in Names |-> IF n \in d.copies THEN Content(n) ELSE Missing],
   parts |-> d.parts, uses |-> d.uses, several |-> Cardinality(DumpDatabases(mode)) >= 2, oplog |-> d.oplog,
   multi |-> IF recorded THEN MultiDatabase(mode, Cardinality(DumpDatabases(mode)) >= 2) ELSE "unknown",
   hasOplog |-> IF recorded THEN SourceHasOplog ELSE "unknown"]

LEMMA DumpEffect ==
  ASSUME EnginesInv,
         \E parallel, scratch, large, recorded \in BOOLEAN : RunDump(parallel, scratch, large, recorded)
  PROVE  /\ at = "probed"
         /\ \E mode \in Modes, recorded \in BOOLEAN : \E d \in BuildDump(mode) :
              /\ DumpIsSound(d, mode) /\ artifact' = DumpRow(mode, d, recorded)
              /\ ToolConnects(d.tool) /\ Contact(d.tool)
  <1>1. PICK parallel \in BOOLEAN, scratch \in BOOLEAN, large \in BOOLEAN, recorded \in BOOLEAN :
            RunDump(parallel, scratch, large, recorded)
    OBVIOUS
  <1> DEFINE mode == ExecutionMode(parallel, scratch, large)
  <1>2. mode \in Modes
    BY DEF ExecutionMode, Modes
  <1>3. at = "probed"
    BY <1>1 DEF RunDump
  <1>4. PICK d \in BuildDump(mode) :
            artifact' = DumpRow(mode, d, recorded) /\ ToolConnects(d.tool) /\ Contact(d.tool)
    BY <1>1 DEF RunDump, DumpRow
  <1>5. DumpIsSound(d, mode)
    BY <1>2, <1>3, DumpShape DEF EnginesInv
  <1> HIDE DEF mode
  <1> QED
    BY <1>2, <1>3, <1>4, <1>5

(* It is a row, and its fields are what they say.                          *)
LEMMA DumpRowShape ==
  ASSUME EnginesTypeOK, NEW mode \in Modes, NEW recorded \in BOOLEAN, NEW d, DumpIsSound(d, mode)
  PROVE  /\ DumpRow(mode, d, recorded) \in Artifacts
         /\ \A n \in Names : DumpRow(mode, d, recorded).holds[n] = IF n \in d.copies THEN Content(n) ELSE Missing
  <1> DEFINE a == DumpRow(mode, d, recorded)
  <1>1. [n \in Names |-> IF n \in d.copies THEN Content(n) ELSE Missing] \in [Names -> 0..MaxVersion]
    BY ContentType, EngineBounds DEF Missing
  <1>2. MultiDatabase(mode, Cardinality(DumpDatabases(mode)) >= 2) \in Answers /\ SourceHasOplog \in Answers
        /\ "unknown" \in Answers
    BY DEF MultiDatabase, SourceHasOplog, Answers
  <1>3. d.parts \in SUBSET Parts /\ d.uses \in BOOLEAN /\ d.oplog \in BOOLEAN
    BY DEF DumpIsSound
  <1>4. (Cardinality(DumpDatabases(mode)) >= 2) \in BOOLEAN
    OBVIOUS
  <1>5. a \in Artifacts
    BY <1>1, <1>2, <1>3, <1>4 DEF DumpRow, Artifacts
  <1>6. \A n \in Names : a.holds[n] = IF n \in d.copies THEN Content(n) ELSE Missing
    BY DEF DumpRow
  <1> QED
    BY <1>5, <1>6

(* Where a restore writes, and that there is a version to write.           *)
LEMMA RestoreWrites ==
  ASSUME EnginesTypeOK, ArtifactInv, artifact # NoArtifact, NEW t, NEW r \in BuildRestore(t)
  PROVE  /\ WrittenBy(r) \subseteq Names \X Parts
         /\ \A n \in Names : (\E p \in Parts : <<n, p>> \in WrittenBy(r)) => Version(r, n) \in 0..MaxVersion
  <1>1. RestoreIsSound(r, t)
    BY RestoreShape
  <1>2. Held \subseteq Names /\ \A n \in Held : artifact.holds[n] \in 0..MaxVersion
    <2>1. artifact.holds \in [Names -> 0..MaxVersion]
      BY DEF EnginesTypeOK, Artifacts
    <2> QED
      BY <2>1 DEF Held
  <1>3. WrittenBy(r) \subseteq Names \X Parts
    BY <1>1, <1>2 DEF WrittenBy, RestoreIsSound
  <1>4. ASSUME NEW n \in Names, NEW p \in Parts, <<n, p>> \in WrittenBy(r)
        PROVE  Version(r, n) \in 0..MaxVersion
    <2>1. Held # {}
      <3>1. CASE engine = "mongodb"
        BY <1>1, <1>4, <3>1 DEF WrittenBy, RestoreIsSound
      <3>2. CASE engine # "mongodb"
        BY <3>2 DEF ArtifactInv
      <3> QED
        BY <3>1, <3>2
    <2>2. (CHOOSE h \in Held : TRUE) \in Held
      BY <2>1
    <2> QED
      BY <1>2, <2>2 DEF Version
  <1> QED
    BY <1>3, <1>4

LEMMA RestoreEffect ==
  ASSUME EnginesInv, RunRestore
  PROVE  /\ at = "restoring" /\ artifact # NoArtifact
         /\ \E r \in BuildRestore(asked.target) :
              /\ RestoreIsSound(r, asked.target) /\ ToolConnects(r.tool) /\ Contact(r.tool)
              /\ restored'.touched = WrittenBy(r) /\ restored'.replayed = r.replay
              /\ restored'.state = IF /\ engine = "mongodb" /\ asked.target = "FULL_CLUSTER"
                                      /\ artifact.hasOplog = "unknown"
                                   THEN "DEGRADED" ELSE "SUCCEEDED"
              /\ data' = [d \in Databases |->
                   IF \E p \in Parts : <<d, p>> \in WrittenBy(r) THEN Version(r, d) ELSE data[d]]
  <1>1. at = "restoring" /\ artifact # NoArtifact
    BY DEF EnginesInv, AskInv, RunRestore
  <1>2. PICK r \in BuildRestore(asked.target) :
              /\ ToolConnects(r.tool) /\ Contact(r.tool)
              /\ restored' = [state |-> IF /\ engine = "mongodb" /\ asked.target = "FULL_CLUSTER"
                                           /\ artifact.hasOplog = "unknown"
                                        THEN "DEGRADED" ELSE "SUCCEEDED",
                              replayed |-> r.replay, touched |-> WrittenBy(r)]
              /\ data' = [d \in Databases |->
                   IF \E p \in Parts : <<d, p>> \in WrittenBy(r) THEN Version(r, d) ELSE data[d]]
    BY DEF RunRestore
  <1>3. RestoreIsSound(r, asked.target)
    BY RestoreShape DEF EnginesInv
  <1> QED
    BY <1>1, <1>2, <1>3

(* The dump of this step, if there is one.                                 *)
Dumps == \E parallel, scratch, large, recorded \in BOOLEAN : RunDump(parallel, scratch, large, recorded)
Asks == \E t \in RestoreTargets, confirm \in BOOLEAN : AskRestore(t, confirm)
Verifies == \E level \in {"CHECKSUM", "FULL_RESTORE"} : Verify(level)

(* Which action changes what.                                              *)
LEMMA EnginesMoves ==
  ASSUME EnginesNext
  PROVE  /\ engine' = engine /\ narrows' = narrows /\ sees' = sees
         /\ artifact' = artifact \/ Dumps \/ Rebuild
         /\ proved' = proved \/ proved' = "none" \/ Verifies
         /\ inClear' = inClear \/ Dumps \/ RunRestore
         /\ data' = data \/ RunRestore \/ ServerChanges
         /\ selection' = selection \/ EditTarget
         /\ at' = "probed" => (at = "probed" /\ ServerChanges) \/ ProbeTarget
         /\ at' = "restoring" => (at = "restoring" /\ ServerChanges) \/ Asks
         /\ Dumps \/ Rebuild => proved' = "none"
  <1> USE DEF EnginesNext, Dumps, Asks, Verifies, ProbeTarget, RunDump, DumpFails, Rebuild,
    AskRestore,
        RunRestore, RestoreFails, Verify, EditTarget, ServerChanges, Event, target, host,
        EditTls
  <1>1. engine' = engine /\ narrows' = narrows /\ sees' = sees
    OBVIOUS
  <1>2. artifact' = artifact \/ Dumps \/ Rebuild
    OBVIOUS
  <1>3. proved' = proved \/ proved' = "none" \/ Verifies
    OBVIOUS
  <1>4. inClear' = inClear \/ Dumps \/ RunRestore
    OBVIOUS
  <1>5. data' = data \/ RunRestore \/ ServerChanges
    OBVIOUS
  <1>6. selection' = selection \/ EditTarget
    OBVIOUS
  <1>7. at' = "probed" => (at = "probed" /\ ServerChanges) \/ ProbeTarget
    OBVIOUS
  <1>8. at' = "restoring" => (at = "restoring" /\ ServerChanges) \/ Asks
    OBVIOUS
  <1>9. Dumps \/ Rebuild => proved' = "none"
    OBVIOUS
  <1> HIDE DEF EnginesNext, Dumps, Asks, Verifies, ProbeTarget, RunDump, DumpFails, Rebuild,
    AskRestore, RunRestore, RestoreFails, Verify, EditTarget, ServerChanges, Event, target,
    host, EditTls
  <1> QED
    BY <1>1, <1>2, <1>3, <1>4, <1>5, <1>6, <1>7, <1>8, <1>9

LEMMA EnginesTypeStep ==
  ASSUME EnginesInv, EnginesNext
  PROVE  EnginesTypeOK'
  <1>0. EnginesTypeOK /\ ScopeFits(selection) /\ ArtifactInv
    BY DEF EnginesInv
  <1>1. engine' \in EngineKinds /\ sees' \subseteq Names /\ narrows' \in BOOLEAN
    BY <1>0, EnginesMoves DEF EnginesTypeOK
  <1>2. selection' \in Selections
    BY <1>0, EnginesMoves DEF EnginesTypeOK, EditTarget
  <1>3. artifact' \in Artifacts
    <2>1. CASE Dumps
      <3>1. PICK mode \in Modes, recorded \in BOOLEAN :
              \E d \in BuildDump(mode) : DumpIsSound(d, mode) /\ artifact' = DumpRow(mode, d, recorded)
        BY <2>1, DumpEffect DEF Dumps
      <3>2. PICK d \in BuildDump(mode) : DumpIsSound(d, mode) /\ artifact' = DumpRow(mode, d, recorded)
        BY <3>1
      <3> QED
        BY <1>0, <3>2, DumpRowShape
    <2>2. CASE Rebuild
      <3>1. MultiDatabase(artifact.mode, artifact.several) \in Answers
        BY DEF MultiDatabase, Answers
      <3>2. artifact' = [artifact EXCEPT !.multi = MultiDatabase(artifact.mode, artifact.several)]
        BY <2>2 DEF Rebuild
      <3>3. artifact \in Artifacts
        BY <1>0 DEF EnginesTypeOK
      <3> QED
        BY <3>1, <3>2, <3>3 DEF Artifacts
    <2> QED
      BY <1>0, <2>1, <2>2, EnginesMoves DEF EnginesTypeOK
  <1>4. data' \in [Databases -> 0..MaxVersion]
    <2>1. data \in [Databases -> 0..MaxVersion]
      BY <1>0 DEF EnginesTypeOK
    <2>2. CASE RunRestore
      <3>1. PICK r \in BuildRestore(asked.target) :
              data' = [d \in Databases |->
                   IF \E p \in Parts : <<d, p>> \in WrittenBy(r) THEN Version(r, d) ELSE data[d]]
        BY <2>2, RestoreEffect
      <3>2. artifact # NoArtifact
        BY <2>2, RestoreEffect
      <3>3. \A n \in Names : (\E p \in Parts : <<n, p>> \in WrittenBy(r)) => Version(r, n) \in 0..MaxVersion
        BY <1>0, <3>2, RestoreWrites
      <3> QED
        BY <2>1, <3>1, <3>3 DEF Names
    <2>3. CASE ServerChanges
      <3>1. data' = data \/ \E d \in Databases, v \in Blank..MaxVersion : data' = [data EXCEPT ![d] = v]
        BY <2>3 DEF ServerChanges
      <3>2. \A v \in Blank..MaxVersion : v \in 0..MaxVersion
        BY EngineBounds DEF Blank
      <3> QED
        BY <2>1, <3>1, <3>2
    <2> QED
      BY <2>1, <2>2, <2>3, EnginesMoves
  <1>5. restored'.touched \subseteq Names \X Parts /\ restored'.replayed \in BOOLEAN
          /\ restored'.state \in {"none", "SUCCEEDED", "DEGRADED", "FAILED"}
    <2>1. CASE RunRestore
      <3>1. PICK r \in BuildRestore(asked.target) :
              /\ RestoreIsSound(r, asked.target)
              /\ restored'.touched = WrittenBy(r) /\ restored'.replayed = r.replay
              /\ restored'.state \in {"DEGRADED", "SUCCEEDED"}
        BY <2>1, RestoreEffect
      <3>2. WrittenBy(r) \subseteq Names \X Parts
        BY <1>0, <2>1, RestoreEffect, RestoreWrites
      <3> QED
        BY <3>1, <3>2 DEF RestoreIsSound
    <2>2. restored' \in {restored, NoOutcome, [NoOutcome EXCEPT !.state = "FAILED"]} \/ RunRestore
      BY DEF EnginesNext, ProbeTarget, RunDump, DumpFails, Rebuild, AskRestore, RestoreFails,
        Verify,
        EditTarget, ServerChanges
    <2>3. /\ [NoOutcome EXCEPT !.state = "FAILED"].touched = {}
          /\ [NoOutcome EXCEPT !.state = "FAILED"].replayed = FALSE
            /\ [NoOutcome EXCEPT !.state = "FAILED"].state = "FAILED"
            /\ NoOutcome.touched = {} /\ NoOutcome.replayed = FALSE /\ NoOutcome.state = "none"
      BY DEF NoOutcome
    <2>4. restored.touched \subseteq Names \X Parts /\ restored.replayed \in BOOLEAN
          /\ restored.state \in {"none", "SUCCEEDED", "DEGRADED", "FAILED"}
      BY <1>0 DEF EnginesTypeOK
    <2> QED
      BY <2>1, <2>2, <2>3, <2>4
  <1> USE DEF EnginesNext, ProbeTarget, RunDump, DumpFails, Rebuild, AskRestore,
        RunRestore, RestoreFails, Verify, EditTarget, ServerChanges, Event, target, host,
        EditTls
  <1>6. {secure', ca', replica', offers'} \subseteq BOOLEAN
    <2>1. secure' \in BOOLEAN
      BY <1>0 DEF EnginesTypeOK
    <2>2. ca' \in BOOLEAN
      BY <1>0 DEF EnginesTypeOK
    <2>3. replica' \in BOOLEAN /\ offers' \in BOOLEAN
      BY <1>0 DEF EnginesTypeOK
    <2> QED
      BY <2>1, <2>2, <2>3
  <1>7. found' \subseteq Names /\ at' \in {"idle", "probed", "restoring"}
    BY <1>0 DEF EnginesTypeOK, Discovered
  <1>8. asked' \in [target : RestoreTargets, confirm : BOOLEAN]
    <2>1. NoRequest \in [target : RestoreTargets, confirm : BOOLEAN]
      BY DEF NoRequest, RestoreTargets
    <2>2. asked' = asked \/ asked' = NoRequest
            \/ \E t \in RestoreTargets, confirm \in BOOLEAN : asked' = [target |-> t, confirm |-> confirm]
      OBVIOUS
    <2>3. asked \in [target : RestoreTargets, confirm : BOOLEAN]
      BY <1>0 DEF EnginesTypeOK
    <2> HIDE DEF EnginesNext
    <2> QED
      BY <2>1, <2>2, <2>3
  <1>9. proved' \in {"none", "CHECKSUM", "FULL_RESTORE", "FAILED"}
    BY <1>0 DEF EnginesTypeOK
  <1>10. events' \in 0..MaxEvents
    <2>1. events \in 0..MaxEvents
      BY <1>0 DEF EnginesTypeOK
    <2>2. events' = events \/ (events < MaxEvents /\ events' = events + 1)
      OBVIOUS
    <2> HIDE DEF EnginesNext
    <2> QED
      BY <2>1, <2>2, EngineBounds
  <1> HIDE DEF EnginesNext
  <1> QED
    BY <1>1, <1>2, <1>3, <1>4, <1>5, <1>6, <1>7, <1>8, <1>9, <1>10 DEF EnginesTypeOK

(* The probe, and the gates of a restore.                                  *)
LEMMA GatesStep ==
  ASSUME EnginesInv, EnginesNext
  PROVE  ScopeFits(selection)' /\ ProbeInv' /\ AskInv'
  <1>0. EnginesTypeOK /\ ScopeFits(selection) /\ ProbeInv /\ AskInv /\ engine' = engine
    BY EnginesMoves DEF EnginesInv
  <1>1. ScopeFits(selection)'
    <2>1. CASE EditTarget
      BY <1>0, <2>1 DEF EditTarget, ScopeFits
    <2> QED
      BY <1>0, <2>1, EnginesMoves DEF ScopeFits
  <1>2. ASSUME at' = "probed"
        PROVE  /\ \A n \in found' : Content(n)' # Missing
               /\ engine' # "mongodb" => Content(ConnectDatabase)' # Missing
               /\ engine' \in ScriptEngines /\ selection' = <<>> => found' # {}
    <2>1. CASE at = "probed" /\ ServerChanges
      <3>1. found' = found /\ selection' = selection /\ ConnectDatabase' = ConnectDatabase
        BY <1>0, <2>1 DEF ServerChanges, target, ConnectDatabase
      <3>2. \A n \in Names : Content(n) # Missing => Content(n)' # Missing
        <4>1. data' = data \/ \E d \in Databases, v \in Blank..MaxVersion : data' = [data EXCEPT ![d] = v]
          BY <2>1 DEF ServerChanges
        <4>2. data \in [Databases -> 0..MaxVersion] /\ \A v \in Blank..MaxVersion : v # Missing
          BY <1>0 DEF EnginesTypeOK, Blank, Missing
        <4> QED
          BY <4>1, <4>2 DEF Content, Names
      <3>3. found \subseteq Names /\ ConnectDatabase \in Names
        BY <1>0, SelectionShape DEF EnginesTypeOK
      <3>4. /\ \A n \in found : Content(n) # Missing
            /\ engine # "mongodb" => Content(ConnectDatabase) # Missing
            /\ engine \in ScriptEngines /\ selection = <<>> => found # {}
        BY <1>0, <2>1 DEF ProbeInv
      <3>5. ASSUME NEW n \in Names, Content(n) # Missing PROVE Content(n)' # Missing
        BY <3>2, <3>5
      <3>6. ASSUME engine # "mongodb" PROVE Content(ConnectDatabase)' # Missing
        <4>1. Content(ConnectDatabase) # Missing
          BY <3>4, <3>6
        <4> QED
          BY <3>1, <3>3, <3>5, <4>1 DEF Content
      <3> QED
        BY <1>0, <3>1, <3>2, <3>3, <3>4, <3>6
    <2>2. CASE ProbeTarget
      <3>1. found' = Discovered /\ ProbeConnects /\ data' = data /\ selection' = selection
        BY <2>2 DEF ProbeTarget, target, host
      <3>2. \A n \in Discovered : Content(n) # Missing
        BY <1>0, ContentType DEF Discovered, EnginesTypeOK, Blank, Missing
      <3>3. engine # "mongodb" => ConnectDatabase \in sees /\ Content(ConnectDatabase) # Missing
        BY <3>1 DEF ProbeConnects, SqlOpens
      <3>4. ASSUME engine \in ScriptEngines, selection = <<>> PROVE System \in Discovered
        BY <3>3, <3>4 DEF ScriptEngines, ConnectDatabase, Discovered, Content, Blank
      <3> QED
        BY <1>0, <3>1, <3>2, <3>3, <3>4 DEF Content, ConnectDatabase
    <2> QED
      BY <1>2, <2>1, <2>2, EnginesMoves
  <1>3. ASSUME at' = "restoring"
        PROVE  /\ artifact' # NoArtifact /\ asked'.target \in Capabilities[engine'].targets
               /\ Confinable(asked.target)'
    <2>1. CASE at = "restoring" /\ ServerChanges
      BY <1>0, <2>1 DEF ServerChanges, AskInv, Confinable
    <2>2. CASE Asks
      <3>1. PICK t \in RestoreTargets, confirm \in BOOLEAN : AskRestore(t, confirm)
        BY <2>2 DEF Asks
      <3>2. asked'.target = t /\ artifact' = artifact
        BY <3>1 DEF AskRestore
      <3> QED
        BY <1>0, <3>1, <3>2 DEF AskRestore, Confinable
    <2> QED
      BY <1>3, <2>1, <2>2, EnginesMoves
  <1> QED
    BY <1>1, <1>2, <1>3 DEF ProbeInv, AskInv

(* The rows of the artifacts.                                              *)
LEMMA ArtifactStep ==
  ASSUME EnginesInv, EnginesNext
  PROVE  ArtifactInv'
  <1>0. EnginesTypeOK /\ ArtifactInv /\ engine' = engine
    BY EnginesMoves DEF EnginesInv
  <1>1. CASE artifact' = artifact
    BY <1>0, <1>1 DEF ArtifactInv, ScriptSays, Held
  <1>2. CASE Dumps
    <2>1. PICK mode \in Modes, recorded \in BOOLEAN :
            \E d \in BuildDump(mode) : DumpIsSound(d, mode) /\ artifact' = DumpRow(mode, d, recorded)
      BY <1>2, DumpEffect DEF Dumps
    <2>2. PICK d \in BuildDump(mode) : DumpIsSound(d, mode) /\ artifact' = DumpRow(mode, d, recorded)
      BY <2>1
    <2>3. \A n \in Names : artifact'.holds[n] = IF n \in d.copies THEN Content(n) ELSE Missing
      BY <1>0, <2>2, DumpRowShape
    <2>4. /\ artifact'.mode = mode /\ artifact'.uses = d.uses /\ artifact'.oplog = d.oplog
          /\ artifact'.several = (Cardinality(DumpDatabases(mode)) >= 2)
          /\ artifact'.multi = "no" => artifact'.multi = MultiDatabase(mode, artifact'.several)
          /\ artifact'.hasOplog \in {"unknown", SourceHasOplog}
      BY <2>2 DEF DumpRow
    <2>5. Held' \subseteq d.copies
      BY <2>3 DEF Held
    <2>6. engine # "mongodb" => Held' # {}
      BY <2>2, <2>3 DEF Held, DumpIsSound
    <2>7. System \in Names
      BY DEF Names
    <2>8. ASSUME engine \in ScriptEngines
          PROVE  /\ ~artifact'.uses => artifact'.holds[System] = Missing
                 /\ artifact'.mode = "STREAM" /\ ~artifact'.several => \A a, b \in Held' : a = b
                 /\ artifact'.mode = "STREAM" /\ artifact'.multi = "no" => ~artifact'.several
      <3>1. /\ ~d.uses => System \notin d.copies
            /\ mode = "STREAM" /\ ~(Cardinality(DumpDatabases(mode)) >= 2) => \A a, b \in d.copies : a = b
        BY <2>2, <2>8 DEF DumpIsSound
      <3>2. artifact'.mode = "STREAM" /\ artifact'.multi = "no" => ~artifact'.several
        BY <2>4, <2>8 DEF MultiDatabase
      <3> QED
        BY <2>3, <2>4, <2>5, <2>7, <3>1, <3>2
    <2>9. artifact'.oplog => engine = "mongodb" /\ artifact'.hasOplog \in {"yes", "unknown"}
      <3>1. d.oplog => engine = "mongodb" /\ replica
        BY <2>2 DEF DumpIsSound
      <3> QED
        BY <2>4, <3>1 DEF SourceHasOplog
    <2> QED
      BY <1>0, <2>6, <2>8, <2>9 DEF ArtifactInv, ScriptSays
  <1>3. CASE Rebuild
    <2>1. /\ artifact # NoArtifact
          /\ artifact' = [artifact EXCEPT !.multi = MultiDatabase(artifact.mode, artifact.several)]
      BY <1>3 DEF Rebuild
    <2>2. artifact \in Artifacts
      BY <1>0 DEF EnginesTypeOK
    <2>3. /\ artifact'.holds = artifact.holds /\ artifact'.mode = artifact.mode
          /\ artifact'.uses = artifact.uses
          /\ artifact'.several = artifact.several /\ artifact'.oplog = artifact.oplog
          /\ artifact'.hasOplog = artifact.hasOplog
          /\ artifact'.multi = MultiDatabase(artifact.mode, artifact.several)
      BY <2>1, <2>2 DEF Artifacts
    <2>4. Held' = Held
      BY <2>3 DEF Held
    <2>5. engine \in ScriptEngines /\ artifact'.mode = "STREAM" /\ artifact'.multi = "no" =>
            ~artifact'.several
      BY <2>3 DEF MultiDatabase
    <2> QED
      BY <1>0, <2>1, <2>3, <2>4, <2>5 DEF ArtifactInv, ScriptSays
  <1> QED
    BY <1>1, <1>2, <1>3, EnginesMoves

(* A verify that found something found something of the artifact's.        *)
LEMMA VerdictStep ==
  ASSUME EnginesInv, EnginesNext
  PROVE  FullRestoreSawTheData'
  <1>0. EnginesTypeOK /\ ArtifactInv /\ FullRestoreSawTheData /\ engine' = engine
    BY EnginesMoves DEF EnginesInv
  <1>1. ASSUME proved' = "FULL_RESTORE"
        PROVE  \E n \in IF engine = "postgres" THEN Names ELSE Databases : artifact'.holds[n] > Blank
    <2>1. CASE Verifies
      <3>1. PICK level \in {"CHECKSUM", "FULL_RESTORE"} : Verify(level)
        BY <2>1 DEF Verifies
      <3>2. artifact' = artifact /\ VerifyLevel(level) # "CHECKSUM" /\ Landed
        BY <1>1, <3>1 DEF Verify
      <3>3. engine # "postgres" => selection # <<>>
        BY <3>1, <3>2 DEF VerifyLevel
      <3>4. engine # "postgres" => Origin \in Databases /\ Origin # System
        BY <1>0, <3>3, SelectionShape, EngineBounds DEF Origin, EnginesTypeOK
      <3>5. CASE engine = "postgres"
        BY <3>2, <3>5 DEF Landed, HoldsData, Held
      <3>6. CASE engine = "mongodb"
        BY <3>2, <3>4, <3>6 DEF Landed, MongoLanded
      <3>7. CASE engine \in ScriptEngines
        <4>1. ScriptLanded
          BY <3>2, <3>4, <3>7 DEF Landed, ScriptEngines
        <4>2. CASE artifact.uses
          BY <3>2, <3>4, <3>7, <4>1, <4>2 DEF ScriptLanded, ScriptEngines
        <4>3. CASE ~artifact.uses
          <5>1. artifact.holds[System] = Missing
            BY <1>0, <3>7, <4>3 DEF ArtifactInv, ScriptSays
          <5>2. \E n \in Held : artifact.holds[n] > Blank
            BY <4>1, <4>3 DEF ScriptLanded, HoldsData
          <5> QED
            BY <3>2, <3>7, <5>1, <5>2 DEF Held, Names, ScriptEngines
        <4> QED
          BY <4>2, <4>3
      <3> QED
        BY <1>0, <3>5, <3>6, <3>7 DEF EnginesTypeOK, EngineKinds, ScriptEngines
    <2>2. CASE proved' = proved /\ artifact' = artifact
      BY <1>0, <1>1, <2>2 DEF FullRestoreSawTheData
    <2> QED
      BY <1>1, <2>1, <2>2, EnginesMoves
  <1> QED
    BY <1>0, <1>1 DEF FullRestoreSawTheData

(* A tool that goes on in clear is a MariaDB client.                       *)
LEMMA ClearStep ==
  ASSUME EnginesInv, EnginesNext
  PROVE  TlsIsNotDropped'
  <1>0. TlsIsNotDropped
    BY DEF EnginesInv
  <1>1. ASSUME NEW tool, tool \in {"mydumper", "myloader"} => tls # "require",
               ToolConnects(tool), Contact(tool)
        PROVE  TlsIsNotDropped'
    BY <1>0, <1>1 DEF ToolConnects, Contact, FallsBack, TlsIsNotDropped
  <1>2. CASE Dumps
    <2>1. PICK mode \in Modes, recorded \in BOOLEAN :
            \E d \in BuildDump(mode) : DumpIsSound(d, mode) /\ ToolConnects(d.tool) /\ Contact(d.tool)
      BY <1>2, DumpEffect DEF Dumps
    <2> QED
      BY <1>1, <2>1 DEF DumpIsSound
  <1>3. CASE RunRestore
    <2>1. PICK r \in BuildRestore(asked.target) :
            RestoreIsSound(r, asked.target) /\ ToolConnects(r.tool) /\ Contact(r.tool)
      BY <1>3, RestoreEffect
    <2> QED
      BY <1>1, <2>1 DEF RestoreIsSound
  <1> QED
    BY <1>0, <1>2, <1>3, EnginesMoves DEF TlsIsNotDropped

LEMMA EnginesInvStep == EnginesInv /\ [EnginesNext]_evars => EnginesInv'
  <1>1. ASSUME EnginesInv, EnginesNext PROVE EnginesInv'
    BY <1>1, EnginesTypeStep, GatesStep, ArtifactStep, VerdictStep, ClearStep DEF EnginesInv
  <1>2. ASSUME EnginesInv, UNCHANGED evars PROVE EnginesInv'
    <2>1. /\ engine' = engine /\ selection' = selection /\ narrows' = narrows
          /\ secure' = secure /\ ca' = ca
          /\ sees' = sees /\ replica' = replica /\ offers' = offers /\ data' = data
      BY <1>2 DEF evars, target, host
    <2>2. /\ at' = at /\ found' = found /\ artifact' = artifact /\ asked' = asked /\ restored' = restored
          /\ proved' = proved /\ inClear' = inClear /\ events' = events
      BY <1>2 DEF evars
    <2>3. EnginesTypeOK /\ ScopeFits(selection) /\ ProbeInv /\ AskInv /\ ArtifactInv
            /\ FullRestoreSawTheData /\ TlsIsNotDropped
      BY <1>2 DEF EnginesInv
    <2>4. EnginesTypeOK'
      BY <2>1, <2>2, <2>3 DEF EnginesTypeOK
    <2>5. ScopeFits(selection)' /\ ProbeInv' /\ AskInv'
      BY <2>1, <2>2, <2>3 DEF ScopeFits, ProbeInv, AskInv, Content, ConnectDatabase, Confinable
    <2>6. ArtifactInv' /\ FullRestoreSawTheData' /\ TlsIsNotDropped'
      BY <2>1, <2>2, <2>3 DEF ArtifactInv, ScriptSays, Held, FullRestoreSawTheData,
        TlsIsNotDropped
    <2> QED
      BY <2>4, <2>5, <2>6 DEF EnginesInv
  <1> QED
    BY <1>1, <1>2

LEMMA EnginesInvariant == EnginesSpec => []EnginesInv
  BY EnginesInvInit, EnginesInvStep, PTL DEF EnginesSpec

-----------------------------------------------------------------------------
(* Every variable of the engines stays in its type.                        *)
THEOREM EnginesTypes == EnginesSpec => []EnginesTypeOK
  <1>1. EnginesInv => EnginesTypeOK
    BY DEF EnginesInv
  <1> QED
    BY <1>1, EnginesInvariant, PTL

(* No dump or restore of a TLS target goes in clear, but by MariaDB's own  *)
(* clients: whatever the target and its server become after the probe.     *)
THEOREM TlsStays == EnginesSpec => []TlsIsNotDropped
  <1>1. EnginesInv => TlsIsNotDropped
    BY DEF EnginesInv
  <1> QED
    BY <1>1, EnginesInvariant, PTL

(* A backup VERIFIED at FULL_RESTORE holds data that was seen in a sandbox,*)
(* though the target be edited between the dump and the verify.            *)
THEOREM FullRestoreSaw == EnginesSpec => []FullRestoreSawTheData
  <1>1. EnginesInv => FullRestoreSawTheData
    BY DEF EnginesInv
  <1> QED
    BY <1>1, EnginesInvariant, PTL

(* A dump holds every database that was asked for and found.               *)
THEOREM DumpsHold == EnginesSpec => DumpsHoldTheSelection
  <1> DEFINE Holds == at = "probed" /\ artifact' # artifact =>
                        \A d \in found \cap Databases :
                          selection = <<>> \/ d \in Selected => artifact'.holds[d] = data[d]
  <1>1. EnginesInv /\ [EnginesNext]_evars => [Holds]_evars
    <2> SUFFICES ASSUME EnginesInv, EnginesNext, at = "probed", artifact' # artifact,
                        NEW d \in found \cap Databases, selection = <<>> \/ d \in Selected
                 PROVE  artifact'.holds[d] = data[d]
      OBVIOUS
    <2>1. EnginesTypeOK
      BY DEF EnginesInv
    <2>2. Dumps
      BY EnginesMoves DEF Rebuild
    <2>3. PICK mode \in Modes, recorded \in BOOLEAN :
            \E e \in BuildDump(mode) : DumpIsSound(e, mode) /\ artifact' = DumpRow(mode, e, recorded)
      BY <2>2, DumpEffect DEF Dumps
    <2>4. PICK e \in BuildDump(mode) : DumpIsSound(e, mode) /\ artifact' = DumpRow(mode, e, recorded)
      BY <2>3
    <2>5. d \in e.copies
      BY <2>4 DEF DumpIsSound
    <2>6. d \in Names /\ Content(d) = data[d]
      BY <2>1, ContentType DEF Names
    <2> QED
      BY <2>1, <2>4, <2>5, <2>6, DumpRowShape
  <1> QED
    BY <1>1, EnginesInvariant, PTL DEF EnginesSpec, DumpsHoldTheSelection

(* A restore of less than the cluster leaves the neighbours alone.         *)
THEOREM RestoresConfined == EnginesSpec => RestoresStayConfined
  <1> DEFINE Confined ==
        at = "restoring" /\ at' = "idle" /\ restored'.touched # {} /\ asked.target # "FULL_CLUSTER" =>
          LET names == {w[1] : w \in restored'.touched} IN
          /\ engine \in ScriptEngines => Cardinality(names) = 1
          /\ engine = "mongodb" => names \subseteq Selected
          /\ asked.target \in {"SCHEMA", "COLLECTION"} => \A w \in restored'.touched : w[2] = "named"
  <1>1. EnginesInv /\ [EnginesNext]_evars => [Confined]_evars
    <2> SUFFICES ASSUME EnginesInv, EnginesNext, at = "restoring", at' = "idle", restored'.touched # {},
                        asked.target # "FULL_CLUSTER"
                 PROVE  LET names == {w[1] : w \in restored'.touched} IN
                        /\ engine \in ScriptEngines => Cardinality(names) = 1
                        /\ engine = "mongodb" => names \subseteq Selected
                        /\ asked.target \in {"SCHEMA", "COLLECTION"} =>
                             \A w \in restored'.touched : w[2] = "named"
      OBVIOUS
    <2> DEFINE names == {w[1] : w \in restored'.touched}
    <2>1. EnginesTypeOK /\ AskInv /\ ArtifactInv
      BY DEF EnginesInv
    <2>2. RunRestore
      BY DEF EnginesNext, ProbeTarget, RunDump, DumpFails, Rebuild, AskRestore, RestoreFails,
        NoOutcome, Verify,
        EditTarget, ServerChanges
    <2>3. PICK r \in BuildRestore(asked.target) :
            RestoreIsSound(r, asked.target) /\ restored'.touched = WrittenBy(r)
      BY <2>2, RestoreEffect
    <2>4. asked.target \in Capabilities[engine].targets /\ Confinable(asked.target)
      BY <2>1 DEF AskInv
    <2>5. ASSUME engine = "mongodb" PROVE names \subseteq Selected
      BY <2>3, <2>5 DEF RestoreIsSound, WrittenBy
    <2>6. ASSUME asked.target \in {"SCHEMA", "COLLECTION"}
          PROVE  \A w \in restored'.touched : w[2] = "named"
      <3>1. r.parts = {"named"}
        BY <2>3, <2>4, <2>6 DEF RestoreIsSound
      <3> QED
        BY <2>3, <3>1 DEF WrittenBy
    <2>7. ASSUME engine \in ScriptEngines PROVE Cardinality(names) = 1
      <3>1. artifact.multi = "no"
        BY <2>4, <2>7 DEF Confinable
      <3>2. r.tool # "mongorestore"
        BY <2>3, <2>7 DEF RestoreIsSound, ScriptEngines
      <3>3. r.tool \in ScriptEngines => \A a, b \in Held : a = b
        BY <2>1, <2>3, <2>7, <3>1 DEF RestoreIsSound, ArtifactInv, ScriptSays
      <3>4. \A w, v \in restored'.touched : w[1] = v[1]
        BY <2>3, <3>2, <3>3 DEF WrittenBy
      <3>5. PICK w \in restored'.touched : TRUE
        OBVIOUS
      <3>6. names = {w[1]}
        BY <3>4, <3>5
      <3> QED
        BY <3>6, FS_Singleton
    <2> QED
      BY <2>5, <2>6, <2>7
  <1> QED
    BY <1>1, EnginesInvariant, PTL DEF EnginesSpec, RestoresStayConfined

(* A restore of a whole replica set replays its oplog, or its job says that*)
(* it may be of several instants.                                          *)
THEOREM OneInstant == EnginesSpec => OneInstantOrSaid
  <1> DEFINE Said ==
        at = "restoring" /\ at' = "idle" /\ restored'.state = "SUCCEEDED" /\ asked.target = "FULL_CLUSTER"
          /\ artifact.oplog => restored'.replayed
  <1>1. EnginesInv /\ [EnginesNext]_evars => [Said]_evars
    <2> SUFFICES ASSUME EnginesInv, EnginesNext, at = "restoring", at' = "idle",
                        restored'.state = "SUCCEEDED",
                        asked.target = "FULL_CLUSTER", artifact.oplog
                 PROVE  restored'.replayed
      OBVIOUS
    <2>1. RunRestore
      BY DEF EnginesNext, ProbeTarget, RunDump, DumpFails, Rebuild, AskRestore, RestoreFails,
        NoOutcome, Verify,
        EditTarget, ServerChanges
    <2>2. engine = "mongodb" /\ artifact.hasOplog \in {"yes", "unknown"}
      BY DEF EnginesInv, ArtifactInv
    <2>3. PICK r \in BuildRestore(asked.target) :
            /\ RestoreIsSound(r, asked.target) /\ restored'.replayed = r.replay
            /\ restored'.state = IF /\ engine = "mongodb" /\ asked.target = "FULL_CLUSTER"
                                    /\ artifact.hasOplog = "unknown"
                                 THEN "DEGRADED" ELSE "SUCCEEDED"
      BY <2>1, RestoreEffect
    <2>4. artifact.hasOplog = "yes"
      BY <2>2, <2>3
    <2> QED
      BY <2>2, <2>3, <2>4 DEF RestoreIsSound
  <1> QED
    BY <1>1, EnginesInvariant, PTL DEF EnginesSpec, OneInstantOrSaid
=============================================================================
