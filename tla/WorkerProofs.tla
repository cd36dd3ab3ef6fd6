---------------------------- MODULE WorkerProofs ----------------------------
(***************************************************************************)
(* What is proved about Worker for every number of replicas, of jobs and   *)
(* of failures.                                                            *)
(***************************************************************************)
EXTENDS Worker, TLAPS

-----------------------------------------------------------------------------
(* The operators on the lock.                                              *)

(* The lock keeps its type through every operation of a session.           *)
LEMMA LockTypes ==
  ASSUME NEW S, NEW s \in S, NEW l \in Locks(S), l.holder = s => l.depth > 0
  PROVE  /\ Take(l, s) \in Locks(S)
         /\ Release(l, s) \in Locks(S)
         /\ EndSession(l, s) \in Locks(S)
         /\ Abandon(l, s) \in Locks(S)
         /\ Free \in Locks(S)
  BY DEF Take, Release, EndSession, Abandon, Free, Locks

(* A session that holds the lock has at least one acquisition to give      *)
(* back, and a lock nobody holds has none.                                 *)
LockCounts ==
  /\ lock.holder # Nobody => lock.depth > 0
  /\ lock.holder = Nobody => lock.depth = 0

LEMMA LockCountsStep ==
  ASSUME TypeOK, LockCounts, [NextLossy]_vars
  PROVE  LockCounts'
  <1> USE NamesAssumption DEF LockCounts, TypeOK, Locks
  <1>1. ASSUME NEW r \in Replicas, lock' \in {lock, Take(lock, r), Release(lock, r),
                 EndSession(lock, r), Abandon(lock, r), Free}
        PROVE  LockCounts'
    BY <1>1 DEF Take, Release, EndSession, Abandon, Free
  <1>2. CASE UNCHANGED lock
    BY <1>2
  <1>3. CASE lock' = Free
    BY <1>3 DEF Free
  <1>4. ASSUME NEW r \in Replicas,
               \/ BootStep(r) \/ SweepTryLock(r) \/ SweepStep(r)
               \/ TickTryLock(r) \/ DrainStep(r)
               \/ Crash(r) \/ Signal(r) \/ StopStep(r)
        PROVE  LockCounts'
    <2>1. CASE BootStep(r)
      BY <2>1, <1>1, <1>2 DEF BootStep, Start, BootTryLock, RecoverOrphanedJobs, SkipBootSweep
    <2>2. CASE SweepTryLock(r) \/ SweepStep(r)
      BY <2>2, <1>1, <1>2 DEF SweepTryLock, SweepStep, SweepList, SweepRemove, SweepUnlock
    <2>3. CASE TickTryLock(r) \/ DrainUnlock(r)
      BY <2>3, <1>1 DEF TickTryLock, DrainUnlock
    <2>4. CASE ClaimStep(r) \/ RunStep(r)
      BY <2>4, <1>2 DEF ClaimStep, AskForJob, ClaimNextJob, ClaimFindsNothing, ClaimThrows,
        RunStep, StartExecutor, SettleSucceeded, SettleFailed, ExecutorThrows, TailThrows,
        FailJob, FailJobThrows, ExecutorReturns, Chain, EndJob
    <2>5. CASE Crash(r) \/ Signal(r) \/ StopStep(r)
      BY <2>5, <1>1, <1>2 DEF Crash, Signal, StopStep, Disconnect, Exit, Wipe
    <2> QED
      BY <1>4, <2>1, <2>2, <2>3, <2>4, <2>5 DEF DrainStep
  <1>5. CASE \E k \in {"BACKUP", "VERIFY", "RESTORE"} : Enqueue(k)
    BY <1>5, <1>2 DEF Enqueue
  <1>6. CASE UNCHANGED vars
    BY <1>6, <1>2 DEF vars
  <1> QED
    BY <1>2, <1>3, <1>4, <1>5, <1>6 DEF NextLossy, Next, ServerEndsStaleSession, SessionDrops

-----------------------------------------------------------------------------
(* Type correctness, with lock connections that may break.                 *)

LEMMA TypeInit == Init => TypeOK /\ LockCounts
  BY BoundsAssumption, NamesAssumption
  DEF Init, TypeOK, LockCounts, Free, Locks, States, Kinds, Phases, DrainPcs, SweepPcs

(* A drain has a job in hand exactly while it is past its claim.           *)
HandPcs == {"claimed", "executing", "working", "settled", "crashed", "chain"}
HandInv == \A r \in Replicas : cur[r] # NoJob <=> wpc[r] \in HandPcs

LEMMA TypeStep ==
  ASSUME TypeOK, LockCounts, HandInv, [NextLossy]_vars
  PROVE  TypeOK'
  <1> USE BoundsAssumption, NamesAssumption DEF TypeOK, States, Kinds, Terminal, Phases,
        DrainPcs, SweepPcs, Transition, SetState, Insert, rows, drain, sweep, budget
  <1>1. ASSUME NEW r \in Replicas
        PROVE  /\ Take(lock, r) \in Locks(Replicas)
               /\ Release(lock, r) \in Locks(Replicas)
               /\ EndSession(lock, r) \in Locks(Replicas)
               /\ Abandon(lock, r) \in Locks(Replicas)
               /\ Free \in Locks(Replicas)
    BY LockTypes DEF LockCounts
  <1>2. Free \in Locks(Replicas)
    BY DEF Free, Locks
  <1>3. ASSUME NEW r \in Replicas, BootStep(r)
        PROVE  TypeOK'
    BY <1>1, <1>3 DEF BootStep, Start, BootTryLock, RecoverOrphanedJobs, SkipBootSweep
  <1>4. ASSUME NEW r \in Replicas, SweepTryLock(r) \/ SweepStep(r)
        PROVE  TypeOK'
    <2>1. CASE SweepTryLock(r)
      BY <1>1, <2>1 DEF SweepTryLock
    <2>2. CASE SweepList(r)
      BY <2>2 DEF SweepList
    <2>3. CASE SweepRemove(r)
      BY <2>3 DEF SweepRemove
    <2>4. CASE SweepUnlock(r)
      BY <1>1, <2>4 DEF SweepUnlock
    <2> QED
      BY <1>4, <2>1, <2>2, <2>3, <2>4 DEF SweepStep
  <1>5. ASSUME NEW r \in Replicas, TickTryLock(r) \/ ClaimStep(r) \/ DrainUnlock(r)
        PROVE  TypeOK'
    <2>1. CASE TickTryLock(r)
      BY <1>1, <2>1 DEF TickTryLock
    <2>2. CASE AskForJob(r)
      BY <2>2 DEF AskForJob
    <2>3. CASE ClaimNextJob(r)
      BY <2>3 DEF ClaimNextJob
    <2>4. CASE ClaimFindsNothing(r)
      BY <2>4 DEF ClaimFindsNothing
    <2>5. CASE ClaimThrows(r)
      BY <2>5 DEF ClaimThrows
    <2>6. CASE DrainUnlock(r)
      BY <1>1, <2>6 DEF DrainUnlock
    <2> QED
      BY <1>5, <2>1, <2>2, <2>3, <2>4, <2>5, <2>6 DEF ClaimStep
  <1>6. ASSUME NEW r \in Replicas, RunStep(r)
        PROVE  TypeOK'
    <2>1. CASE StartExecutor(r)
      <3>1. cur[r] \in Jobs
        BY <2>1 DEF StartExecutor, HandInv, HandPcs
      <3> QED
        BY <2>1, <3>1 DEF StartExecutor
    <2>2. CASE SettleSucceeded(r)
      <3>1. todo' \in [Replicas -> SUBSET {"VERIFY", "RETENTION"}]
        <4>1. PICK t \in SUBSET {"VERIFY", "RETENTION"} : todo' = [todo EXCEPT ![r] = t]
          BY <2>2 DEF SettleSucceeded
        <4> QED
          BY <4>1
      <3>2. wpc' = [wpc EXCEPT ![r] = "settled"]
        BY <2>2 DEF SettleSucceeded
      <3> QED
        BY <2>2, <3>1, <3>2 DEF SettleSucceeded
    <2>3. CASE SettleFailed(r)
      BY <2>3 DEF SettleFailed
    <2>4. CASE ExecutorThrows(r) \/ ExecutorReturns(r)
      BY <2>4 DEF ExecutorThrows, ExecutorReturns
    <2>5. CASE TailThrows(r)
      BY <2>5 DEF TailThrows
    <2>6. CASE FailJob(r) \/ FailJobThrows(r)
      BY <2>6 DEF FailJob, FailJobThrows
    <2>7. CASE Chain(r)
      BY <2>7 DEF Chain
    <2>8. CASE EndJob(r)
      BY <2>8 DEF EndJob
    <2> QED
      BY <1>6, <2>1, <2>2, <2>3, <2>4, <2>5, <2>6, <2>7, <2>8 DEF RunStep
  <1>7. ASSUME NEW r \in Replicas, Crash(r) \/ Signal(r) \/ StopStep(r)
        PROVE  TypeOK'
    <2>1. CASE Crash(r)
      BY <1>1, <2>1 DEF Crash, Wipe
    <2>2. CASE Signal(r)
      BY <2>2 DEF Signal
    <2>3. CASE Disconnect(r)
      BY <1>1, <2>3 DEF Disconnect
    <2>4. CASE Exit(r)
      BY <1>1, <2>4 DEF Exit, Wipe
    <2> QED
      BY <1>7, <2>1, <2>2, <2>3, <2>4 DEF StopStep
  <1>8. ASSUME NEW k \in {"BACKUP", "VERIFY", "RESTORE"}, Enqueue(k)
        PROVE  TypeOK'
    BY <1>8 DEF Enqueue
  <1>9. ASSUME ServerEndsStaleSession \/ \E r \in Replicas : SessionDrops(r)
        PROVE  TypeOK'
    BY <1>2, <1>9 DEF ServerEndsStaleSession, SessionDrops
  <1>10. CASE UNCHANGED vars
    BY <1>10 DEF vars
  <1> QED
    BY <1>3, <1>4, <1>5, <1>6, <1>7, <1>8, <1>9, <1>10 DEF NextLossy, Next, DrainStep

-----------------------------------------------------------------------------
(* Where a process can be when.                                            *)

LEMMA HandInit == Init => HandInv
  BY NamesAssumption DEF Init, HandInv, HandPcs

LEMMA HandStep ==
  ASSUME TypeOK, HandInv, [NextLossy]_vars
  PROVE  HandInv'
  <1> USE NamesAssumption DEF TypeOK, HandInv, HandPcs, Transition, drain
  <1>1. ASSUME NEW r \in Replicas, TickTryLock(r) \/ ClaimStep(r) \/ DrainUnlock(r)
        PROVE  HandInv'
    <2>1. CASE ClaimNextJob(r)
      <3>1. PICK j \in Jobs : cur' = [cur EXCEPT ![r] = j]
        BY <2>1 DEF ClaimNextJob
      <3>2. j # NoJob
        BY DEF Jobs
      <3> QED
        BY <2>1, <3>1, <3>2 DEF ClaimNextJob
    <2>2. CASE TickTryLock(r) \/ AskForJob(r) \/ ClaimFindsNothing(r)
               \/ ClaimThrows(r) \/ DrainUnlock(r)
      BY <2>2 DEF TickTryLock, AskForJob, ClaimFindsNothing, ClaimThrows, DrainUnlock
    <2> QED
      BY <1>1, <2>1, <2>2 DEF ClaimStep
  <1>2. ASSUME NEW r \in Replicas, RunStep(r)
        PROVE  HandInv'
    BY <1>2 DEF RunStep, StartExecutor, SettleSucceeded, SettleFailed, ExecutorThrows,
      TailThrows, FailJob, FailJobThrows, ExecutorReturns, Chain, EndJob
  <1>3. ASSUME NEW r \in Replicas, Crash(r) \/ Exit(r)
        PROVE  HandInv'
    BY <1>3 DEF Crash, Exit, Wipe
  <1>4. CASE UNCHANGED drain
    BY <1>4
  <1>5. ASSUME NEW r \in Replicas,
               BootStep(r) \/ SweepTryLock(r) \/ SweepStep(r) \/ Signal(r) \/ Disconnect(r)
        PROVE  HandInv'
    BY <1>4, <1>5 DEF BootStep, Start, BootTryLock, RecoverOrphanedJobs, SkipBootSweep,
      SweepTryLock, SweepStep, SweepList, SweepRemove, SweepUnlock, Signal, Disconnect
  <1>6. ASSUME NEW k \in {"BACKUP", "VERIFY", "RESTORE"}, Enqueue(k)
        PROVE  HandInv'
    BY <1>4, <1>6 DEF Enqueue
  <1>7. CASE ServerEndsStaleSession \/ \E r \in Replicas : SessionDrops(r)
    BY <1>4, <1>7 DEF ServerEndsStaleSession, SessionDrops
  <1>8. CASE UNCHANGED vars
    BY <1>4, <1>8 DEF vars
  <1> QED
    BY <1>1, <1>2, <1>3, <1>5, <1>6, <1>7, <1>8 DEF NextLossy, Next, DrainStep, StopStep

(* No loop runs in a process that is down or booting, and none but the     *)
(* boot sweep before the process is up.                                    *)
PhaseInv ==
  \A r \in Replicas :
    /\ phase[r] \in {"down", "boot", "recover"} => wpc[r] = "idle" /\ spc[r] = "idle"
    /\ phase[r] = "bootsweep" => wpc[r] = "idle"

LEMMA PhaseInit == Init => PhaseInv
  BY DEF Init, PhaseInv

LEMMA PhaseStep ==
  ASSUME TypeOK, PhaseInv, [NextLossy]_vars
  PROVE  PhaseInv'
  <1> USE DEF TypeOK, PhaseInv, Transition, drain, sweep
  <1>1. ASSUME NEW r \in Replicas, BootStep(r)
        PROVE  PhaseInv'
    BY <1>1 DEF BootStep, Start, BootTryLock, RecoverOrphanedJobs, SkipBootSweep
  <1>2. ASSUME NEW r \in Replicas, SweepTryLock(r) \/ SweepStep(r)
        PROVE  PhaseInv'
    BY <1>2 DEF SweepTryLock, SweepStep, SweepList, SweepRemove, SweepUnlock
  <1>3. ASSUME NEW r \in Replicas, TickTryLock(r) \/ ClaimStep(r) \/ DrainUnlock(r)
        PROVE  PhaseInv'
    BY <1>3 DEF TickTryLock, ClaimStep, AskForJob, ClaimNextJob, ClaimFindsNothing,
      ClaimThrows, DrainUnlock
  <1>4. ASSUME NEW r \in Replicas, RunStep(r)
        PROVE  PhaseInv'
    BY <1>4 DEF RunStep, StartExecutor, SettleSucceeded, SettleFailed, ExecutorThrows,
      TailThrows, FailJob, FailJobThrows, ExecutorReturns, Chain, EndJob
  <1>5. ASSUME NEW r \in Replicas, Crash(r) \/ Signal(r) \/ StopStep(r)
        PROVE  PhaseInv'
    BY <1>5 DEF Crash, Signal, StopStep, Disconnect, Exit, Wipe
  <1>6. CASE UNCHANGED <<phase, drain, sweep>>
    BY <1>6
  <1>7. ASSUME NEW k \in {"BACKUP", "VERIFY", "RESTORE"}, Enqueue(k)
        PROVE  PhaseInv'
    BY <1>6, <1>7 DEF Enqueue
  <1>8. CASE ServerEndsStaleSession \/ \E r \in Replicas : SessionDrops(r)
    BY <1>6, <1>8 DEF ServerEndsStaleSession, SessionDrops
  <1>9. CASE UNCHANGED vars
    BY <1>6, <1>9 DEF vars
  <1> QED
    BY <1>1, <1>2, <1>3, <1>4, <1>5, <1>7, <1>8, <1>9 DEF NextLossy, Next, DrainStep

-----------------------------------------------------------------------------
(* No job is run twice.                                                    *)

LEMMA DoubleRunInit == Init => NoDoubleRun
  BY DEF Init, NoDoubleRun

LEMMA DoubleRunStep ==
  ASSUME TypeOK, HandInv, NoDoubleRun, [NextLossy]_vars
  PROVE  NoDoubleRun'
  <1> USE NamesAssumption DEF TypeOK, NoDoubleRun, rows, drain, SetState
  <1>1. ASSUME UNCHANGED cur,
               \A j \in Jobs : job'[j] = job[j] \/ job'[j] \notin {"ABSENT", "PENDING"}
        PROVE  NoDoubleRun'
    BY <1>1
  <1>2. ASSUME NEW r \in Replicas, cur' = [cur EXCEPT ![r] = NoJob],
               \A j \in Jobs : job'[j] = job[j] \/ job'[j] \notin {"ABSENT", "PENDING"}
        PROVE  NoDoubleRun'
    BY <1>2
  <1>3. ASSUME NEW j \in Jobs, NEW k, Insert(j, k), UNCHANGED cur
        PROVE  NoDoubleRun'
    BY <1>3 DEF Insert
  <1>4. ASSUME NEW r \in Replicas, ClaimStep(r)
        PROVE  NoDoubleRun'
    <2>1. CASE ClaimNextJob(r)
      <3>1. PICK j \in Jobs : /\ IsOldestPending(j)
                              /\ job' = [job EXCEPT ![j] = "RUNNING"]
                              /\ cur' = [cur EXCEPT ![r] = j]
        BY <2>1 DEF ClaimNextJob
      <3>2. \A q \in Replicas : cur[q] # j
        BY <3>1 DEF IsOldestPending, Jobs
      <3> QED
        BY <3>1, <3>2
    <2>2. CASE ClaimThrows(r)
      BY <2>2, <1>1 DEF ClaimThrows
    <2>3. CASE AskForJob(r) \/ ClaimFindsNothing(r)
      BY <2>3, <1>1 DEF AskForJob, ClaimFindsNothing
    <2> QED
      BY <1>4, <2>1, <2>2, <2>3 DEF ClaimStep
  <1>5. ASSUME NEW r \in Replicas, RunStep(r)
        PROVE  NoDoubleRun'
    <2>1. CASE StartExecutor(r) \/ SettleSucceeded(r) \/ SettleFailed(r)
               \/ ExecutorThrows(r) \/ TailThrows(r) \/ ExecutorReturns(r)
      BY <2>1, <1>1 DEF StartExecutor, SettleSucceeded, SettleFailed, ExecutorThrows,
        TailThrows, ExecutorReturns
    <2>2. CASE FailJob(r) \/ FailJobThrows(r) \/ EndJob(r)
      BY <2>2, <1>2 DEF FailJob, FailJobThrows, EndJob
    <2>3. CASE Chain(r)
      BY <2>3, <1>1, <1>3 DEF Chain
    <2> QED
      BY <1>5, <2>1, <2>2, <2>3 DEF RunStep
  <1>6. ASSUME NEW r \in Replicas, Crash(r) \/ Exit(r)
        PROVE  NoDoubleRun'
    BY <1>6, <1>2 DEF Crash, Exit, Wipe
  <1>7. ASSUME NEW r \in Replicas,
               \/ BootStep(r) \/ SweepTryLock(r) \/ SweepStep(r) \/ TickTryLock(r)
               \/ DrainUnlock(r) \/ Signal(r) \/ Disconnect(r)
        PROVE  NoDoubleRun'
    BY <1>7, <1>1 DEF BootStep, Start, BootTryLock, RecoverOrphanedJobs, SkipBootSweep,
      SweepTryLock, SweepStep, SweepList, SweepRemove, SweepUnlock, TickTryLock,
      DrainUnlock, Signal, Disconnect
  <1>8. ASSUME NEW k \in {"BACKUP", "VERIFY", "RESTORE"}, Enqueue(k)
        PROVE  NoDoubleRun'
    BY <1>8, <1>3 DEF Enqueue
  <1>9. CASE ServerEndsStaleSession \/ \E r \in Replicas : SessionDrops(r)
    BY <1>9, <1>1 DEF ServerEndsStaleSession, SessionDrops
  <1>10. CASE UNCHANGED vars
    BY <1>10, <1>1 DEF vars
  <1> QED
    BY <1>4, <1>5, <1>6, <1>7, <1>8, <1>9, <1>10 DEF NextLossy, Next, DrainStep, StopStep

(* What holds whatever becomes of the lock connections.                    *)
BaseInv == TypeOK /\ LockCounts /\ HandInv /\ PhaseInv /\ NoDoubleRun

LEMMA BaseInvariant == SpecLossy => []BaseInv
  <1>1. Init => BaseInv
    BY TypeInit, HandInit, PhaseInit, DoubleRunInit DEF BaseInv
  <1>2. BaseInv /\ [NextLossy]_vars => BaseInv'
    BY TypeStep, LockCountsStep, HandStep, PhaseStep, DoubleRunStep DEF BaseInv
  <1> QED
    BY <1>1, <1>2, PTL DEF SpecLossy

(* No two processes ever run the same job, even when lock connections      *)
(* break: the claim alone is enough (claim.ts).                            *)
THEOREM AtMostOneRun == SpecLossy => []NoDoubleRun
  <1>1. BaseInv => NoDoubleRun
    BY DEF BaseInv
  <1> QED
    BY <1>1, BaseInvariant, PTL

(* Every behaviour keeps every variable in its type.                       *)
THEOREM TypeCorrect == Spec => []TypeOK
  <1>1. Spec => SpecLossy
    <2>1. [Next]_vars => [NextLossy]_vars
      BY DEF NextLossy
    <2> QED
      BY <2>1, PTL DEF Spec, SpecLossy
  <1>2. BaseInv => TypeOK
    BY DEF BaseInv
  <1> QED
    BY <1>1, <1>2, BaseInvariant, PTL

-----------------------------------------------------------------------------
(* The lock and the tasks that hold it.                                    *)

(* Acquisitions the server counts for r, and tasks of r between their      *)
(* tryLock and their unlock.                                               *)
Depth(r) == IF lock.holder = r THEN lock.depth ELSE 0
Tasks(r) == (IF wpc[r] = "idle" THEN 0 ELSE 1) + (IF spc[r] = "idle" THEN 0 ELSE 1)
            + (IF phase[r] = "recover" THEN 1 ELSE 0)

(* They agree while the session lives: every unlock gives back exactly     *)
(* what its own tryLock took, so the lock is never free under a task that  *)
(* believes it holds it.  A process that is down holds nothing.            *)
SessionInv ==
  \A r \in Replicas :
    /\ InSession(r) => Depth(r) = Tasks(r)
    /\ phase[r] = "down" => lock.holder # r

LEMMA SessionInit == Init => SessionInv
  BY NamesAssumption DEF Init, SessionInv, InSession, Depth, Tasks, Free

LEMMA SessionStep ==
  ASSUME TypeOK, LockCounts, HandInv, PhaseInv, SessionInv, [Next]_vars
  PROVE  SessionInv'
  <1> USE NamesAssumption DEF TypeOK, LockCounts, PhaseInv, SessionInv, InSession, Locks,
        Depth, Tasks, Transition
  (* A tryLock that succeeds, an unlock, and the end of a session change   *)
  (* one process's count and nobody else's.                                *)
  <1>1. ASSUME NEW r \in Replicas, CanTake(lock, r)
        PROVE  /\ Take(lock, r).holder = r
               /\ Take(lock, r).depth = Depth(r) + 1
               /\ \A q \in Replicas \ {r} : lock.holder # q
    BY <1>1 DEF CanTake, Take
  <1>2. ASSUME NEW r \in Replicas, InSession(r), Tasks(r) > 0
        PROVE  /\ lock.holder = r
               /\ (IF Release(lock, r).holder = r THEN Release(lock, r).depth ELSE 0)
                  = Depth(r) - 1
               /\ \A q \in Replicas \ {r} : lock.holder # q /\ Release(lock, r).holder # q
    BY <1>2 DEF Release, Free
  <1>3. ASSUME NEW r \in Replicas
        PROVE  /\ \A q \in Replicas \ {r} :
                    /\ Release(lock, r).holder = q <=> lock.holder = q
                    /\ lock.holder = q => Release(lock, r) = lock
                    /\ EndSession(lock, r).holder = q <=> lock.holder = q
                    /\ lock.holder = q => EndSession(lock, r) = lock
                    /\ Abandon(lock, r).holder = q <=> lock.holder = q
                    /\ lock.holder = q => Abandon(lock, r) = lock
               /\ Abandon(lock, r).holder # r
    BY <1>3 DEF Release, EndSession, Abandon, Free
  <1>4. ASSUME NEW r \in Replicas, BootStep(r)
        PROVE  SessionInv'
    <2>1. CASE Start(r)
      BY <2>1 DEF Start, drain, sweep
    <2>2. CASE BootTryLock(r)
      <3>1. CASE CanTake(lock, r)
        BY <2>2, <3>1, <1>1 DEF BootTryLock, drain, sweep
      <3>2. CASE ~CanTake(lock, r)
        BY <2>2, <3>2 DEF BootTryLock, drain, sweep
      <3> QED
        BY <3>1, <3>2
    <2>3. CASE RecoverOrphanedJobs(r)
      BY <2>3, <1>2, <1>3 DEF RecoverOrphanedJobs, drain, sweep
    <2>4. CASE SkipBootSweep(r)
      BY <2>4 DEF SkipBootSweep, drain, sweep
    <2> QED
      BY <1>4, <2>1, <2>2, <2>3, <2>4 DEF BootStep
  <1>5. ASSUME NEW r \in Replicas, SweepTryLock(r) \/ TickTryLock(r)
        PROVE  SessionInv'
    BY <1>5, <1>1 DEF SweepTryLock, TickTryLock, drain, sweep
  <1>6. ASSUME NEW r \in Replicas, SweepUnlock(r) \/ DrainUnlock(r)
        PROVE  SessionInv'
    <2>1. CASE SweepUnlock(r)
      BY <2>1, <1>2, <1>3 DEF SweepUnlock, drain
    <2>2. CASE DrainUnlock(r)
      BY <2>2, <1>2, <1>3 DEF DrainUnlock, sweep
    <2> QED
      BY <1>6, <2>1, <2>2
  <1>7. ASSUME UNCHANGED <<lock, phase>>,
               \A r \in Replicas : /\ wpc'[r] = "idle" <=> wpc[r] = "idle"
                                   /\ spc'[r] = "idle" <=> spc[r] = "idle"
        PROVE  SessionInv'
    BY <1>7
  <1>8. ASSUME NEW r \in Replicas, SweepList(r) \/ SweepRemove(r)
        PROVE  SessionInv'
    BY <1>8, <1>7 DEF SweepList, SweepRemove, drain
  <1>9. ASSUME NEW r \in Replicas, ClaimStep(r) \/ RunStep(r)
        PROVE  SessionInv'
    BY <1>9, <1>7 DEF ClaimStep, AskForJob, ClaimNextJob, ClaimFindsNothing, ClaimThrows,
      RunStep, StartExecutor, SettleSucceeded, SettleFailed, ExecutorThrows, TailThrows,
      FailJob, FailJobThrows, ExecutorReturns, Chain, EndJob, sweep
  <1>10. ASSUME NEW r \in Replicas, Crash(r) \/ Exit(r)
         PROVE  SessionInv'
    BY <1>10, <1>3 DEF Crash, Exit, Wipe
  <1>11. ASSUME NEW r \in Replicas, Signal(r) \/ Disconnect(r)
         PROVE  SessionInv'
    BY <1>11, <1>3 DEF Signal, Disconnect, drain, sweep
  <1>12. ASSUME NEW k \in {"BACKUP", "VERIFY", "RESTORE"}, Enqueue(k)
         PROVE  SessionInv'
    BY <1>12, <1>7 DEF Enqueue, drain, sweep
  <1>13. CASE ServerEndsStaleSession
    BY <1>13 DEF ServerEndsStaleSession, drain, sweep, Free
  <1>14. CASE UNCHANGED vars
    BY <1>14, <1>7 DEF vars, drain, sweep
  <1> QED
    BY <1>4, <1>5, <1>6, <1>8, <1>9, <1>10, <1>11, <1>12, <1>13, <1>14
    DEF Next, SweepStep, DrainStep, StopStep

IInv == BaseInv /\ SessionInv

LEMMA IInvInvariant == Spec => []IInv
  <1>1. Init => IInv
    BY TypeInit, HandInit, PhaseInit, DoubleRunInit, SessionInit DEF IInv, BaseInv
  <1>2. IInv /\ [Next]_vars => IInv'
    <2> SUFFICES ASSUME IInv, [Next]_vars PROVE IInv'
      OBVIOUS
    <2>1. [NextLossy]_vars
      BY DEF NextLossy
    <2> QED
      BY <2>1, TypeStep, LockCountsStep, HandStep, PhaseStep, DoubleRunStep, SessionStep
      DEF IInv, BaseInv
  <1> QED
    BY <1>1, <1>2, PTL DEF Spec

(* Two live sessions never both have a task between tryLock and unlock.    *)
LEMMA TasksExclude ==
  ASSUME IInv, NEW q \in Replicas, NEW r \in Replicas,
         InSession(q), Tasks(q) > 0, InSession(r), Tasks(r) > 0
  PROVE  q = r
  <1>1. Depth(q) > 0 /\ Depth(r) > 0
    BY DEF IInv, SessionInv
  <1> QED
    BY <1>1 DEF Depth

LEMMA DrainIsATask ==
  ASSUME NEW r \in Replicas, wpc[r] # "idle"
  PROVE  Tasks(r) > 0
  BY DEF Tasks

LEMMA SweepIsATask ==
  ASSUME NEW r \in Replicas, spc[r] # "idle"
  PROVE  Tasks(r) > 0
  BY DEF Tasks

LEMMA RecoveryIsATask ==
  ASSUME NEW r \in Replicas, phase[r] = "recover"
  PROVE  Tasks(r) > 0
  BY DEF Tasks

(* The WORKER lock keeps one replica draining (server.ts), although a      *)
(* process's own sweep may share the lock with its drain.                  *)
THEOREM OneDrainer == Spec => []SingleDrainer
  <1>1. IInv => SingleDrainer
    BY TasksExclude, DrainIsATask DEF SingleDrainer
  <1> QED
    BY <1>1, IInvInvariant, PTL

(* Boot recovery fails no job of a process that is alive and in session    *)
(* (server.ts, step 1 of the worker boot).                                 *)
THEOREM RecoveryIsSafe == Spec => RecoverySparesLiveJobs
  <1>1. ASSUME IInv, [Next]_vars, NEW r \in Replicas, InSession(r), cur[r] # NoJob,
               job[cur[r]] = "RUNNING", job'[cur[r]] # "RUNNING"
        PROVE  wpc'[r] # wpc[r]
    <2> USE <1>1 DEF Transition, SetState, rows
    <2>1. /\ TypeOK /\ HandInv /\ PhaseInv /\ NoDoubleRun
          /\ cur[r] \in Jobs /\ wpc[r] \in HandPcs
      BY DEF IInv, BaseInv, TypeOK, HandInv
    <2>2. \A q \in Replicas : cur[q] = cur[r] => q = r
      BY <2>1 DEF NoDoubleRun
    <2>3. ~ UNCHANGED job
      OBVIOUS
    <2>4. ASSUME NEW q \in Replicas, BootStep(q)
          PROVE  FALSE
      <3>1. RecoverOrphanedJobs(q)
        BY <2>3, <2>4 DEF BootStep, Start, BootTryLock, SkipBootSweep
      <3>2. phase[q] = "recover"
        BY <3>1 DEF RecoverOrphanedJobs
      <3>3. q = r
        BY <3>2, TasksExclude, RecoveryIsATask, DrainIsATask, <2>1 DEF InSession, HandPcs
      <3> QED
        BY <3>2, <3>3, <2>1 DEF PhaseInv, HandPcs
    <2>5. ASSUME NEW q \in Replicas, RunStep(q)
          PROVE  wpc'[r] # wpc[r]
      <3>1. CASE Chain(q)
        BY <3>1, <2>1, <2>3 DEF Chain, Insert, TypeOK
      <3>2. CASE StartExecutor(q)
        BY <3>2, <2>1, <2>3 DEF StartExecutor, TypeOK
      <3>3. CASE SettleSucceeded(q)
        BY <3>3, <2>1, <2>2 DEF SettleSucceeded, TypeOK
      <3>4. CASE SettleFailed(q)
        BY <3>4, <2>1, <2>2 DEF SettleFailed, TypeOK
      <3>5. CASE FailJob(q)
        BY <3>5, <2>1, <2>2 DEF FailJob, TypeOK
      <3> QED
        BY <2>3, <2>5, <3>1, <3>2, <3>3, <3>4, <3>5 DEF RunStep, ExecutorThrows,
          TailThrows, FailJobThrows, ExecutorReturns, EndJob
    <2>6. ASSUME NEW q \in Replicas, ClaimStep(q)
          PROVE  FALSE
      BY <2>1, <2>3, <2>6 DEF ClaimStep, AskForJob, ClaimNextJob, ClaimFindsNothing,
        ClaimThrows, IsOldestPending, TypeOK
    <2>7. ASSUME NEW k \in {"BACKUP", "VERIFY", "RESTORE"}, Enqueue(k)
          PROVE  FALSE
      BY <2>1, <2>3, <2>7 DEF Enqueue, Insert, TypeOK
    <2>8. ASSUME \/ ServerEndsStaleSession \/ UNCHANGED vars
                 \/ \E q \in Replicas :
                      \/ SweepTryLock(q) \/ SweepStep(q) \/ TickTryLock(q) \/ DrainUnlock(q)
                      \/ Crash(q) \/ Signal(q) \/ StopStep(q)
          PROVE  FALSE
      BY <2>3, <2>8 DEF ServerEndsStaleSession, vars, SweepTryLock, SweepStep, SweepList,
        SweepRemove, SweepUnlock, TickTryLock, DrainUnlock, Crash, Signal, StopStep,
        Disconnect, Exit
    <2> QED
      BY <2>4, <2>5, <2>6, <2>7, <2>8 DEF Next, DrainStep
  <1>2. IInv /\ [Next]_vars =>
          [\A r \in Replicas :
             /\ InSession(r) /\ cur[r] # NoJob
             /\ job[cur[r]] = "RUNNING" /\ job'[cur[r]] # "RUNNING"
             => wpc'[r] # wpc[r]]_vars
    BY <1>1
  <1> QED
    BY <1>2, IInvInvariant, PTL DEF Spec, RecoverySparesLiveJobs

(* A sweep never aborts a run of another live replica (server.ts, step     *)
(* 2a), as long as the sweeping process still has its session.             *)
THEOREM SweepIsSafe == Spec => SweepSparesOtherReplicas
  <1>1. ASSUME IInv, [Next]_vars, NEW r \in Replicas, InSession(r), wpc[r] = "executing",
               cur[r] \in containers \ containers'
        PROVE  \/ wpc'[r] # wpc[r] \/ victims'[r] # victims[r]
               \/ \E q \in Replicas : phase[q] = "exiting" /\ victims'[q] # victims[q]
    <2> USE <1>1
    <2>1. TypeOK /\ PhaseInv /\ HandInv /\ NoDoubleRun
      BY DEF IInv, BaseInv
    <2>2. cur[r] # NoJob /\ \A q \in Replicas : cur[q] = cur[r] => q = r
      BY <2>1 DEF HandInv, HandPcs, NoDoubleRun
    <2>3. ASSUME NEW q \in Replicas, SweepRemove(q)
          PROVE  \/ victims'[r] # victims[r]
                 \/ \E p \in Replicas : phase[p] = "exiting" /\ victims'[p] # victims[p]
      <3>1. spc[q] = "remove" /\ victims'[q] # victims[q]
        BY <2>1, <2>3 DEF SweepRemove, TypeOK
      <3>2. CASE phase[q] = "exiting"
        BY <3>1, <3>2
      <3>3. CASE phase[q] # "exiting"
        <4>1. InSession(q)
          BY <2>1, <3>1, <3>3 DEF PhaseInv, InSession
        <4>2. q = r
          BY <3>1, <4>1, TasksExclude, SweepIsATask, DrainIsATask
        <4> QED
          BY <3>1, <4>2
      <3> QED
        BY <3>2, <3>3
    <2>4. ASSUME NEW q \in Replicas, RunStep(q)
          PROVE  wpc'[r] # wpc[r]
      <3>1. CASE SettleSucceeded(q)
        BY <3>1, <2>1, <2>2 DEF SettleSucceeded, Transition, TypeOK
      <3>2. CASE SettleFailed(q)
        BY <3>2, <2>1, <2>2 DEF SettleFailed, TypeOK
      <3>3. CASE ExecutorThrows(q)
        BY <3>3, <2>1, <2>2 DEF ExecutorThrows, TypeOK
      <3>4. CASE StartExecutor(q)
        BY <3>4 DEF StartExecutor
      <3> QED
        BY <2>4, <3>1, <3>2, <3>3, <3>4 DEF RunStep, TailThrows, FailJob, FailJobThrows,
          ExecutorReturns, Chain, EndJob
    <2>5. ASSUME containers' = containers
          PROVE  FALSE
      BY <2>5
    <2>6. ASSUME \/ ServerEndsStaleSession \/ UNCHANGED vars
                 \/ \E k \in {"BACKUP", "VERIFY", "RESTORE"} : Enqueue(k)
                 \/ \E q \in Replicas :
                      \/ BootStep(q) \/ SweepTryLock(q) \/ SweepList(q) \/ SweepUnlock(q)
                      \/ TickTryLock(q) \/ ClaimStep(q) \/ DrainUnlock(q)
                      \/ Crash(q) \/ Signal(q) \/ StopStep(q)
          PROVE  FALSE
      BY <2>5, <2>6 DEF ServerEndsStaleSession, vars, Enqueue, BootStep, Start, BootTryLock,
        RecoverOrphanedJobs, SkipBootSweep, SweepTryLock, SweepList, SweepUnlock, TickTryLock,
        ClaimStep, AskForJob, ClaimNextJob, ClaimFindsNothing, ClaimThrows, DrainUnlock,
        Crash, Signal, StopStep, Disconnect, Exit
    <2> QED
      BY <2>3, <2>4, <2>6 DEF Next, DrainStep, SweepStep
  <1>2. IInv /\ [Next]_vars =>
          [\A r \in Replicas :
             /\ InSession(r) /\ wpc[r] = "executing"
             /\ cur[r] \in containers \ containers'
             => \/ wpc'[r] # wpc[r] \/ victims'[r] # victims[r]
                \/ \E q \in Replicas : phase[q] = "exiting" /\ victims'[q] # victims[q]]_vars
    BY <1>1
  <1> QED
    BY <1>2, IInvInvariant, PTL DEF Spec, SweepSparesOtherReplicas

-----------------------------------------------------------------------------
(* Shutdown: a process under the signal asks for no job, so it claims at   *)
(* most the one whose claim was on its way when the signal came.           *)

LateInv ==
  \A r \in Replicas :
    /\ late[r] # 0 => Aborted(r) /\ wpc[r] # "claiming"
    /\ late[r] <= 1

LEMMA LateInit == Init => LateInv
  BY DEF Init, LateInv

LEMMA LateStep ==
  ASSUME TypeOK, LateInv, [NextLossy]_vars
  PROVE  LateInv'
  <1> USE DEF TypeOK, LateInv, Aborted, Transition, drain
  <1>1. ASSUME NEW r \in Replicas, BootStep(r)
        PROVE  LateInv'
    BY <1>1 DEF BootStep, Start, BootTryLock, RecoverOrphanedJobs, SkipBootSweep
  <1>2. ASSUME NEW r \in Replicas, SweepTryLock(r) \/ SweepStep(r)
        PROVE  LateInv'
    BY <1>2 DEF SweepTryLock, SweepStep, SweepList, SweepRemove, SweepUnlock
  <1>3. ASSUME NEW r \in Replicas, TickTryLock(r) \/ ClaimStep(r) \/ DrainUnlock(r)
        PROVE  LateInv'
    BY <1>3 DEF TickTryLock, ClaimStep, AskForJob, ClaimNextJob, ClaimFindsNothing,
      ClaimThrows, DrainUnlock
  <1>4. ASSUME NEW r \in Replicas, RunStep(r)
        PROVE  LateInv'
    BY <1>4 DEF RunStep, StartExecutor, SettleSucceeded, SettleFailed, ExecutorThrows,
      TailThrows, FailJob, FailJobThrows, ExecutorReturns, Chain, EndJob
  <1>5. ASSUME NEW r \in Replicas, Crash(r) \/ Signal(r) \/ StopStep(r)
        PROVE  LateInv'
    BY <1>5 DEF Crash, Signal, StopStep, Disconnect, Exit, Wipe
  <1>6. CASE UNCHANGED <<phase, drain>>
    BY <1>6
  <1>7. ASSUME \/ \E k \in {"BACKUP", "VERIFY", "RESTORE"} : Enqueue(k)
               \/ ServerEndsStaleSession \/ (\E r \in Replicas : SessionDrops(r))
               \/ UNCHANGED vars
        PROVE  LateInv'
    BY <1>6, <1>7 DEF Enqueue, ServerEndsStaleSession, SessionDrops, vars
  <1> QED
    BY <1>1, <1>2, <1>3, <1>4, <1>5, <1>7 DEF NextLossy, Next, DrainStep

(* A shutdown leaves the queue PENDING for the next boot, but for the one  *)
(* job whose claim the database had already been asked for (server.ts).    *)
THEOREM ShutdownSparesTheQueue == SpecLossy => []ShutdownBurnsAtMostOne
  <1>1. Init => LateInv
    BY LateInit
  <1>2. BaseInv /\ LateInv /\ [NextLossy]_vars => LateInv'
    BY LateStep DEF BaseInv
  <1>3. LateInv => ShutdownBurnsAtMostOne
    BY DEF LateInv, ShutdownBurnsAtMostOne
  <1> QED
    BY <1>1, <1>2, <1>3, BaseInvariant, PTL DEF SpecLossy

-----------------------------------------------------------------------------
(* The ledger: who is reachable changes with the phase alone, and every    *)
(* step is one of the ledger's or changes nothing it knows of.             *)

Reachable == {r \in Replicas : InSession(r)}
LedgerStep == [Ledger!Next]_(Ledger!vars)

LEMMA LedgerStutters ==
  ASSUME UNCHANGED <<job, cur>>, UNCHANGED Reachable
  PROVE  LedgerStep
  BY DEF LedgerStep, Ledger!vars, Reachable

(* A process that lets go of its job, or comes and goes.                   *)
LEMMA LedgerLetsGo ==
  ASSUME NEW r \in Replicas, UNCHANGED job,
         cur' \in {cur, [cur EXCEPT ![r] = NoJob]},
         Reachable' \in {Reachable, Reachable \ {r}, Reachable \cup {r}}
  PROVE  LedgerStep
  <1>1. Ledger!LetGo(r)
    BY DEF Ledger!LetGo, Reachable
  <1> QED
    BY <1>1 DEF LedgerStep, Ledger!Next

(* A process that writes the state of the job it has in hand.              *)
LEMMA LedgerReports ==
  ASSUME NEW r \in Replicas, cur[r] # NoJob, NEW s \in Ledger!Reports,
         job' = [job EXCEPT ![cur[r]] = s],
         cur' \in {cur, [cur EXCEPT ![r] = NoJob]}, UNCHANGED Reachable
  PROVE  LedgerStep
  <1>1. Ledger!Report(r)
    BY DEF Ledger!Report, Reachable
  <1> QED
    BY <1>1 DEF LedgerStep, Ledger!Next

LEMMA LedgerQueues ==
  ASSUME NEW j \in Jobs, NEW k, Insert(j, k), UNCHANGED cur, UNCHANGED Reachable
  PROVE  LedgerStep
  <1>1. Ledger!Queue(j)
    BY DEF Insert, Ledger!Queue, Reachable
  <1> QED
    BY <1>1 DEF LedgerStep, Ledger!Next

LEMMA LedgerTakes ==
  ASSUME NEW j \in Jobs, IsOldestPending(j), job' = [job EXCEPT ![j] = "RUNNING"],
         \/ UNCHANGED cur
         \/ \E r \in Replicas : cur[r] = NoJob /\ cur' = [cur EXCEPT ![r] = j],
         UNCHANGED Reachable
  PROVE  LedgerStep
  <1>1. Ledger!TakeOldest(j)
    BY DEF IsOldestPending, Ledger!TakeOldest, Reachable
  <1> QED
    BY <1>1 DEF LedgerStep, Ledger!Next

LEMMA PhasesMakeReachable ==
  /\ UNCHANGED phase => UNCHANGED Reachable
  /\ \A r \in Replicas, p \in Phases :
       TypeOK /\ phase' = [phase EXCEPT ![r] = p] =>
         /\ InSession(r) /\ p \notin {"down", "exiting"} => UNCHANGED Reachable
         /\ p \in {"down", "exiting"} => Reachable' = Reachable \ {r}
         /\ p \notin {"down", "exiting"} => Reachable' = Reachable \cup {r}
  BY DEF Reachable, InSession, TypeOK

(* Only boot recovery writes off, and it holds the lock: whoever else is   *)
(* in session has no job in hand, and neither has the process itself.      *)
LEMMA LedgerWritesOff ==
  ASSUME IInv, NEW r \in Replicas, RecoverOrphanedJobs(r)
  PROVE  LedgerStep
  <1> USE DEF RecoverOrphanedJobs
  <1>1. ASSUME NEW q \in Reachable PROVE cur[q] = NoJob
    <2>1. q \in Replicas /\ InSession(q) /\ InSession(r) /\ wpc[r] = "idle"
      BY <1>1 DEF Reachable, InSession, IInv, BaseInv, PhaseInv
    <2>2. wpc[q] = "idle"
      BY <2>1, TasksExclude, DrainIsATask, RecoveryIsATask
    <2> QED
      BY <2>1, <2>2 DEF IInv, BaseInv, HandInv, HandPcs
  <1>2. UNCHANGED Reachable
    <2>1. TypeOK /\ InSession(r) /\ "bootsweep" \in Phases
      BY DEF IInv, BaseInv, InSession, Phases
    <2> QED
      BY <2>1, PhasesMakeReachable
  <1>3. Ledger!WriteOff
    BY <1>1, <1>2 DEF Ledger!WriteOff, Reachable, drain
  <1> QED
    BY <1>3 DEF LedgerStep, Ledger!Next

LEMMA LedgerRuns ==
  ASSUME IInv, NEW r \in Replicas, RunStep(r)
  PROVE  LedgerStep
  <1>1. UNCHANGED Reachable
    BY PhasesMakeReachable DEF RunStep, StartExecutor, SettleSucceeded, SettleFailed,
      ExecutorThrows,
      TailThrows, FailJob, FailJobThrows, ExecutorReturns, Chain, EndJob
  <1>2. wpc[r] \in HandPcs => cur[r] # NoJob
    BY DEF IInv, BaseInv, HandInv
  <1> USE DEF SetState, rows, Transition, HandPcs
  <1>3. CASE StartExecutor(r)
    <2>1. CASE kind[cur[r]] = "RETENTION"
      BY <1>1, <1>3, <2>1, LedgerStutters DEF StartExecutor
    <2>2. CASE kind[cur[r]] # "RETENTION"
      BY <1>1, <1>2, <1>3, <2>2, LedgerReports DEF StartExecutor, Ledger!Reports
    <2> QED
      BY <2>1, <2>2
  <1>4. CASE SettleSucceeded(r)
    BY <1>1, <1>2, <1>4, LedgerReports DEF SettleSucceeded, Ledger!Reports
  <1>5. CASE SettleFailed(r)
    BY <1>1, <1>2, <1>5, LedgerReports DEF SettleFailed, Ledger!Reports
  <1>6. CASE FailJob(r)
    BY <1>1, <1>2, <1>6, LedgerReports DEF FailJob, Ledger!Reports
  <1>7. CASE FailJobThrows(r) \/ EndJob(r)
    BY <1>1, <1>7, LedgerLetsGo DEF FailJobThrows, EndJob
  <1>8. CASE ExecutorThrows(r) \/ TailThrows(r) \/ ExecutorReturns(r)
    BY <1>1, <1>8, LedgerStutters DEF ExecutorThrows, TailThrows, ExecutorReturns
  <1>9. CASE Chain(r)
    BY <1>1, <1>9, LedgerStutters, LedgerQueues DEF Chain
  <1> QED
    BY <1>3, <1>4, <1>5, <1>6, <1>7, <1>8, <1>9 DEF RunStep

LEMMA LedgerClaims ==
  ASSUME IInv, NEW r \in Replicas, ClaimStep(r)
  PROVE  LedgerStep
  <1>1. UNCHANGED Reachable
    BY PhasesMakeReachable DEF ClaimStep, AskForJob, ClaimNextJob, ClaimFindsNothing,
      ClaimThrows
  <1>2. wpc[r] = "claiming" => cur[r] = NoJob
    BY DEF IInv, BaseInv, HandInv, HandPcs
  <1> USE DEF SetState, rows, Transition
  <1>3. CASE ClaimNextJob(r)
    BY <1>1, <1>2, <1>3, LedgerTakes DEF ClaimNextJob
  <1>4. CASE ClaimThrows(r)
    BY <1>1, <1>4, LedgerTakes, LedgerStutters DEF ClaimThrows
  <1>5. CASE AskForJob(r) \/ ClaimFindsNothing(r)
    BY <1>1, <1>5, LedgerStutters DEF AskForJob, ClaimFindsNothing
  <1> QED
    BY <1>3, <1>4, <1>5 DEF ClaimStep

(* Boot, the sweep, the locks and the end of a process.                    *)
LEMMA LedgerComesAndGoes ==
  ASSUME IInv, NEW r \in Replicas,
         \/ Start(r) \/ BootTryLock(r) \/ SkipBootSweep(r)
         \/ SweepTryLock(r) \/ SweepStep(r) \/ TickTryLock(r) \/ DrainUnlock(r)
         \/ Crash(r) \/ Signal(r) \/ StopStep(r)
  PROVE  LedgerStep
  <1>1. TypeOK /\ Phases = {"down", "boot", "recover", "bootsweep", "up", "stopping", "exiting"}
    BY DEF IInv, BaseInv, Phases
  <1> USE <1>1, PhasesMakeReachable DEF rows, drain
  <1>2. CASE Start(r)
    BY <1>2, LedgerLetsGo DEF Start
  <1>3. CASE BootTryLock(r) \/ SkipBootSweep(r)
    BY <1>3, LedgerStutters DEF BootTryLock, SkipBootSweep, InSession
  <1>4. CASE SweepTryLock(r) \/ SweepList(r) \/ SweepRemove(r) \/ TickTryLock(r) \/ DrainUnlock(r)
    BY <1>4, LedgerStutters DEF SweepTryLock, SweepList, SweepRemove, TickTryLock, DrainUnlock
  <1>5. CASE SweepUnlock(r)
    <2>1. UNCHANGED Reachable
      BY <1>5 DEF SweepUnlock, TypeOK, Reachable, InSession
    <2> QED
      BY <1>5, <2>1, LedgerStutters DEF SweepUnlock
  <1>6. CASE Crash(r) \/ Exit(r)
    BY <1>6, LedgerLetsGo DEF Crash, Exit, Wipe
  <1>7. CASE Signal(r)
    BY <1>7, LedgerStutters DEF Signal, InSession
  <1>8. CASE Disconnect(r)
    BY <1>8, LedgerLetsGo DEF Disconnect
  <1> QED
    BY <1>2, <1>3, <1>4, <1>5, <1>6, <1>7, <1>8 DEF SweepStep, StopStep

(* The module implements the ledger its users rely on: rows are taken      *)
(* oldest first by one worker each, reported on by that worker only, and   *)
(* written off when nobody reachable has them in hand.                     *)
THEOREM WorkerKeepsTheLedger == Spec => ImplementsLedger
  <1>1. Init => Ledger!Init
    BY DEF Init, Ledger!Init, InSession
  <1>2. IInv /\ [Next]_vars => LedgerStep
    <2> SUFFICES ASSUME IInv, [Next]_vars PROVE LedgerStep
      OBVIOUS
    <2>1. ASSUME NEW k \in {"BACKUP", "VERIFY", "RESTORE"}, Enqueue(k) PROVE LedgerStep
      BY <2>1, LedgerQueues, PhasesMakeReachable DEF Enqueue, drain
    <2>2. CASE ServerEndsStaleSession \/ UNCHANGED vars
      BY <2>2, LedgerStutters, PhasesMakeReachable DEF ServerEndsStaleSession, vars, rows, drain
    <2> QED
      BY <2>1, <2>2, LedgerWritesOff, LedgerRuns, LedgerClaims, LedgerComesAndGoes
      DEF Next, BootStep, DrainStep
  <1> QED
    BY <1>1, <1>2, IInvInvariant, PTL DEF Spec, ImplementsLedger, Ledger!Spec, LedgerStep
=============================================================================
