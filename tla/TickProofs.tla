------------------------------ MODULE TickProofs ------------------------------
(***************************************************************************)
(* Proofs about SchedulerTick: for any policies, channels, windows and     *)
(* troubles, nothing is on record as told or delivered that was not put to *)
(* the channels that are there, and there are never more jobs, artifacts   *)
(* and job events than the windows that opened account for.                *)
(***************************************************************************)
EXTENDS SchedulerTick, FiniteSetTheorems, WellFoundedInduction, TLAPS

(* A pass works on the channels it read, of which some may be gone by now  *)
(* and none is new.                                                        *)
OnList  == {"health", "send", "state", "ship", "mark"}
ListInv == pc \in OnList => chans \subseteq list

(* Between a delivery and the row that says so, the channels have had what *)
(* is about to be recorded: ...                                            *)
StateInv ==
  pc = "state" /\ Head(notes).kind = "opened" => list \X {Head(notes).cond} \subseteq heard
(* ... one condition, or a batch of events.                                *)
MarkInv == pc = "mark" => list \X notes \subseteq tried

TickInv ==
  /\ written \in Nat
  /\ ListInv /\ StateInv /\ MarkInv
  /\ OpenWasTold /\ EventsAreTried

(* A window is due, then its job is PENDING, RUNNING and over, and may have*)
(* left an artifact: what there is of each never exceeds the windows that  *)
(* opened, and the events are those transitions.  A PENDING job is a pair, *)
(* so that the jobs can be counted as a set.                               *)
PendingJobs == {j \in Policies \X Nat : j[2] \in 1..pending[j[1]]}
Made == {a \in Artifacts : art[a] # "none"}
CountInv ==
  /\ IsFiniteSet(PendingJobs)
  /\ Cardinality(Made) + Cardinality(PendingJobs) + Cardinality(running) + Cardinality(due)
       <= windows
  /\ written + 2 * Cardinality(PendingJobs) + Cardinality(running) + 3 * Cardinality(due)
       <= 3 * windows

TypeInv ==
  /\ TypeOK /\ CountInv
  /\ pc \in {"send", "state"} => notes # <<>>

LEMMA TickInvInit == Init => TickInv
  BY DEF Init, TickInv, OnList, ListInv, StateInv, MarkInv, OpenWasTold, EventsAreTried

-----------------------------------------------------------------------------
(* What a step may do to the state the invariant speaks of.                *)

(* Channels go, and none comes; a pass has those that were there when it   *)
(* read them.                                                              *)
LEMMA ListMoves ==
  ASSUME [Next]_vars
  PROVE  /\ chans' \subseteq chans
         /\ \/ list' = list /\ (pc' \in OnList => pc \in OnList)
            \/ list' = chans
            \/ pc' \notin OnList
  <1> USE DEF OnList, jobs, fleet, ship, Goto, EndPass
  <1>1. CASE Tick
    <2>1. CASE StartTick \/ Dispatch
      BY <2>1 DEF StartTick, Dispatch, EndDispatch, SkipPolicy, CreateScheduledJob
    <2>2. CASE Notify
      BY <2>2 DEF Notify, NobodyListens, ReadFleet, ReadHealth, Send, SendThrows, MoveState,
        NextNote, Reanchor
    <2>3. CASE Outbox
      BY <2>3 DEF Outbox, ReadEvents, Ship, ShipThrows, MarkDelivered
    <2> QED
      BY <1>1, <2>1, <2>2, <2>3 DEF Tick
  <1>2. CASE PassThrows
    BY <1>2 DEF PassThrows, PassAfter
  <1>3. CASE Crash \/ Boot
    BY <1>3 DEF Crash, Boot
  <1>4. CASE Environment
    BY <1>4 DEF Environment, Elapse, Claim, EndJob, VerifyEnds, TogglePolicy, DeleteChannel
  <1>5. CASE UNCHANGED vars
    BY <1>5 DEF vars
  <1> QED
    BY <1>1, <1>2, <1>3, <1>4, <1>5 DEF Next

(* A condition is recorded, or cleared, by MoveState only; what a channel  *)
(* has heard it keeps until then.                                          *)
LEMMA ToldMoves ==
  ASSUME [Next]_vars
  PROVE  /\ (pc = "state" /\ Move(Head(notes))) \/ (open' = open /\ heard \subseteq heard')
         /\ pc' = "state" =>
              /\ list' = list /\ notes' = notes
              /\ \/ pc = "state" /\ heard' = heard
                 \/ pc = "send" /\ Tell(list, Head(notes))
  <1> USE DEF jobs, fleet, ship, Goto, EndPass, Tell
  <1>1. CASE Tick
    <2>1. CASE StartTick \/ Dispatch
      BY <2>1 DEF StartTick, Dispatch, EndDispatch, SkipPolicy, CreateScheduledJob
    <2>2. CASE Notify
      BY <2>2 DEF Notify, NobodyListens, ReadFleet, ReadHealth, Send, SendThrows, MoveState,
        NextNote, Reanchor
    <2>3. CASE Outbox
      BY <2>3 DEF Outbox, ReadEvents, Ship, ShipThrows, MarkDelivered
    <2> QED
      BY <1>1, <2>1, <2>2, <2>3 DEF Tick
  <1>2. CASE PassThrows
    BY <1>2 DEF PassThrows, PassAfter
  <1>3. CASE Crash \/ Boot
    BY <1>3 DEF Crash, Boot
  <1>4. CASE Environment
    BY <1>4 DEF Environment, Elapse, Claim, EndJob, VerifyEnds, TogglePolicy, DeleteChannel
  <1>5. CASE UNCHANGED vars
    BY <1>5 DEF vars
  <1> QED
    BY <1>1, <1>2, <1>3, <1>4, <1>5 DEF Next

(* Events come one at a time and into the outbox, and leave it in the      *)
(* batch that was marked; an attempt, once made, has been made.            *)
LEMMA EventMoves ==
  ASSUME [Next]_vars
  PROVE  /\ tried \subseteq tried'
         /\ \/ written' = written /\ outbox' = outbox
            \/ RecordJobEvent
            \/ pc = "mark" /\ written' = written /\ outbox' = outbox \ notes
         /\ pc' = "mark" =>
              /\ list' = list /\ notes' = notes
              /\ pc = "mark" \/ list \X notes \subseteq tried'
  <1> USE DEF jobs, fleet, ship, Goto, EndPass, RecordJobEvent
  <1>1. CASE Tick
    <2>1. CASE StartTick \/ Dispatch
      BY <2>1 DEF StartTick, Dispatch, EndDispatch, SkipPolicy, CreateScheduledJob
    <2>2. CASE Notify
      BY <2>2 DEF Notify, NobodyListens, ReadFleet, ReadHealth, Send, SendThrows, MoveState,
        NextNote, Reanchor
    <2>3. CASE Outbox
      BY <2>3 DEF Outbox, ReadEvents, Ship, ShipThrows, MarkDelivered
    <2> QED
      BY <1>1, <2>1, <2>2, <2>3 DEF Tick
  <1>2. CASE PassThrows
    BY <1>2 DEF PassThrows, PassAfter
  <1>3. CASE Crash \/ Boot
    BY <1>3 DEF Crash, Boot
  <1>4. CASE Environment
    BY <1>4 DEF Environment, Elapse, Claim, EndJob, VerifyEnds, TogglePolicy, DeleteChannel
  <1>5. CASE UNCHANGED vars
    BY <1>5 DEF vars
  <1> QED
    BY <1>1, <1>2, <1>3, <1>4, <1>5 DEF Next

-----------------------------------------------------------------------------
(* The invariant.                                                          *)

LEMMA TickStep == TickInv /\ [Next]_vars => TickInv'
  <1> SUFFICES ASSUME TickInv, [Next]_vars PROVE TickInv'
    OBVIOUS
  <1>1. ListInv'
    BY ListMoves DEF TickInv, ListInv, OnList
  <1>2. StateInv'
    BY ToldMoves DEF TickInv, StateInv, Tell
  <1>3. MarkInv'
    <2> SUFFICES ASSUME pc' = "mark" PROVE list' \X notes' \subseteq tried'
      BY DEF MarkInv
    <2>1. list' = list /\ notes' = notes /\ tried \subseteq tried'
      BY EventMoves
    <2>2. list \X notes \subseteq tried \/ list \X notes \subseteq tried'
      BY EventMoves DEF TickInv, MarkInv
    <2> QED
      BY <2>1, <2>2
  <1>4. OpenWasTold'
    <2>1. CASE pc = "state" /\ Move(Head(notes))
      <3>1. ASSUME Head(notes).kind = "opened" PROVE OpenWasTold'
        BY <2>1, <3>1, ListMoves DEF TickInv, StateInv, ListInv, OnList, OpenWasTold, Move
      <3>2. ASSUME Head(notes).kind # "opened" PROVE OpenWasTold'
        BY <2>1, <3>2, ListMoves DEF TickInv, OpenWasTold, Move
      <3> QED
        BY <3>1, <3>2
    <2>2. CASE open' = open /\ heard \subseteq heard'
      BY <2>2, ListMoves DEF TickInv, OpenWasTold
    <2> QED
      BY <2>1, <2>2, ToldMoves
  <1>5. written' \in Nat /\ EventsAreTried'
    <2>1. CASE written' = written /\ outbox' = outbox
      BY <2>1, ListMoves, EventMoves DEF TickInv, EventsAreTried
    <2>2. CASE RecordJobEvent
      BY <2>2, ListMoves, EventMoves DEF TickInv, EventsAreTried, RecordJobEvent
    <2>3. CASE pc = "mark" /\ written' = written /\ outbox' = outbox \ notes
      BY <2>3, ListMoves, EventMoves DEF TickInv, EventsAreTried, ListInv, OnList, MarkInv
    <2> QED
      BY <2>1, <2>2, <2>3, EventMoves
  <1> QED
    BY <1>1, <1>2, <1>3, <1>4, <1>5 DEF TickInv

LEMMA TickInvariant == Spec => []TickInv
  BY TickInvInit, TickStep, PTL DEF Spec

-----------------------------------------------------------------------------
(* Finite sets and the sequences made of them.                             *)

LEMMA SmallestNumber ==
  ASSUME NEW S \in SUBSET Nat, S # {}
  PROVE  \E m \in S : \A k \in S : m <= k
  <1> DEFINE Below == OpToRel(<, Nat)
  <1>0. IsWellFoundedOn(Below, Nat)
    BY NatLessThanWellFounded
  <1> HIDE DEF Below
  <1>1. PICK m \in S : \A k \in S : <<k, m>> \notin Below
    BY <1>0, WFMin, Zenon
  <1>2. \A k \in Nat : k < m => <<k, m>> \in Below
    BY Zenon DEF OpToRel, Below
  <1>3. \A k \in S : ~(k < m)
    BY <1>1, <1>2
  <1> QED
    BY <1>3

LEMMA FinitelyMany ==
  /\ IsFiniteSet(Artifacts) /\ Cardinality(Artifacts) = MaxWindows
  /\ Cardinality(Events) = 3 * MaxWindows
  /\ \A S \in SUBSET Artifacts : IsFiniteSet(S) /\ Cardinality(S) \in 0..MaxWindows
  /\ \A S \in SUBSET Policies : IsFiniteSet(S) /\ Cardinality(S) \in Nat
  <1>1. MaxWindows \in Nat /\ 3 * MaxWindows \in Nat
    BY TickBounds
  <1>2. IsFiniteSet(Artifacts) /\ Cardinality(Artifacts) = MaxWindows
    BY <1>1, FS_Interval DEF Artifacts
  <1>3. Cardinality(Events) = 3 * MaxWindows
    BY <1>1, FS_Interval DEF Events
  <1>4. ASSUME NEW S \in SUBSET Artifacts PROVE IsFiniteSet(S) /\ Cardinality(S) \in 0..MaxWindows
    <2>1. IsFiniteSet(S) /\ Cardinality(S) <= MaxWindows
      BY <1>2, FS_Subset
    <2>2. Cardinality(S) \in Nat
      BY <2>1, FS_CardinalityType
    <2> QED
      BY <1>1, <2>1, <2>2
  <1>5. ASSUME NEW S \in SUBSET Policies PROVE IsFiniteSet(S) /\ Cardinality(S) \in Nat
    BY TickBounds, FS_Subset, FS_CardinalityType
  <1> QED
    BY <1>2, <1>3, <1>4, <1>5

LEMMA SomeOrder ==
  ASSUME NEW S, IsFiniteSet(S), S \subseteq Notes
  PROVE  InSomeOrder(S) \in Seq(Notes)
  <1>1. Cardinality(S) \in Nat /\ ExistsBijection(1..Cardinality(S), S)
    BY FS_CardinalityType
  <1>2. PICK f \in [1..Cardinality(S) -> S] : \A i, j \in DOMAIN f : f[i] = f[j] => i = j
    BY <1>1 DEF ExistsBijection, Bijection, Injection, IsInjective
  <1>3. InSomeOrder(S) \in [1..Cardinality(S) -> S]
    BY <1>2 DEF InSomeOrder
  <1> HIDE DEF Notes
  <1> QED
    BY <1>1, <1>3

(* What a pass evaluates is a sequence of notifications.                   *)
LEMMA EvaluatedNotes ==
  ASSUME TypeOK
  PROVE  Evaluate \in Seq(Notes)
  <1>0. snap.failed \in SUBSET Artifacts /\ snap.policies \in SUBSET Policies
    BY DEF TypeOK
  <1>1. FailedNotes \subseteq Notes /\ IsFiniteSet(FailedNotes)
    <2> DEFINE F == {b \in snap.failed : Bad(b) \notin open}
               f == [a \in F |-> Note(Bad(a), "opened")]
    <2>1. F \in SUBSET Artifacts /\ FailedNotes = {f[a] : a \in F}
      BY <1>0 DEF FailedNotes
    <2>2. FailedNotes \subseteq Notes
      <3>1. \A a \in Artifacts : Bad(a) \in Conditions
        BY DEF Conditions
      <3> QED
        BY <2>1, <3>1 DEF Note, Notes, FailedNotes
    <2>3. f \in Surjection(F, FailedNotes)
      BY <2>1 DEF Surjection
    <2>4. IsFiniteSet(F)
      BY <2>1, FinitelyMany
    <2> QED
      BY <2>2, <2>3, <2>4, FS_Surjection
  <1>2. ASSUME NEW c \in Conditions, NEW holds \in BOOLEAN
        PROVE  Transition(c, holds) \subseteq Notes /\ IsFiniteSet(Transition(c, holds))
    <2>1. Note(c, "opened") \in Notes /\ Note(c, "resolved") \in Notes
      BY DEF Note, Notes
    <2>2. Transition(c, holds) \in {{Note(c, "opened")}, {Note(c, "resolved")}, {}}
      BY DEF Transition
    <2>3. \A n : IsFiniteSet({n})
      BY FS_Singleton
    <2>4. IsFiniteSet({})
      BY FS_EmptySet
    <2> HIDE DEF Notes
    <2> QED
      BY <2>1, <2>2, <2>3, <2>4
  <1>3. Behind \in Conditions /\ BehindHolds \in BOOLEAN
        /\ \A p \in Policies : Quiet(p) \in Conditions /\ IsQuiet(p) \in BOOLEAN
    BY DEF Conditions, BehindHolds, HasPrevious, IsQuiet
  <1>4. QuietNotes \subseteq Notes /\ IsFiniteSet(QuietNotes)
    <2> DEFINE P == snap.policies
               T == {Transition(Quiet(p), IsQuiet(p)) : p \in P}
               f == [p \in P |-> Transition(Quiet(p), IsQuiet(p))]
    <2>1. \A S \in T : S \subseteq Notes /\ IsFiniteSet(S)
      BY <1>0, <1>2, <1>3
    <2>2. QuietNotes = UNION T
      BY DEF QuietNotes
    <2>3. f \in Surjection(P, T)
      BY DEF Surjection
    <2>4. IsFiniteSet(P)
      BY <1>0, FinitelyMany
    <2> HIDE DEF T, P, f
    <2>5. IsFiniteSet(T)
      BY <2>3, <2>4, FS_Surjection
    <2> QED
      BY <2>1, <2>2, <2>5, FS_UNION
  <1>5. /\ InSomeOrder(FailedNotes) \in Seq(Notes)
        /\ InSomeOrder(Transition(Behind, BehindHolds)) \in Seq(Notes)
        /\ InSomeOrder(QuietNotes) \in Seq(Notes)
    BY <1>1, <1>2, <1>3, <1>4, SomeOrder
  <1> HIDE DEF Notes
  <1> QED
    BY <1>5 DEF Evaluate

-----------------------------------------------------------------------------
(* Counting windows, jobs, artifacts and events.                           *)

LEMMA Counts ==
  ASSUME TypeOK, CountInv
  PROVE  /\ Cardinality(Made) \in Nat /\ Cardinality(PendingJobs) \in Nat
         /\ Cardinality(running) \in Nat /\ Cardinality(due) \in Nat
         /\ windows \in 0..MaxWindows /\ MaxWindows \in Nat /\ written \in Nat
  <1>1. Made \in SUBSET Artifacts /\ running \in SUBSET Policies /\ due \in SUBSET Policies
    BY DEF TypeOK, Made
  <1>2. Cardinality(Events) \in Nat
    BY TickBounds, FinitelyMany
  <1>3. IsFiniteSet(PendingJobs) /\ windows \in 0..MaxWindows /\ written \in 0..Cardinality(Events)
    BY DEF TypeOK, CountInv
  <1>4. Cardinality(PendingJobs) \in Nat
    BY <1>3, FS_CardinalityType
  <1>5. /\ Cardinality(Made) \in Nat /\ Cardinality(running) \in Nat
        /\ Cardinality(due) \in Nat /\ MaxWindows \in Nat
    BY <1>1, FinitelyMany, TickBounds
  <1> QED
    BY <1>2, <1>3, <1>4, <1>5

(* A running job finds an artifact number that is free.                    *)
LEMMA NextArtifactIsFree ==
  ASSUME TypeOK, CountInv, running # {}
  PROVE  NextArtifact \in Artifacts /\ art[NextArtifact] = "none"
  <1> DEFINE Free == {a \in Artifacts : art[a] = "none"}
  <1>1. Cardinality(running) # 0
    BY FinitelyMany, FS_EmptySet DEF TypeOK
  <1>2. Made # Artifacts
    BY <1>1, Counts, FinitelyMany DEF CountInv
  <1>3. Free # {} /\ Free \in SUBSET Nat
    BY <1>2 DEF Made, Artifacts
  <1>4. PICK a \in Free : \A b \in Free : a <= b
    BY <1>3, SmallestNumber
  <1>5. \A b \in Artifacts : b < a => art[b] # "none"
    BY <1>4 DEF Artifacts
  <1>6. a \in Artifacts /\ art[a] = "none"
    BY <1>4
  <1> QED
    BY <1>5, <1>6 DEF NextArtifact

(* The steps that move a job; the others leave the counts alone.           *)
LEMMA JobSteps ==
  ASSUME [Next]_vars
  PROVE  \/ UNCHANGED <<pending, running, due, windows, written, art>>
         \/ \E p \in Policies : p \in due /\ CreateScheduledJob(p)
         \/ \E p \in Policies : Claim(p) \/ EndJob(p)
         \/ \E a \in Artifacts : VerifyEnds(a)
         \/ Elapse
  <1> USE DEF jobs, fleet, ship
  <1>1. CASE Tick
    <2>1. CASE StartTick \/ Dispatch
      BY <2>1 DEF StartTick, Dispatch, EndDispatch, SkipPolicy, CreateScheduledJob
    <2>2. CASE Notify
      BY <2>2 DEF Notify, NobodyListens, ReadFleet, ReadHealth, Send, SendThrows, MoveState,
        Reanchor
    <2>3. CASE Outbox
      BY <2>3 DEF Outbox, ReadEvents, Ship, ShipThrows, MarkDelivered
    <2> QED
      BY <1>1, <2>1, <2>2, <2>3 DEF Tick
  <1>2. CASE PassThrows
    BY <1>2 DEF PassThrows
  <1>3. CASE Crash \/ Boot
    BY <1>3 DEF Crash, Boot
  <1>4. CASE Environment
    BY <1>4 DEF Environment, TogglePolicy, DeleteChannel
  <1>5. CASE UNCHANGED vars
    BY <1>5 DEF vars
  <1> QED
    BY <1>1, <1>2, <1>3, <1>4, <1>5 DEF Next

(* One PENDING job more, or one less.                                      *)
LEMMA OneMore ==
  ASSUME TypeOK, CountInv, NEW p \in Policies, pending' = [pending EXCEPT ![p] = @ + 1]
  PROVE  /\ IsFiniteSet(PendingJobs)'
         /\ Cardinality(PendingJobs)' = Cardinality(PendingJobs) + 1
  <1>1. \A q \in Policies : pending[q] \in Nat
    BY DEF TypeOK
  <1>2. \A q \in Policies : pending'[q] = IF q = p THEN pending[p] + 1 ELSE pending[q]
    BY DEF TypeOK
  <1>3. \A j \in Policies \X Nat :
          j[2] \in 1..pending'[j[1]] <=> j[2] \in 1..pending[j[1]] \/ j = <<p, pending[p] + 1>>
    <2> SUFFICES ASSUME NEW q \in Policies, NEW n \in Nat
                 PROVE  n \in 1..pending'[q] <=>
                          n \in 1..pending[q] \/ (q = p /\ n = pending[p] + 1)
      OBVIOUS
    <2> QED
      BY <1>1, <1>2
  <1>4. <<p, pending[p] + 1>> \in Policies \X Nat /\ <<p, pending[p] + 1>> \notin PendingJobs
    BY <1>1 DEF PendingJobs
  <1>5. PendingJobs' = PendingJobs \cup {<<p, pending[p] + 1>>}
    BY <1>3, <1>4 DEF PendingJobs
  <1> QED
    BY <1>4, <1>5, FS_AddElement DEF CountInv

LEMMA OneLess ==
  ASSUME TypeOK, CountInv, NEW p \in Policies, pending[p] > 0,
         pending' = [pending EXCEPT ![p] = @ - 1]
  PROVE  /\ IsFiniteSet(PendingJobs)'
         /\ Cardinality(PendingJobs)' = Cardinality(PendingJobs) - 1
  <1>1. \A q \in Policies : pending[q] \in Nat
    BY DEF TypeOK
  <1>2. \A q \in Policies : pending'[q] = IF q = p THEN pending[p] - 1 ELSE pending[q]
    BY DEF TypeOK
  <1>3. \A j \in Policies \X Nat :
          j[2] \in 1..pending'[j[1]] <=> j[2] \in 1..pending[j[1]] /\ j # <<p, pending[p]>>
    <2> SUFFICES ASSUME NEW q \in Policies, NEW n \in Nat
                 PROVE  n \in 1..pending'[q] <=> n \in 1..pending[q] /\ ~(q = p /\ n = pending[p])
      OBVIOUS
    <2> QED
      BY <1>1, <1>2
  <1>4. <<p, pending[p]>> \in PendingJobs
    BY <1>1 DEF PendingJobs
  <1>5. PendingJobs' = PendingJobs \ {<<p, pending[p]>>}
    BY <1>3 DEF PendingJobs
  <1> QED
    BY <1>4, <1>5, FS_RemoveElement DEF CountInv

LEMMA CountStep == TypeOK /\ CountInv /\ [Next]_vars => CountInv'
  <1> SUFFICES ASSUME TypeOK, CountInv, [Next]_vars PROVE CountInv'
    OBVIOUS
  <1>0. /\ Cardinality(Made) \in Nat /\ Cardinality(PendingJobs) \in Nat
        /\ Cardinality(running) \in Nat /\ Cardinality(due) \in Nat
        /\ windows \in 0..MaxWindows /\ MaxWindows \in Nat /\ written \in Nat
        /\ IsFiniteSet(PendingJobs) /\ IsFiniteSet(due) /\ IsFiniteSet(running) /\ IsFiniteSet(Made)
    BY Counts, FinitelyMany DEF TypeOK, CountInv, Made
  <1>00. /\ Cardinality(Made) + Cardinality(PendingJobs) + Cardinality(running) + Cardinality(due)
              <= windows
         /\ written + 2 * Cardinality(PendingJobs) + Cardinality(running) + 3 * Cardinality(due)
              <= 3 * windows
    BY DEF CountInv
  <1>1. CASE UNCHANGED <<pending, running, due, windows, written, art>>
    <2>1. PendingJobs' = PendingJobs /\ Made' = Made
      BY <1>1 DEF PendingJobs, Made
    <2> QED
      BY <1>1, <2>1 DEF CountInv
  <1>2. ASSUME NEW p \in Policies, p \in due, CreateScheduledJob(p) PROVE CountInv'
    <2>1. /\ due' = due \ {p} /\ pending' = [pending EXCEPT ![p] = @ + 1]
          /\ written' = written + 1 /\ UNCHANGED <<running, windows, art>>
      BY <1>2 DEF CreateScheduledJob, RecordJobEvent
    <2>2. Made' = Made
      BY <2>1 DEF Made
    <2>3. Cardinality(due') = Cardinality(due) - 1
      BY <1>0, <1>2, <2>1, FS_RemoveElement
    <2>4. /\ IsFiniteSet(PendingJobs)'
          /\ Cardinality(PendingJobs)' = Cardinality(PendingJobs) + 1
      BY <2>1, OneMore
    <2> QED
      BY <1>0, <1>00, <2>1, <2>2, <2>3, <2>4 DEF CountInv
  <1>3. ASSUME NEW p \in Policies, Claim(p) PROVE CountInv'
    <2>1. /\ pending[p] > 0 /\ pending' = [pending EXCEPT ![p] = @ - 1]
          /\ running = {} /\ running' = {p}
          /\ written' = written + 1 /\ UNCHANGED <<due, windows, art>>
      BY <1>3 DEF Claim, RecordJobEvent
    <2>2. Made' = Made
      BY <2>1 DEF Made
    <2>3. Cardinality(running) = 0 /\ Cardinality(running') = 1
      BY <2>1, FS_EmptySet, FS_Singleton
    <2>4. /\ IsFiniteSet(PendingJobs)'
          /\ Cardinality(PendingJobs)' = Cardinality(PendingJobs) - 1
      BY <2>1, OneLess
    <2> QED
      BY <1>0, <1>00, <2>1, <2>2, <2>3, <2>4 DEF CountInv
  <1>4. ASSUME NEW p \in Policies, EndJob(p) PROVE CountInv'
    <2>1. /\ p \in running /\ running' = {}
          /\ art' = art \/ art' = [art EXCEPT ![NextArtifact] = "UNOBSERVED"]
          /\ written' = written + 1 /\ UNCHANGED <<due, windows, pending>>
      BY <1>4 DEF EndJob, RecordJobEvent
    <2>2. PendingJobs' = PendingJobs
      BY <2>1 DEF PendingJobs
    <2>3. Cardinality(running) >= 1 /\ Cardinality(running') = 0
      <3>1. Cardinality(running) # 0
        BY <1>0, <2>1, FS_EmptySet
      <3> QED
        BY <1>0, <2>1, <3>1, FS_EmptySet
    <2>4. Cardinality(Made') \in Nat /\ Cardinality(Made') <= Cardinality(Made) + 1
      <3>1. Made' = Made \/ Made' = Made \cup {NextArtifact}
        <4>1. NextArtifact \in Artifacts
          BY <2>1, NextArtifactIsFree
        <4> QED
          BY <2>1, <4>1 DEF Made, TypeOK
      <3>2. CASE Made' = Made
        BY <1>0, <3>2
      <3>3. CASE Made' = Made \cup {NextArtifact}
        <4>1. Cardinality(Made') = IF NextArtifact \in Made THEN Cardinality(Made)
                                                            ELSE Cardinality(Made) + 1
          BY <1>0, <3>3, FS_AddElement
        <4> QED
          BY <1>0, <4>1
      <3> QED
        BY <3>1, <3>2, <3>3
    <2> QED
      BY <1>0, <1>00, <2>1, <2>2, <2>3, <2>4 DEF CountInv
  <1>5. ASSUME NEW a \in Artifacts, VerifyEnds(a) PROVE CountInv'
    <2>1. /\ art[a] # "none" /\ art' \in {[art EXCEPT ![a] = s] : s \in {"VERIFIED", "FAILED"}}
          /\ UNCHANGED <<pending, running, due, windows, written>>
      BY <1>5 DEF VerifyEnds
    <2>2. PendingJobs' = PendingJobs /\ Made' = Made
      BY <2>1 DEF PendingJobs, Made, TypeOK
    <2> QED
      BY <2>1, <2>2 DEF CountInv
  <1>6. CASE Elapse
    <2>1. PICK W \in SUBSET (Policies \ Broken) :
            windows' = windows + Cardinality(W) /\ due' = due \cup W
      BY <1>6 DEF Elapse
    <2>2. PendingJobs' = PendingJobs /\ Made' = Made
      BY <1>6 DEF Elapse, PendingJobs, Made
    <2>3. IsFiniteSet(W) /\ Cardinality(W) \in Nat
      BY FinitelyMany
    <2>4. Cardinality(due') \in Nat /\ Cardinality(due') <= Cardinality(due) + Cardinality(W)
      <3>1. /\ IsFiniteSet(due \cup W)
            /\ Cardinality(due \cup W) = Cardinality(due) + Cardinality(W) - Cardinality(due \cap W)
        BY <1>0, <2>3, FS_Union
      <3>2. Cardinality(due \cap W) \in Nat
        BY <1>0, FS_Intersection, FS_CardinalityType
      <3> QED
        BY <1>0, <2>1, <2>3, <3>1, <3>2, FS_CardinalityType
    <2>5. running' = running /\ written' = written
      BY <1>6 DEF Elapse
    <2> QED
      BY <1>0, <1>00, <2>1, <2>2, <2>3, <2>4, <2>5 DEF CountInv
  <1> QED
    BY <1>1, <1>2, <1>3, <1>4, <1>5, <1>6, JobSteps

-----------------------------------------------------------------------------
(* The types, step by step.                                                *)

(* What a pass has in hand, and what it leaves behind.                     *)
PassTypes ==
  /\ pc \in {"idle", "dispatch", "fleet", "health", "send", "state", "anchor",
             "drain", "ship", "mark", "down"}
  /\ todo \subseteq Policies /\ list \subseteq Channels
  /\ snap \in [n : 0..MaxWindows, failed : SUBSET Artifacts, policies : SUBSET Policies]
  /\ (pc \in {"send", "state"} => notes \in Seq(Notes) /\ notes # <<>>)
  /\ (pc \in {"ship", "mark"} => notes \subseteq Events)

LEMMA PassTypesStep == TypeInv /\ [Next]_vars => PassTypes'
  <1> SUFFICES ASSUME TypeInv, [Next]_vars PROVE PassTypes'
    OBVIOUS
  <1>0. /\ PassTypes /\ enabled \subseteq Policies /\ chans \subseteq Channels
        /\ outbox \subseteq Events /\ MaxWindows \in Nat
    BY TickBounds DEF TypeInv, TypeOK, PassTypes
  <1> USE DEF jobs, fleet, ship, Goto, EndPass, PassTypes
  <1>1. ASSUME UNCHANGED <<pc, todo, list, snap, notes>> PROVE PassTypes'
    BY <1>0, <1>1
  <1>2. ASSUME pc' \in {"idle", "fleet", "drain", "down"}, todo' = {}, snap' = NoSnap, list' = {}
        PROVE  PassTypes'
    BY <1>0, <1>2 DEF NoSnap
  <1>3. CASE Tick
    <2>1. CASE StartTick \/ Dispatch
      BY <1>0, <2>1 DEF StartTick, Dispatch, EndDispatch, SkipPolicy, CreateScheduledJob
    <2>2. CASE Notify
      <3>1. CASE NobodyListens \/ SendThrows \/ Reanchor
        BY <1>2, <3>1 DEF NobodyListens, SendThrows, Reanchor
      <3>2. CASE ReadFleet
        <4>1. Unobserved \in 0..MaxWindows
          <5>1. {a \in Artifacts : art[a] = "UNOBSERVED"} \in SUBSET Artifacts
            OBVIOUS
          <5> QED
            BY <5>1, FinitelyMany DEF Unobserved
        <4> QED
          BY <1>0, <3>2, <4>1 DEF ReadFleet
      <3>3. CASE ReadHealth
        <4>1. Evaluate \in Seq(Notes)
          BY EvaluatedNotes DEF TypeInv
        <4> HIDE DEF Notes
        <4> QED
          BY <1>0, <3>3, <4>1 DEF ReadHealth
      <3>4. CASE Send
        BY <1>0, <3>4 DEF Send
      <3>5. CASE MoveState
        <4>1. notes \in Seq(Notes) /\ notes # <<>> /\ notes' = Tail(notes)
              /\ pc' = (IF Len(notes) = 1 THEN "anchor" ELSE "send")
              /\ UNCHANGED <<todo, snap, list>>
          BY <1>0, <3>5 DEF MoveState, NextNote
        <4> HIDE DEF Notes
        <4>2. Tail(notes) \in Seq(Notes) /\ (Len(notes) # 1 => Tail(notes) # <<>>)
          <5>1. Tail(notes) \in Seq(Notes) /\ Len(Tail(notes)) = Len(notes) - 1
            BY <4>1
          <5>2. Len(notes) \in Nat /\ Len(notes) # 0
            BY <4>1
          <5> QED
            BY <5>1, <5>2
        <4> QED
          BY <1>0, <4>1, <4>2
      <3> QED
        BY <2>2, <3>1, <3>2, <3>3, <3>4, <3>5 DEF Notify
    <2>3. CASE Outbox
      <3>1. CASE ReadEvents
        <4>1. Oldest \subseteq Events
          BY <1>0 DEF Oldest
        <4> QED
          BY <1>0, <1>2, <3>1, <4>1 DEF ReadEvents
      <3>2. CASE Ship
        BY <1>0, <3>2 DEF Ship
      <3>3. CASE ShipThrows \/ MarkDelivered
        BY <1>2, <3>3 DEF ShipThrows, MarkDelivered
      <3> QED
        BY <2>3, <3>1, <3>2, <3>3 DEF Outbox
    <2> QED
      BY <1>3, <2>1, <2>2, <2>3 DEF Tick
  <1>4. CASE PassThrows
    BY <1>2, <1>4 DEF PassThrows, PassAfter
  <1>5. CASE Crash \/ Boot
    <2>1. CASE Crash
      BY <1>2, <2>1 DEF Crash
    <2>2. CASE Boot
      BY <1>0, <2>2 DEF Boot
    <2> QED
      BY <1>5, <2>1, <2>2
  <1>6. CASE Environment
    BY <1>1, <1>6
    DEF Environment, Elapse, Claim, EndJob, VerifyEnds, TogglePolicy, DeleteChannel
  <1>7. CASE UNCHANGED vars
    BY <1>1, <1>7 DEF vars
  <1> QED
    BY <1>3, <1>4, <1>5, <1>6, <1>7 DEF Next

(* The jobs, the policies and the artifacts.                               *)
JobTypes ==
  /\ due \subseteq Policies /\ enabled \subseteq Policies
  /\ windows \in 0..MaxWindows /\ pending \in [Policies -> Nat] /\ running \subseteq Policies
  /\ age \in [Policies -> Nat] /\ \A p \in Policies : age[p] <= NeverRan(p)
  /\ art \in [Artifacts -> {"none", "UNOBSERVED", "VERIFIED", "FAILED"}]

LEMMA JobTypesStep == TypeInv /\ [Next]_vars => JobTypes'
  <1> SUFFICES ASSUME TypeInv, [Next]_vars PROVE JobTypes'
    OBVIOUS
  <1>0. JobTypes /\ MaxWindows \in Nat /\ \A p \in Policies : NeverRan(p) \in Nat
    <2>1. \A p \in Policies : Interval[p] \in Nat
      BY TickBounds
    <2> QED
      BY <2>1, TickBounds DEF TypeInv, TypeOK, JobTypes, NeverRan, Deadline, MIN_INTERVAL
  <1>1. ASSUME UNCHANGED <<due, enabled, windows, pending, running, age, art>> PROVE JobTypes'
    BY <1>0, <1>1 DEF JobTypes
  <1>2. CASE Tick
    <2>1. ASSUME NEW p \in Policies, CreateScheduledJob(p) PROVE JobTypes'
      BY <1>0, <2>1 DEF JobTypes, CreateScheduledJob
    <2>2. CASE StartTick \/ EndDispatch \/ \E p \in Policies : SkipPolicy(p)
      BY <1>1, <2>2 DEF StartTick, EndDispatch, SkipPolicy, jobs
    <2>3. CASE Notify \/ Outbox
      BY <1>1, <2>3
      DEF Notify, NobodyListens, ReadFleet, ReadHealth, Send, SendThrows, MoveState, Reanchor,
        Outbox, ReadEvents, Ship, ShipThrows, MarkDelivered, jobs
    <2> QED
      BY <1>2, <2>1, <2>2, <2>3 DEF Tick, Dispatch
  <1>3. CASE PassThrows \/ Crash \/ Boot
    BY <1>1, <1>3 DEF PassThrows, Crash, Boot, jobs
  <1>4. CASE Environment
    <2>1. CASE Elapse
      <3>1. /\ age' = [p \in Policies |-> IF age[p] < NeverRan(p) THEN age[p] + 1 ELSE age[p]]
            /\ UNCHANGED <<pending, running, art, enabled>>
        BY <2>1 DEF Elapse
      <3>2. PICK W \in SUBSET (Policies \ Broken) :
              /\ windows + Cardinality(W) <= MaxWindows
              /\ windows' = windows + Cardinality(W) /\ due' = due \cup W
        BY <2>1 DEF Elapse
      <3>3. Cardinality(W) \in Nat
        BY FinitelyMany
      <3>4. windows' \in 0..MaxWindows /\ due' \subseteq Policies
        BY <1>0, <3>2, <3>3 DEF JobTypes
      <3>5. age' \in [Policies -> Nat] /\ \A p \in Policies : age'[p] <= NeverRan(p)
        BY <1>0, <3>1 DEF JobTypes
      <3> HIDE DEF NeverRan
      <3> QED
        BY <1>0, <3>1, <3>4, <3>5 DEF JobTypes
    <2>2. ASSUME NEW p \in Policies, Claim(p) PROVE JobTypes'
      BY <1>0, <2>2 DEF JobTypes, Claim
    <2>3. ASSUME NEW p \in Policies, EndJob(p) PROVE JobTypes'
      BY <1>0, <2>3 DEF JobTypes, EndJob
    <2>4. ASSUME NEW p \in Policies, TogglePolicy(p) PROVE JobTypes'
      BY <1>0, <2>4 DEF JobTypes, TogglePolicy
    <2>5. ASSUME NEW a \in Artifacts, VerifyEnds(a) PROVE JobTypes'
      BY <1>0, <2>5 DEF JobTypes, VerifyEnds
    <2>6. ASSUME NEW ch \in Channels, DeleteChannel(ch) PROVE JobTypes'
      BY <1>1, <2>6 DEF DeleteChannel, jobs
    <2> QED
      BY <1>4, <2>1, <2>2, <2>3, <2>4, <2>5, <2>6 DEF Environment
  <1>5. CASE UNCHANGED vars
    BY <1>1, <1>5 DEF vars, jobs
  <1> QED
    BY <1>2, <1>3, <1>4, <1>5 DEF Next

(* What was told, tried and counted.                                       *)
NewsTypes ==
  /\ chans \subseteq Channels
  /\ anchor \in [age : 0..Gap, n : -1..MaxWindows]
  /\ open \subseteq Conditions /\ heard \subseteq Channels \X Conditions
  /\ tried \subseteq Channels \X Events
  /\ spent \in [{"edit", "abort"} -> Nat]

LEMMA NewsTypesStep == TypeInv /\ [Next]_vars => NewsTypes'
  <1> SUFFICES ASSUME TypeInv, [Next]_vars PROVE NewsTypes'
    OBVIOUS
  <1>0. /\ NewsTypes /\ PassTypes /\ Gap \in Nat /\ MaxWindows \in Nat
        /\ \A k \in {"edit", "abort"} : Spend(k) => spent' \in [{"edit", "abort"} -> Nat]
    <2>1. spent \in [{"edit", "abort"} -> Nat]
      BY DEF TypeInv, TypeOK
    <2>2. \A k \in {"edit", "abort"} : Spend(k) => spent' \in [{"edit", "abort"} -> Nat]
      BY <2>1 DEF Spend
    <2> QED
      BY <2>2, TickBounds DEF TypeInv, TypeOK, NewsTypes, PassTypes
  <1>1. pc \in {"send", "state"} => Head(notes) \in Notes /\ Head(notes).cond \in Conditions
    <2>1. pc \in {"send", "state"} => Head(notes) \in Notes
      <3> HIDE DEF Notes
      <3> QED
        BY <1>0 DEF PassTypes
    <2> QED
      BY <2>1 DEF Notes
  <1>2. ASSUME pc = "send", NEW S \in SUBSET list, Tell(S, Head(notes))
        PROVE  heard' \subseteq Channels \X Conditions
    <2>1. S \X {Head(notes).cond} \subseteq Channels \X Conditions
      BY <1>0, <1>1, <1>2 DEF PassTypes
    <2> HIDE DEF Conditions
    <2> QED
      BY <1>0, <1>2, <2>1 DEF Tell, NewsTypes
  <1> USE DEF jobs, fleet, ship, Goto, EndPass, Abort
  <1> HIDE DEF Conditions, Notes, Events
  <1>3. ASSUME UNCHANGED <<chans, anchor, open, heard, tried>>,
               UNCHANGED spent \/ \E k \in {"edit", "abort"} : Spend(k)
        PROVE  NewsTypes'
    BY <1>0, <1>3 DEF NewsTypes
  <1>4. CASE Tick
    <2>1. CASE StartTick \/ Dispatch
      BY <1>3, <2>1 DEF StartTick, Dispatch, EndDispatch, SkipPolicy, CreateScheduledJob
    <2>2. CASE NobodyListens \/ ReadFleet \/ ReadHealth
      BY <1>3, <2>2 DEF NobodyListens, ReadFleet, ReadHealth
    <2>3. CASE Send
      BY <1>0, <1>2, <2>3 DEF Send, NewsTypes
    <2>4. CASE SendThrows
      <3>1. /\ heard' \subseteq Channels \X Conditions
            /\ UNCHANGED <<chans, anchor, open, tried>>
            /\ UNCHANGED spent \/ Spend("abort")
        BY <1>2, <2>4 DEF SendThrows
      <3> QED
        BY <1>0, <3>1 DEF NewsTypes
    <2>5. CASE MoveState
      <3>1. open' \subseteq open \cup {Head(notes).cond} /\ heard' \subseteq heard
        BY <2>5 DEF MoveState, Move
      <3>2. UNCHANGED <<chans, anchor, tried, spent>> /\ Head(notes).cond \in Conditions
        BY <1>1, <2>5 DEF MoveState
      <3> QED
        BY <1>0, <3>1, <3>2 DEF NewsTypes
    <2>6. CASE Reanchor
      <3>1. anchor' \in [age : 0..Gap, n : -1..MaxWindows]
        BY <1>0, <2>6 DEF Reanchor, NewsTypes, PassTypes
      <3> QED
        BY <1>0, <2>6, <3>1 DEF Reanchor, NewsTypes
    <2>7. CASE Outbox
      <3>1. CASE ReadEvents \/ MarkDelivered
        BY <1>3, <3>1 DEF ReadEvents, MarkDelivered
      <3>2. CASE Ship \/ ShipThrows
        <4>1. pc = "ship" /\ \E E \in SUBSET notes : tried' = tried \cup (list \X E)
          BY <3>2 DEF Ship, ShipThrows
        <4>2. tried' \subseteq Channels \X Events
          BY <1>0, <4>1 DEF NewsTypes, PassTypes
        <4>3. UNCHANGED <<chans, anchor, open, heard>> /\ (UNCHANGED spent \/ Spend("abort"))
          BY <3>2 DEF Ship, ShipThrows
        <4> QED
          BY <1>0, <4>2, <4>3 DEF NewsTypes
      <3> QED
        BY <2>7, <3>1, <3>2 DEF Outbox
    <2> QED
      BY <1>4, <2>1, <2>2, <2>3, <2>4, <2>5, <2>6, <2>7 DEF Tick, Notify
  <1>5. CASE PassThrows \/ Boot
    BY <1>3, <1>5 DEF PassThrows, Boot
  <1>6. CASE Crash
    <2>1. heard' \subseteq Channels \X Conditions
      <3>1. CASE pc = "send"
        BY <1>2, <1>6, <3>1 DEF Crash
      <3>2. CASE pc # "send"
        BY <1>0, <1>6, <3>2 DEF Crash, NewsTypes
      <3> QED
        BY <3>1, <3>2
    <2>2. UNCHANGED <<chans, anchor, open, tried>> /\ Spend("abort")
      BY <1>6 DEF Crash
    <2> QED
      BY <1>0, <2>1, <2>2 DEF NewsTypes
  <1>7. CASE Environment
    <2>1. CASE Elapse
      <3>1. anchor' \in [age : 0..Gap, n : -1..MaxWindows]
        BY <1>0, <2>1 DEF Elapse, NewsTypes
      <3>2. UNCHANGED <<chans, open, heard, tried, spent>>
        BY <2>1 DEF Elapse
      <3> QED
        BY <1>0, <3>1, <3>2 DEF NewsTypes
    <2>2. CASE \E p \in Policies : Claim(p) \/ EndJob(p) \/ TogglePolicy(p)
      BY <1>3, <2>2 DEF Claim, EndJob, TogglePolicy
    <2>3. CASE \E a \in Artifacts : VerifyEnds(a)
      BY <1>3, <2>3 DEF VerifyEnds
    <2>4. ASSUME NEW ch \in Channels, DeleteChannel(ch) PROVE NewsTypes'
      BY <1>0, <2>4 DEF DeleteChannel, NewsTypes
    <2> QED
      BY <1>7, <2>1, <2>2, <2>3, <2>4 DEF Environment
  <1>8. CASE UNCHANGED vars
    BY <1>3, <1>8 DEF vars
  <1> QED
    BY <1>4, <1>5, <1>6, <1>7, <1>8 DEF Next

LEMMA TypeStep == TypeInv /\ [Next]_vars => TypeInv'
  <1> SUFFICES ASSUME TypeInv, [Next]_vars PROVE TypeInv'
    OBVIOUS
  <1>1. PassTypes' /\ JobTypes' /\ NewsTypes'
    BY PassTypesStep, JobTypesStep, NewsTypesStep
  <1>2. CountInv'
    BY CountStep DEF TypeInv
  <1>3. /\ Cardinality(PendingJobs)' \in Nat /\ Cardinality(running)' \in Nat
        /\ Cardinality(due)' \in Nat /\ windows' \in 0..MaxWindows /\ MaxWindows \in Nat
    <2>1. running' \in SUBSET Policies /\ due' \in SUBSET Policies /\ windows' \in 0..MaxWindows
      BY <1>1 DEF JobTypes
    <2> QED
      BY <1>2, <2>1, FinitelyMany, FS_CardinalityType, TickBounds DEF CountInv
  <1>4. written \in 0..(3 * MaxWindows) /\ outbox \subseteq 1..(3 * MaxWindows)
    BY FinitelyMany DEF TypeInv, TypeOK, Events
  <1>5. written' \in Nat => written' \in 0..(3 * MaxWindows)
    BY <1>2, <1>3 DEF CountInv
  <1>6. written' \in 0..(3 * MaxWindows) /\ outbox' \subseteq 1..(3 * MaxWindows)
    <2>1. CASE RecordJobEvent
      BY <1>4, <1>5, <2>1 DEF RecordJobEvent
    <2>2. CASE ~RecordJobEvent
      BY <1>4, <2>2, EventMoves
    <2> QED
      BY <2>1, <2>2
  <1>7. written' \in 0..Cardinality(Events) /\ outbox' \subseteq Events
    BY <1>6, FinitelyMany DEF Events
  <1> QED
    BY <1>1, <1>2, <1>7 DEF TypeInv, TypeOK, PassTypes, JobTypes, NewsTypes

LEMMA TypeInit == Init => TypeInv
  <1> SUFFICES ASSUME Init PROVE TypeInv
    OBVIOUS
  <1>1. JobTypes /\ NewsTypes /\ PassTypes
    <2>1. \A p \in Policies : NeverRan(p) \in Nat
      <3>1. \A p \in Policies : Interval[p] \in Nat
        BY TickBounds
      <3> QED
        BY <3>1 DEF NeverRan, Deadline, MIN_INTERVAL
    <2> HIDE DEF NeverRan
    <2> QED
      BY <2>1, TickBounds DEF Init, JobTypes, NewsTypes, PassTypes, Absent, NoSnap
  <1>2. written \in 0..Cardinality(Events) /\ outbox \subseteq Events
    BY FinitelyMany, TickBounds DEF Init
  <1>3. PendingJobs = {} /\ Made = {} /\ running = {} /\ due = {} /\ windows = 0 /\ written = 0
    BY DEF Init, PendingJobs, Made
  <1>4. CountInv
    BY <1>3, FS_EmptySet DEF CountInv
  <1>5. pc \notin {"send", "state"}
    BY DEF Init
  <1> QED
    BY <1>1, <1>2, <1>4, <1>5 DEF TypeInv, TypeOK, JobTypes, NewsTypes, PassTypes

LEMMA TypeInvariant == Spec => []TypeInv
  BY TypeInit, TypeStep, PTL DEF Spec

-----------------------------------------------------------------------------
(* The theorems.                                                           *)

(* Everything the tick keeps is what it is declared to be: a notification  *)
(* is there whenever one is to be delivered, an artifact has a number when *)
(* a job ends, and three events at most are written for each window that   *)
(* has opened.                                                             *)
THEOREM TickTypes == Spec => []TypeOK
  BY TypeInvariant, PTL DEF TypeInv

(* An alert is never swallowed: wherever a pass throws or the process dies,*)
(* and whichever channels go meanwhile, a condition that stands as open has*)
(* been put to every channel that is there.                                *)
THEOREM OpenIsTold == Spec => []OpenWasTold
  BY TickInvariant, PTL DEF TickInv

(* The safety half of OutboxIsDelivered: an event leaves the outbox only   *)
(* after it was tried on every channel that is there, also one written     *)
(* while a batch was on its way.                                           *)
THEOREM EventsStayUntilTried == Spec => []EventsAreTried
  BY TickInvariant, PTL DEF TickInv
===============================================================================
