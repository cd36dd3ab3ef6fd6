---------------------------- MODULE SchedulerTick ----------------------------
(***************************************************************************)
(* The scheduler tick of one organization: the dispatch of due policies,   *)
(* the fleet notifications and the job-event outbox, one pass after the    *)
(* other under the scheduler's advisory lock (module AdvisoryLock: one     *)
(* replica at a time).  Around it jobs run, verifications end, operators   *)
(* edit policies and channels, and the process dies.                       *)
(*                                                                         *)
(* Time is kept as ages that stop growing where nothing depends on them,   *)
(* and passes between ticks: its unit is long against one pass.            *)
(***************************************************************************)
EXTENDS Integers, Sequences, FiniteSets

CONSTANTS
  Policies,     \* the backup policies
  Broken,       \* those whose cron the scheduler cannot read
  Interval,     \* the time between two windows of each readable policy
  Channels,     \* the enabled notification channels, subscribed to job events
  Gap,          \* minEvaluationGapMs
  DrainLimit,   \* JOB_EVENT_DRAIN_LIMIT
  MaxWindows,   \* bound on the cron windows that open
  MaxTroubles   \* bound on policy and channel edits, crashes and calls that throw

ASSUME TickBounds ==
  /\ IsFiniteSet(Policies) /\ Broken \subseteq Policies
  /\ Interval \in [Policies -> Nat \ {0}]
  /\ {Gap, MaxWindows, MaxTroubles} \subseteq Nat /\ DrainLimit \in Nat \ {0}

MIN_INTERVAL == 1
Deadline(p) == 2 * (IF p \in Broken THEN MIN_INTERVAL ELSE Interval[p])
NeverRan(p) == Deadline(p) + 1

Artifacts == 1..MaxWindows
Events    == 1..(3 * MaxWindows)    \* a job is inserted, claimed and ended

Behind  == <<"VERIFICATION_BEHIND", "">>
Bad(a)   == <<"ARTIFACT_FAILED", a>>
Quiet(p) == <<"POLICY_QUIET", p>>
Conditions == {Behind} \cup {Bad(a) : a \in Artifacts} \cup {Quiet(p) : p \in Policies}
Notes == [cond : Conditions, kind : {"opened", "resolved"}]

Absent == [age |-> 0, n |-> -1]     \* no NotificationSnapshot row

VARIABLES
  pc,        \* where the tick is
  todo,      \* dispatch: the policies it has still to look at
  due,       \* policies whose current window has no job row
  windows,   \* how many windows have opened
  enabled,   \* policies that are enabled
  pending,   \* PENDING jobs of each policy
  running,   \* the policies with a RUNNING job
  age,       \* time since each policy's last successful backup
  art,       \* Artifact.state, "none" without a row
  chans,     \* the channel rows
  anchor,    \* NotificationSnapshot: its age and its unobserved count
  open,      \* NotificationState rows
  heard,     \* history: <<channel, condition>> told "opened" since it last closed
  written,   \* how many JobEvent rows there have been
  outbox,    \* those with no deliveredAt; a larger number is a later row
  tried,     \* history: <<channel, event>> attempted
  snap,      \* locals: what ReadFleet saw
  list,      \* locals: the channels this pass read
  notes,     \* locals: the notifications or events it has still to deliver
  spent      \* edits and aborts so far

jobs  == <<due, windows, pending, running, age, art, enabled>>
fleet == <<anchor, open, heard>>
ship  == <<outbox, tried>>
vars  == <<pc, todo, jobs, chans, fleet, written, ship, snap, list, notes, spent>>

Unobserved == Cardinality({a \in Artifacts : art[a] = "UNOBSERVED"})
IsQuiet(p) == age[p] > Deadline(p)
NoSnap == [n |-> 0, failed |-> {}, policies |-> {}]

TypeOK ==
  /\ pc \in {"idle", "dispatch", "fleet", "health", "send", "state", "anchor",
             "drain", "ship", "mark", "down"}
  /\ todo \subseteq Policies /\ due \subseteq Policies /\ enabled \subseteq Policies
  /\ windows \in 0..MaxWindows /\ pending \in [Policies -> Nat] /\ running \subseteq Policies
  /\ age \in [Policies -> Nat] /\ \A p \in Policies : age[p] <= NeverRan(p)
  /\ art \in [Artifacts -> {"none", "UNOBSERVED", "VERIFIED", "FAILED"}]
  /\ chans \subseteq Channels /\ list \subseteq Channels
  /\ anchor \in [age : 0..Gap, n : -1..MaxWindows]
  /\ open \subseteq Conditions /\ heard \subseteq Channels \X Conditions
  /\ written \in 0..Cardinality(Events) /\ outbox \subseteq Events
  /\ tried \subseteq Channels \X Events
  /\ snap \in [n : 0..MaxWindows, failed : SUBSET Artifacts, policies : SUBSET Policies]
  /\ (pc \in {"send", "state"} => notes \in Seq(Notes))
  /\ (pc \in {"ship", "mark"} => notes \subseteq Events)
  /\ spent \in [{"edit", "abort"} -> Nat]

Init ==
  /\ pc = "idle" /\ todo = {} /\ due = {} /\ windows = 0 /\ enabled = Policies
  /\ pending = [p \in Policies |-> 0] /\ running = {}
  /\ age = [p \in Policies |-> NeverRan(p)]
  /\ art = [a \in Artifacts |-> "none"]
  /\ chans \in {{}, Channels} /\ anchor = Absent /\ open = {} /\ heard = {}
  /\ written = 0 /\ outbox = {} /\ tried = {}
  /\ snap = NoSnap /\ list = {} /\ notes = <<>>
  /\ spent = [edit |-> 0, abort |-> 0]

Goto(from, to) == pc = from /\ pc' = to
Spend(k) == spent["edit"] + spent["abort"] < MaxTroubles /\ spent' = [spent EXCEPT ![k] = @ + 1]
Abort == Spend("abort")

(* The trigger: one JobEvent row in the transaction of the transition.     *)
RecordJobEvent == written' = written + 1 /\ outbox' = outbox \cup {written + 1}

(* A pass ends and its locals go.                                          *)
EndPass(to) ==
  pc' = to /\ todo' = {} /\ snap' = NoSnap /\ list' = {} /\ notes' = <<>>
PassAfter ==
  CASE pc = "dispatch" -> "fleet"
    [] pc \in {"fleet", "health", "send", "state", "anchor"} -> "drain"
    [] pc \in {"drain", "ship", "mark"} -> "idle"

-----------------------------------------------------------------------------
(* First pass: dispatchDueJobs.                                            *)

StartTick ==
  /\ Goto("idle", "dispatch") /\ todo' = enabled
  /\ UNCHANGED <<jobs, chans, fleet, written, ship, snap, list, notes, spent>>

(* Mutant: the throw ends the tick, as it once did.                        *)
SkipTick(p) ==
  /\ pc = "dispatch" /\ p \in todo
  /\ \/ p \in Broken /\ UNCHANGED spent
     \/ Abort
  /\ EndPass("idle")
  /\ UNCHANGED <<jobs, chans, fleet, written, ship>>

(* An unreadable cron, or a throw, skips the policy and nothing else.      *)
SkipPolicy(p) ==
  /\ pc = "dispatch" /\ p \in todo
  /\ \/ p \in Broken /\ UNCHANGED spent
     \/ Abort
  /\ todo' = todo \ {p}
  /\ UNCHANGED <<pc, jobs, chans, fleet, written, ship, snap, list, notes>>

(* (policyId, scheduledAt) is unique: a window that has its job stays so.  *)
CreateScheduledJob(p) ==
  /\ pc = "dispatch" /\ p \in todo \ Broken
  /\ todo' = todo \ {p}
  /\ IF p \in due
     THEN /\ due' = due \ {p} /\ pending' = [pending EXCEPT ![p] = @ + 1]
          /\ RecordJobEvent
     ELSE UNCHANGED <<due, pending, written, outbox>>
  /\ UNCHANGED <<pc, windows, running, age, art, enabled, chans, fleet, tried, snap, list, notes, spent>>

EndDispatch ==
  /\ Goto("dispatch", "fleet") /\ todo = {}
  /\ UNCHANGED <<todo, jobs, chans, fleet, written, ship, snap, list, notes, spent>>

Dispatch == EndDispatch \/ \E p \in Policies : SkipPolicy(p) \/ CreateScheduledJob(p)

-----------------------------------------------------------------------------
(* Second pass: runNotifications.                                          *)

(* Without a channel the organization is passed over, its state untouched. *)
NobodyListens ==
  /\ pc = "fleet" /\ chans = {} /\ EndPass("drain")
  /\ UNCHANGED <<jobs, chans, fleet, written, ship, spent>>

ReadFleet ==
  /\ Goto("fleet", "health") /\ chans # {} /\ list' = chans
  /\ snap' = [n |-> Unobserved, failed |-> {a \in Artifacts : art[a] = "FAILED"},
              policies |-> enabled]
  /\ UNCHANGED <<todo, jobs, chans, fleet, written, ship, notes, spent>>

(* An anchor younger than the gap is no anchor.                            *)
HasPrevious == anchor # Absent /\ anchor.age >= Gap
BehindHolds == HasPrevious /\ snap.n > 0 /\ snap.n >= anchor.n

(* evaluateNotifications.  ARTIFACT_FAILED opens and never resolves.       *)
Note(c, k) == [cond |-> c, kind |-> k]
Transition(c, holds) ==
  IF holds /\ c \notin open THEN {Note(c, "opened")}
  ELSE IF ~holds /\ c \in open THEN {Note(c, "resolved")}
  ELSE {}
(* The artifacts and policies come in the order the database has them in.  *)
InSomeOrder(S) ==
  CHOOSE s \in [1..Cardinality(S) -> S] : \A i, j \in DOMAIN s : s[i] = s[j] => i = j

FailedNotes == {Note(Bad(a), "opened") : a \in {b \in snap.failed : Bad(b) \notin open}}
QuietNotes  == UNION {Transition(Quiet(p), IsQuiet(p)) : p \in snap.policies}
Evaluate ==
  InSomeOrder(FailedNotes) \o InSomeOrder(Transition(Behind, BehindHolds)) \o InSomeOrder(QuietNotes)

(* Mutant: the conditions are noted as reported before they are.           *)
ReadHealthAndMove ==
  /\ pc = "health" /\ notes' = Evaluate
  /\ open' = open \cup {Evaluate[i].cond : i \in DOMAIN Evaluate}
  /\ pc' = IF Evaluate = <<>> THEN "anchor" ELSE "send"
  /\ UNCHANGED <<todo, jobs, chans, anchor, heard, written, ship, snap, list, spent>>

(* The policies' last successes are read after the rest of the snapshot.   *)
ReadHealth ==
  /\ pc = "health" /\ notes' = Evaluate
  /\ pc' = IF Evaluate = <<>> THEN "anchor" ELSE "send"
  /\ UNCHANGED <<todo, jobs, chans, fleet, written, ship, snap, list, spent>>

(* An attempt on each channel of S, whether it takes the message or not.   *)
Tell(S, note) ==
  heard' = IF note.kind = "opened" THEN heard \cup (S \X {note.cond}) ELSE heard

Send ==
  /\ Goto("send", "state") /\ list \subseteq chans
  /\ Tell(list, Head(notes))
  /\ UNCHANGED <<todo, jobs, chans, anchor, open, written, ship, snap, list, notes, spent>>

(* Each attempt is noted on its channel's row.  A row deleted since it was *)
(* read throws out of the pass, after some channels have had the message;  *)
(* so does a note that cannot be written.                                  *)
SendThrows ==
  /\ pc = "send" /\ EndPass("drain")
  /\ \E S \in SUBSET list : Tell(S, Head(notes))
  /\ \/ ~(list \subseteq chans) /\ UNCHANGED spent
     \/ Abort
  /\ UNCHANGED <<jobs, chans, anchor, open, written, ship>>

NextNote ==
  /\ notes' = Tail(notes)
  /\ pc' = IF Len(notes) = 1 THEN "anchor" ELSE "send"

Move(note) ==
  IF note.kind = "opened"
  THEN open' = open \cup {note.cond} /\ UNCHANGED heard
  ELSE open' = open \ {note.cond} /\ heard' = heard \ (Channels \X {note.cond})

(* "State moves whether or not delivery succeeded."                        *)
MoveState ==
  /\ pc = "state" /\ NextNote
  /\ Move(Head(notes))
  /\ UNCHANGED <<todo, jobs, chans, anchor, written, ship, snap, list, spent>>

(* Mutant: the anchor moves every time it is looked at, as it once did.    *)
ReanchorAlways ==
  /\ pc = "anchor" /\ EndPass("drain")
  /\ anchor' = [age |-> 0, n |-> snap.n]
  /\ UNCHANGED <<jobs, chans, open, heard, written, ship, spent>>

Reanchor ==
  /\ pc = "anchor" /\ EndPass("drain")
  /\ anchor' = IF anchor = Absent \/ HasPrevious THEN [age |-> 0, n |-> snap.n] ELSE anchor
  /\ UNCHANGED <<jobs, chans, open, heard, written, ship, spent>>

Notify ==
  \/ NobodyListens \/ ReadFleet \/ ReadHealth \/ Send \/ SendThrows \/ MoveState \/ Reanchor

-----------------------------------------------------------------------------
(* Third pass: runJobEventNotifications.                                   *)

(* Orders by createdAt and takes DrainLimit rows.                          *)
Oldest == {e \in outbox : Cardinality({f \in outbox : f < e}) < DrainLimit}

(* Mutant: with nobody subscribed the rows are left where they are.        *)
ReadEventsIfSubscribed ==
  /\ pc = "drain"
  /\ IF outbox = {} \/ chans = {}
     THEN EndPass("idle")
     ELSE /\ pc' = "ship" /\ list' = chans /\ notes' = Oldest
          /\ UNCHANGED <<todo, snap>>
  /\ UNCHANGED <<jobs, chans, fleet, written, ship, spent>>

ReadEvents ==
  /\ pc = "drain"
  /\ IF outbox = {}
     THEN EndPass("idle")
     ELSE /\ pc' = "ship" /\ list' = chans /\ notes' = Oldest
          /\ UNCHANGED <<todo, snap>>
  /\ UNCHANGED <<jobs, chans, fleet, written, ship, spent>>

(* Every event of the batch to every channel, in order.                    *)
Ship ==
  /\ Goto("ship", "mark")
  /\ tried' = tried \cup (list \X notes)
  /\ UNCHANGED <<todo, jobs, chans, fleet, written, outbox, snap, list, notes, spent>>

(* A failure to reach a channel that is gone cannot be noted, and throws.  *)
ShipThrows ==
  /\ pc = "ship" /\ EndPass("idle")
  /\ \E k \in notes \cup {0} : tried' = tried \cup (list \X {e \in notes : e <= k})
  /\ \/ ~(list \subseteq chans) /\ UNCHANGED spent
     \/ Abort
  /\ UNCHANGED <<jobs, chans, fleet, written, outbox>>

(* One UPDATE for the batch.  Delivered rows are read by nobody here, and  *)
(* pruned a day later.                                                     *)
MarkDelivered ==
  /\ pc = "mark" /\ EndPass("idle")
  /\ outbox' = outbox \ notes
  /\ UNCHANGED <<jobs, chans, fleet, written, tried, spent>>

Outbox == ReadEvents \/ Ship \/ ShipThrows \/ MarkDelivered

-----------------------------------------------------------------------------
(* Any other call of a pass may throw: the pass ends, the next one runs.   *)
PassThrows ==
  /\ pc \in {"dispatch", "fleet", "health", "state", "anchor", "drain", "mark"}
  /\ Abort /\ EndPass(PassAfter)
  /\ UNCHANGED <<jobs, chans, fleet, written, ship>>

(* The process dies, in the middle of a delivery perhaps, and comes back.  *)
Crash ==
  /\ pc # "down" /\ Abort /\ EndPass("down")
  /\ IF pc = "send" THEN \E S \in SUBSET list : Tell(S, Head(notes)) ELSE UNCHANGED heard
  /\ UNCHANGED <<jobs, chans, anchor, open, written, ship>>
Boot ==
  /\ Goto("down", "idle")
  /\ UNCHANGED <<todo, jobs, chans, fleet, written, ship, snap, list, notes, spent>>

(* Time passes, and windows open with it, none for a cron that cannot be   *)
(* read.  A window nobody dispatched is forgotten when the next one opens. *)
Elapse ==
  /\ pc \in {"idle", "down"}
  /\ age' = [p \in Policies |-> IF age[p] < NeverRan(p) THEN age[p] + 1 ELSE age[p]]
  /\ anchor' = IF anchor # Absent /\ anchor.age < Gap THEN [anchor EXCEPT !.age = @ + 1] ELSE anchor
  /\ \E W \in SUBSET (Policies \ Broken) :
       /\ windows + Cardinality(W) <= MaxWindows
       /\ windows' = windows + Cardinality(W) /\ due' = due \cup W
  /\ UNCHANGED <<pc, todo, pending, running, art, enabled, chans, open, heard, written, ship,
                 snap, list, notes, spent>>

(* The worker claims a job of p and ends it.                               *)
Claim(p) ==
  /\ pending[p] > 0 /\ running = {}
  /\ pending' = [pending EXCEPT ![p] = @ - 1] /\ running' = {p}
  /\ RecordJobEvent
  /\ UNCHANGED <<pc, todo, due, windows, age, art, enabled, chans, fleet, tried, snap, list, notes, spent>>

NextArtifact == CHOOSE a \in Artifacts : art[a] = "none" /\ \A b \in Artifacts : b < a => art[b] # "none"
EndJob(p) ==
  /\ p \in running /\ running' = {} /\ RecordJobEvent
  /\ \/ /\ age' = [age EXCEPT ![p] = 0]
        /\ art' = [art EXCEPT ![NextArtifact] = "UNOBSERVED"]
     \/ UNCHANGED <<age, art>>
  /\ UNCHANGED <<pc, todo, due, windows, pending, enabled, chans, fleet, tried, snap, list, notes, spent>>

(* A verification proves an artifact, or proves it bad.                    *)
VerifyEnds(a) ==
  /\ art[a] # "none"
  /\ art' \in {[art EXCEPT ![a] = s] : s \in {"VERIFIED", "FAILED"}}
  /\ UNCHANGED <<pc, todo, due, windows, pending, running, age, enabled, chans, fleet, written,
                 ship, snap, list, notes, spent>>

TogglePolicy(p) ==
  /\ Spend("edit")
  /\ enabled' = IF p \in enabled THEN enabled \ {p} ELSE enabled \cup {p}
  /\ UNCHANGED <<pc, todo, due, windows, pending, running, age, art, chans, fleet, written, ship,
                 snap, list, notes>>
DeleteChannel(ch) ==
  /\ Spend("edit") /\ ch \in chans /\ chans' = chans \ {ch}
  /\ UNCHANGED <<pc, todo, jobs, fleet, written, ship, snap, list, notes>>

Environment ==
  \/ Elapse
  \/ \E p \in Policies : Claim(p) \/ EndJob(p) \/ TogglePolicy(p)
  \/ \E a \in Artifacts : VerifyEnds(a)
  \/ \E ch \in Channels : DeleteChannel(ch)

Tick == StartTick \/ Dispatch \/ Notify \/ Outbox
Next == Tick \/ PassThrows \/ Crash \/ Boot \/ Environment
Spec == Init /\ [][Next]_vars

(* The loop re-arms its timer after every tick, the container restarts and *)
(* time goes by.  Nothing is assumed of jobs, verifications or operators.  *)
FairSpec == Spec /\ WF_vars(Tick) /\ WF_vars(Boot) /\ SF_vars(Elapse)

-----------------------------------------------------------------------------
(* Properties.                                                             *)

(* A condition recorded as open has been put to every channel that was     *)
(* there to be told, whatever died or threw in between: a crash may repeat *)
(* an alert and never swallows one.                                        *)
OpenWasTold == \A c \in open : chans \X {c} \subseteq heard

(* Every window of a readable policy that stays enabled gets its job, next *)
(* to a policy that can never be dispatched.                               *)
WindowsAreDispatched ==
  \A p \in Policies \ Broken : p \in due ~> (p \notin due \/ p \notin enabled)

(* A job event leaves the outbox only after it was tried on every channel  *)
(* subscribed, events written while a batch was being sent included; and   *)
(* the outbox is drained, a batch at a time and with nobody subscribed too:*)
(* with the bounded number of jobs there are, again and again empty.       *)
EventsAreTried == \A e \in 1..written : e \in outbox \/ (chans \X {e}) \subseteq tried
OutboxIsDelivered == []EventsAreTried /\ []<>(outbox = {})

(* Backups that succeed while nothing is verified: if from some point on   *)
(* the same number of artifacts stays unobserved, VERIFICATION_BEHIND is   *)
(* reported.                                                               *)
StalledVerificationIsTold ==
  \A k \in 1..MaxWindows : <>[](Unobserved = k /\ chans # {}) => []<>(Behind \in open)

=============================================================================
