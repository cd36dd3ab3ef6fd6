# schrodump in TLA+

schrodump backs up PostgreSQL, MySQL/MariaDB and MongoDB databases to S3, encrypts every artifact,
proves artifacts by restoring them, prunes them and reports what is unproven. This directory holds
TLA+ modules of its server (`apps/server`) and of the packages it is built from, the TLC
configurations that model-check them, and TLAPS proofs, one module per area, of the types and of every
safety property the runs check.

Run from this directory:

    tlc -workers 2 -config MCWorker.cfg MCWorker        # one line per run of PROJECT.json
    tlapm WorkerProofs.tla       # and the other seven *Proofs modules, section 5

## 1. Inventory

One Node.js process is one *replica*. It shares a PostgreSQL metadata database with the others,
drives a Docker host for the executor containers, and reads and writes an S3 bucket.

| Component | State | Operations | Talks to |
| --- | --- | --- | --- |
| Worker loop (`server.ts`, `jobs/{worker,claim,loop,shutdown}.ts`) | `BackupJob` rows, the WORKER advisory lock, the job in hand, managed containers | boot recovery, container sweep, drain tick, claim, execute, settle, chain, SIGTERM, crash | metadata database, Docker, every job kind |
| Backup job (`jobs/backup*.ts`, `packages/runner/src/scratch.ts`) | up to three objects, the Artifact row, scratch directories and credential files | probe, reserve, upload, globals, manifest, persist, discard, release, gc | bucket, database, scratch volume |
| Verify job (`jobs/verify*.ts`) | `Artifact.state`, `verifiedLevel`, a sandbox container | read and compare, restore into a sandbox, record verdict, record provenance | bucket, Docker, database |
| Retention (`packages/core/src/retention.ts`, `jobs/retention*.ts`) | none of its own: rows and manifests | list, load manifests, resolve, delete objects, delete row | bucket, database |
| Catalog rebuild (`jobs/catalog-rebuild*.ts`) | none of its own | scan, skip, import | bucket, database |
| Scheduler (`scheduler/*.ts`) | due windows, the SCHEDULER advisory lock | tick, dispatch | database |
| Notifications (`notifications/*.ts`) | `NotificationState`, `NotificationSnapshot`, `JobEvent` outbox, channels | evaluate, deliver, move state, re-anchor, drain | database, webhooks, SMTP |
| Restore (`jobs/restore*.ts`) | cleartext on the scratch volume, slots, a live target, an audit entry | gates, reserve, decrypt, extract, run the tools, clean up | bucket, target, scratch volume |
| Executor runner (`packages/runner/src/docker.ts`) | containers, their output streams | run, ephemeral service, abort, remove, sweep | Docker daemon |
| Engines (`packages/engines`, `packages/core/src/capabilities.ts`, `jobs/execution-mode.ts`) | none of its own: facts of a dump on the artifact's row | probe, plan a dump, a restore and a verify | database servers |
| Self-backup (`jobs/self-backup*.ts`) | `SelfBackup` rows, its own lock, a dump and a sidecar | due, dump, upload, record, recover | database, bucket |
| Keys (`crypto/*.ts`, `routes/encryption-keys.ts`) | `EncryptionKey` rows, the KEK's fingerprint | bind, provision, rotate, seal, open | database |
| Accounts (`bootstrap/*.ts`, `routes/{setup,members}.ts`, `auth/*.ts`) | accounts, memberships, `mustChangePassword`, setup tokens | bootstrap, redeem, invite, alter, rotate a password | database, better-auth |
| Configuration (`routes/{targets,destinations,policies}.ts`) | targets, destinations, policies | create, edit, remove | database, every job |
| Delivery and egress (`notifications/{deliver,webhook,smtp}.ts`, `probe`, `egress/guard.ts`) | what a row says of its last attempt, the cache of own addresses | send, probe, canary, follow a redirect, permit, refuse | webhooks, relays, databases, buckets |
| API (`routes/*.ts`) | none of its own | enqueue, delete artifact, edit, rebuild | database, bucket |

Interactions. The scheduler and the API insert `PENDING` rows; the worker takes them one at a time.
A backup that succeeds chains a verification and a retention cycle. Verification and retention both
write the catalog the API deletes from and the rebuild adds to. A database trigger turns every
change of a job's state into an outbox row, which the scheduler's tick delivers. Replicas exclude
each other with session-level advisory locks, whose session can outlive the process or break under
it.

What is hard, and what has to hold:

- **Worker**: replicas that overlap in a rolling restart, lock sessions that outlive a process, a
  claim answered after SIGTERM, an executor that throws after it has reported. At most one run per
  job, one drainer, recovery and sweep that spare live replicas, queued jobs that are taken.
- **Backup**: eleven steps of which each can fail or lose its answer, with objects, a row and
  cleartext directories to keep or take away. A row never points at nothing; a plain failure leaves
  nothing; cleartext does not outlive its job for good.
- **Verify**: a verdict read from a tool's exit code while the sandbox, the bucket, the row and the
  process can go away. Condemn only on evidence, green only on bytes read, inconclusive moves
  nothing, the recorded level is the one that was reached.
- **Retention and catalog**: decisions over a view that others change, deletes that fail halfway,
  a rebuild in the middle of a backup. What the policy promises stays, the newest proven copy
  stays, rows and objects agree, a rebuild is complete and repeatable.
- **Scheduler and notifications**: passes that throw, messages sent before their state is written,
  an anchor that must neither move too often nor be read as "no". No window lost to a neighbour, no
  alert swallowed, an outbox that drains.
- **Restore**: a plan of one or two steps that a signal, an error or a death ends between any two
  awaits, with cleartext on a shared volume and a slot to give back. SUCCEEDED only after every
  step, no write without an audit entry, no file and no slot left behind.
- **Executor runner**: a daemon that answers in any order, late or never. An outcome that is the
  tool's own, no container left, an upload that reaches the end of its stream.
- **Engines**: a backup planned from the target of one day and restored into that of another, by
  tools that cannot all be confined or made to insist on TLS. A dump holds what was selected, a
  restore stays where it was asked to, a level on the row was earned.
- **Keys and self-backup**: rotations that race backups, KEKs that do not match, a database that is
  lost. What was sealed opens, what reads SUCCEEDED recovers, there is always a key to seal to.
- **Accounts**: two systems of record and no transaction over both. A password someone else has
  seen is rotated, a half-finished bootstrap finishes.
- **Configuration**: rows counted and then deleted, under relations that are the second lock.
  Policies stay runnable, backups are not forgotten.
- **Delivery and egress**: an address checked now and dialled later, redirected in between, behind
  a cache every request shares. Every dial that asks the guard, at every hop, is one it allows; a job's
  connections to its target ask nobody.

The hazards, each at its line and with the properties that cover it, are in `PROJECT.json`.

## 2. Plan

Order of work, the most important behaviour first. A tick marks what is here.

| | Module | Composes | Abstract specification | Theorems |
| --- | --- | --- | --- | --- |
| ✓ | `AdvisoryLock` | | | lock lemmas ✓ |
| ✓ | `Worker` | `AdvisoryLock` | `JobLedger` ✓ | types, no double run, one drainer, recovery and sweep, shutdown, refinement ✓ |
| ✓ | `BackupJob` | | | types, `RowHasItsObjects`, `SucceededIsBackedUp`, `PlainFailureLeftNothing` ✓ |
| ✓ | `VerifyJob` | | | types, `GreenReadTheBytes`, `CondemnedOnEvidence` ✓ |
| ✓ | `RetentionWindow` | | `Promised` (reference definition) | the single pass keeps what is `Promised` ✓ |
| ✓ | `Catalog` | `RetentionWindow` | | types, `RebuildCoversBucket`, `CatalogMatchesBucket`, `ProvenCopySurvives`, `PromiseKept` ✓ |
| ✓ | `SchedulerTick` | | | types, `OpenWasTold`, `EventsAreTried` ✓ |
| ✓ | `Vault` | | | types, `AlwaysSealable`, `ArtifactsStayOpenable`, `SelfBackupsRecover` ✓ |
| ✓ | `Accounts` | | | types, `SharedPasswordsAreRotated` ✓ |
| ✓ | `Configuration` | | | types, `PoliciesStayRunnable`, `BackupsAreNotForgotten` ✓ |
| ✓ | `Delivery` | | `Innocent` (what a dial may be) | types, `EveryDialIsGuarded` ✓ |
| ✓ | `Engines` | | | types, `TlsIsNotDropped`, `FullRestoreSawTheData`, the three action properties ✓ |
| ✓ | `RestoreJob` | | | types, `ScratchIsGivenBack`, `LedgerTellsTheRestore` ✓ |
| ✓ | `ContainerRun` | | | types, `NothingIsLeftRunning`, `OutcomeIsEarned`, the end of the output ✓ |

Runs: one per module with the safety and liveness properties worth their time; the small modules
that share no state are checked together (section 4); plus one run for each disagreement between the
code and what it says of itself that is kept as a counterexample. Where safety and liveness need
different bounds (`Worker`), two.

## 3. Modules and the code

Every definition and the lines it stands for are in the `map` of `PROJECT.json`. Shared
conventions: an action is one atomic step of the code (a database statement, an S3 call, a
container call) together with the straight-line code up to the next one; `Goto(from, to)` moves a
program counter along an `async` function; `Fault`, `Spend` and the `Max...` constants bound what
the environment may do. A variable marked "history" is read by properties and guards nothing.

**`AdvisoryLock`**: PostgreSQL's session-level, re-entrant advisory lock as
`scheduler/advisory-lock.ts` uses it. `Stale` is the session of a process that died without closing
its connection; the server ends it later, when it likes.

**`Worker`**: `n` replicas with phases `down → boot → recover → bootsweep → up → stopping →
exiting`, each with a drain loop (`wpc`, from `TickTryLock` over `ClaimNextJob` and the executor's
settling steps to `Chain` and `DrainUnlock`) and an hourly sweep loop (`spc`). Both loops of one
process use one session, so the lock excludes processes and not the loops of one. `SpecLossy` adds
`SessionDrops`, a lock connection that breaks under a live process. What an executor does inside is
abstracted here to how it may end.

**`JobLedger`**: what the job table promises its users, without locks, loops or containers.
`Worker!ImplementsLedger` is the refinement, with `reachable` mapped to the replicas in session.

**`BackupJob`**: `runBackupJob` and its ports, with `written` (keys started and not yet deleted),
`persisted` (the flag that protects the objects) and the scratch volume with its reservations. `active`
is `ScratchManager`'s set of ids, whose size is the slots in use and which `Gc` passes over. A put and
the run that feeds it settle independently, as in `backup-wiring.ts`. `MaxLost` allows a write that
commits and answers with an error. `unremoved` (history) names the jobs whose mongo `--config` file this
process could not remove: their reservation is never released.

**`VerifyJob`**: `runVerify` around `runVerifyJob`: the plan and its downgrade, CHECKSUM,
FULL_RESTORE in a sandbox, the separate writes for state and provenance. The environment damages
objects, deletes the row, scopes the target anew, kills the process and sweeps containers, and a tool
may exit non-zero for a reason of its own. `scope` is the target's scope by now, as it stands to what
the archive holds; a job reads it once into `origin`, and its assertion counts there. `cause` and
`blamed` (history) say what a condemnation rests on beside the objects. A missing object makes a
FULL_RESTORE inconclusive and a CHECKSUM fail, as the code has it.

**`RetentionWindow`**: `resolveRetention` and `addPeriodic`, with the code's single pass over the
sorted manifests as a recursive function of the number of copies seen (`Loop`), one `Visit` a turn.
`Promised` says the same without sorting, passes or counters. `dependsOn` is always empty
in manifests this version writes (`worker-wiring.ts:1007`), so the orphan check is left out.

**`Catalog`**: the bucket and the rows of one policy on one destination, and every actor on them:
backups landing (dump, manifest, row, SUCCEEDED, the jobs chained to it), verdicts (two), the retention
cycle (list, load, resolve, objects, row, over the policy as it read it when it started, `asked`), the
API's delete (check, objects, row) and the rebuild (scan, skip list, one import at a time). The worker
runs one job at a time, as `Worker` proves; the API handlers run beside it. An artifact is the time of
its backup; `rowAt` orders the rows by `createdAt`, which a rebuild renumbers; `landed` (history) is the
backups whose own job inserted the row, whatever became of the job. `UNOBSERVED` and `FAILED` are one
value here, `unproven`: retention and deletion only ask whether an artifact is `VERIFIED`.

**`SchedulerTick`**: the three passes of a tick. `due` is the set of policies whose current window
has no job row, which is all that `currentWindow` and the unique `(policyId, scheduledAt)` leave to
tell. Ages stop growing where no comparison can see them. Time passes between ticks only: a pass is
short against the unit of time (the default gap is fifteen minutes, a tick thirty seconds).
`JobEvent` rows come from one job per window; rows of other kinds are like these. They are numbered in
the order of `at`, so a set of numbers is the outbox and its least `DrainLimit` members are a batch.

**`Vault`**: `EncryptionKey` rows, the fingerprint of the KEK, the seals of the catalog and the
self-backups, for two servers that are up, starting or down. A request is a chain of awaits: the check
of the route, the read of the service, one transaction (`Provision`, `Retire`), which a violated unique
key undoes as a whole. A self-backup's dump holds a snapshot of the modelled database, so `Recover` can
bring back exactly what that copy knew, into servers with any KEK.

**`Accounts`**: the bootstrap of every start, the setup link, invitations, alterations of a member
and the rotation of a password. Better-Auth's writes and this program's are separate steps, and
`WriteThrows` and `Crash` fall between any two. `linked` (history) marks the administrators of the
setup link, who chose their own password unless the account was there before.

**`Configuration`**: the rows an operator makes, the two statements of a removal, and a backup as far as
it reads and writes them. Objects lie at an address, the one their backup read of its destination
(`via`), while a deletion looks at the one the destination has by now; `strayed` (history) is the
backups whose destination was given another since. `DeleteRow` carries the database's relations:
`Restrict` for policies and artifacts, `SetNull` for jobs. `refused` is the guard's answer, abstracted
to a set of addresses.

**`Delivery`**: the guard itself, over addresses as bytes, with its order of rules (allow, own names,
deny and always-denied ranges, own addresses) and the cache of own addresses; and every caller with its
record: deliveries, probes, canaries, the forms that ask before they store, and the `Lookers`
(discovery, a job's bucket), which keep none. The own names are resolved one after another while others
overtake and services move, and what is cached is as old as the start of its resolution. `own` is what
each of these names answers with and `since` the tick since which it does: the cache may miss an address
for its lifetime after that, and no longer. `JobDials` is a job's connection to its target, which asks
nobody; `unasked` keeps those apart from `dialled`. `Reserved` says in ranges of bytes, for the
property, what the six masked ranges of `AlwaysDenied` are to cover.

**`Engines`**: a target, its server and its last artifact; a dump, a restore and a verify of it, each
planned as the code plans it. The tools are modelled by what their flags make them do: a record says
which databases a dump copies, whether its script carries `USE`, where a restore writes. `secure` and
`ca` are the row; `tls` is the mode computed from it.

**`RestoreJob`**: one worker process that takes restores from the queue. `rpc` follows `runRestoreJob`
into `runRestorePipeline` and back; `failed` is the error on its way out, so that `Tidy`, `Unmount` and
`Release` are the `finally` blocks they model, in their order, each of which may fail: a credential file
that stays keeps its slot (`lost`), a directory that stays has given its slot back and waits for the
collection (`orphaned`). What a gate judges is in `Engines`; here it passes or refuses.

**`ContainerRun`**: `DockerRunner.run` and `withEphemeralService` as one program counter, the
container, its output stream, the sink and the consumer behind it. The daemon's answers are actions
of their own, so that the signal, the end of the stream, the exit status and the timeout come in any
order.

`MC...` modules extend these with values for TLC. `MCAdministration` (`Accounts`, `Configuration`,
`Delivery`) and `MCExecutors` (`Engines`, `RestoreJob`, `ContainerRun`) are disjoint sums: the
components share no variable, `part` says at the start which one a behaviour is about, and the others
stay at one initial state. The reachable states are those of the three modules side by side, not
their product, and a property of one of them is checked over all its behaviours.

## 4. Runs

| Run | Question | Result |
| --- | --- | --- |
| `worker` | Do two replicas with two jobs, a crash, a failed write and a SIGTERM keep the ledger? | holds |
| `worker_lossy` | Without trust in the lock connection: no double run, and are queued jobs taken and containers removed? | holds |
| `backup` | Whatever fails where, do row, objects, directories and job agree, and is scratch reclaimed? | holds |
| `verify` | Does every state of an artifact follow from bytes read, and does every sandbox go? | holds |
| `catalog` | Do retention, deletion, rebuild and backups leave what was promised, and rows and objects that agree? | holds |
| `tick` | Are windows, alerts and events not lost, and is a stalled verification told? | holds |
| `vault` | Can everything sealed be opened, and every SUCCEEDED self-backup be recovered from? | holds |
| `administration` | Are shared passwords rotated, bootstraps finished, policies runnable, backups remembered, dials guarded? | holds |
| `executors` | Do dumps, restores, verifies and the containers they run in end as their rows say? | holds |
| `verify_swept` | Is an artifact condemned only on evidence when the sweep removes the sandbox in use? | no: the tool's exit code is read as a verdict |
| `vault_rotation` | Is there at most one active key of a type? | no: two rotations that both read the outgoing key create two successors |
| `restore_overwrite` | Does an unconfirmed restore write no database that holds data? | no: the gate weighs the target's scope, a script writes every database it was dumped with |

The last three are findings: the code does not do what one of its own comments says.
`PROJECT.json` quotes the sentence each contradicts.

**Known not to hold.** Modelling met these as well; the model has the behaviour, a property stated
without it would fail, and the properties above are stated so as to leave it out:

- Orphan recovery runs once per boot and is skipped while a dead process's session holds the lock
  (`server.ts:224`): the row stays `RUNNING` until a later boot. `BackupJob` has no owner column, so
  nothing else can tell.
- The INSERT of an artifact commits and its answer is lost (`backup.ts:164`): the objects are
  discarded under the row. The `backup` run has `MaxLost = 0`; with 1, `RowHasItsObjects` fails.
- The state of an artifact and the level it was reached at are two writes (`worker-wiring.ts:1437`):
  after a crash between them a CHECKSUM green can read as a FULL_RESTORE green. `GreenReadTheBytes`
  compares them only where nothing failed.
- A rebuild that overlaps a backup imports its row between manifest and INSERT; the backup fails on
  the unique key and discards the objects (`backup.ts:173`). `CatalogMatchesBucket` excludes rebuilds.
- VERIFICATION_BEHIND closes on the tick after it opened, because its anchor is then younger than the
  gap (`evaluate.ts:92`), and says that artifacts are verified again.
- Two requests that demote the last two administrators each count two (`members.ts:118`).
- A policy deleted between the count and the DELETE takes the `policyId` of a job enqueued in between
  (`routes/wiring.ts:195`): its artifact is in no retention cycle and is kept for ever, as are those
  of a rebuilt job row.
- A FULL_RESTORE condemns whenever a tool exits non-zero (`verify-wiring.ts:40`), whatever the reason,
  and, but for PostgreSQL, when a target was rescoped after its dump and the rows are counted in a
  database the archive does not hold (`worker-wiring.ts:1111`). `CondemnedOnEvidence` names both.
- The objects and the row of a job whose SUCCEEDED write fails, or which dies before it, stay
  (`backup.ts:166`). The job is FAILED, and later cycles count its artifact for `keepLast` like any other
  (`worker-wiring.ts:1746` asks for no job's state), so it costs an older copy, which `worker.ts:110` says
  a failed backup must never do. The promise of `PromiseKept` is over the rows, not over the jobs.
- A mongo `--config` file that cannot be removed keeps its reservation: the slot is lost and the
  collection passes over the directory until the process restarts (`worker-wiring.ts:864`,
  `restore-executor.ts:310`). `ScratchIsReclaimed` and `ScratchIsGivenBack` name this case.
- A destination may be given another endpoint (`destinations.ts:65`, which withholds bucket and prefix
  so that the catalogue stays right). A deletion then finds nothing at the new one, takes that for success
  and removes the row (`routes/wiring.ts:622`), and so does retention, while the objects lie at the old
  one. `BackupsAreNotForgotten` leaves out backups that strayed this way.
- "The one gate every outbound connection to an operator-supplied address goes through"
  (`egress/guard.ts:4`) is not that for the worker: its probes and executors connect to `target.host`
  without asking (`worker-wiring.ts:812`, `worker-wiring.ts:1563`). `EveryDialIsGuarded` speaks of what
  asks: requests, deliveries and whatever opens a bucket.
- A probe that answers after the target was edited is recorded on the new address
  (`routes/wiring.ts:664`).
- The readiness probe of a sandbox has no timeout (`docker.ts:260`): a daemon that keeps silent in it
  holds the verification, and the worker, for ever.

**Bounds.** `worker`: two replicas are the smallest number that can contend, two jobs the smallest with
an order, one crash plus one failed write plus one SIGTERM reach every recovery path; states are taken
up to the symmetry of the replicas, which no action tells apart. `worker_lossy` has one job and two
crashes, which is a crash of either replica and of the one that took over; symmetry is off because it
checks liveness. `backup`: two jobs, so that one can trip over the leftovers of the other, one slot, so
that a lost one is felt at once, two failing calls (a failure, and a failure of its clean-up) and a
crash. `verify`: two verifications, so that the second meets what the first wrote, two damages (both
objects, an object and the row, or one of these and a new scope), a crash, a failed write; tools may
fail at any time. `catalog`: four backups over weeks of two and years of three days, so that buckets are
shared and straddle, three settings, one disturbance of any kind, except that a rebuild may answer a
loss. `tick`: one window, two policies (one unreadable), two channels or none, a gap of two units so
that ticks fall inside it, a batch limit of two for three events, one edit or abort. `vault`: two
servers and two KEKs, `MaxKeys = 3` (a pair and one successor), one seal, one self-backup, one trouble:
the loss of the database is one, and the recovery from it is free. `administration`: two users (an
administrator and another), two requests that race, two setup tokens (one per start), one trouble; one
row of each kind, two addresses, two clients, one job and two changes (an edit, and a restart or an edit
back); one row, two callers, one of which also looks without keeping a record, two names of the
deployment and two addresses for them, one of which a foreign server has as well, a cache that lives one
tick, one redirect, two events (a service moves, time passes). The addresses are neighbours across the
ends of the ranges they test, and one is an IPv4 address in IPv6 dress. `executors`: two databases (one
selected, one not), versions up to two, one edit or change of the server between two jobs; two restores,
two mishaps, and three slots, one more than mishaps can lose, so that a restore that waits for ever is a
defect and not the bound; two daemon faults, since a failed start whose removal fails takes both.

**Deadlock** is checked in the worker's and the scheduler's runs, which never stop. In the others
the bounded numbers of jobs, requests and faults let the model come to rest, so their runs switch it
off.

**Fairness.** A process step is weakly fair: an `async` function whose next call answers goes on,
and calls have timeouts. The container restart policy makes booting weakly fair; in `Accounts` that
is `Start` and the bootstrap's own writes, and nothing is assumed of requests. Taking a lock that
others keep taking (`TickTryLock`, `SweepTryLock`) and sweeps or collections that need a moment
without a job (`Sweep`, `Gc`) are strongly fair: their timers re-arm for ever, so an opportunity
that keeps coming back is met. So is `Elapse`: time passes. PostgreSQL ends a dead session in
the end (keep-alive). In `ContainerRun` the caller's own steps and its timer are fair (`Call`) and
nothing is assumed of the daemon, of a removal that hangs, or of a readiness probe. Nothing is assumed
of operators, of the environment's failures or of jobs being queued.

**Types.** Each module states its type invariant (`TypeOK`, or prefixed where modules are composed).
They are not in the runs' lists: each is proved, for every value of the constants (section 5).

**Mutants.** Each property of a passing run has a definition, marked `Mutant:` in its module, that
changes the model the way a plausible bug would; TLC finds the property violated when it is used in
place of the original. Several are defects the code's comments say it once had.

## 5. Proofs

A theorem holds for every value of the constants: any number of replicas, jobs, keys, rows, faults.
Each area has one module, with the same layout: an inductive invariant `IInv` in named parts, each
part with a comment; lemmas that say once what a step may do to the state a part speaks of; one
lemma per part, with a case per group of actions; and the theorems, which follow from `IInv` alone or,
for an action property, from `IInv` and one step. What each invariant adds to the property, and why
it is needed, is said below. All assumptions are in the modules that declare the constants and are
evaluated by TLC in the runs: bounds are naturals and model values are distinct
(`BoundsAssumption`, `NamesAssumption`, `BackupBounds`, ...), and what else the code gives is named
where it is used.

### `WorkerProofs`

- `TypeCorrect`: `Spec => []TypeOK`.
- `AtMostOneRun`: `SpecLossy => []NoDoubleRun`. No two processes have the same job in hand, even
  if lock connections break: the atomic claim alone is enough.
- `OneDrainer`: `Spec => []SingleDrainer`.
- `RecoveryIsSafe`, `SweepIsSafe`: the action properties `RecoverySparesLiveJobs` and
  `SweepSparesOtherReplicas`.
- `ShutdownSparesTheQueue`: `SpecLossy => []ShutdownBurnsAtMostOne`.
- `WorkerKeepsTheLedger`: `Spec => ImplementsLedger`, the refinement of `JobLedger`.

`IInv` conjoins `TypeOK`; `LockCounts` (a holder has something to give back,
a free lock has nothing), without which a release could leave the type; `HandInv` (a job is in
hand exactly between claim and end), without which two processes could be at work on one row; `PhaseInv`
(which loops run in which phase of a process's life); `NoDoubleRun`; and `SessionInv`, the heart of
it: a process that is draining, sweeping or recovering and in session holds the lock, with a
depth that counts exactly the loops inside. `SingleDrainer` follows from `SessionInv` at once:
two holders are one. The action properties follow from `IInv` and one step: only boot recovery takes
a row it does not hold from `RUNNING`, and it holds the lock, so nobody in session is draining. For
the shutdown, `LateInv` says that a process that has claimed after the signal is past the one claim
that was on its way, and asks for no other.

The refinement is proved step by step. `reachable` is mapped to the replicas in session, so a
lemma (`PhasesMakeReachable`) says when a step leaves it alone. Then each group of actions is a step
of the ledger or a stutter: a claim takes the oldest pending row, the settling steps report for the
one who has the job, a death or a disconnection lets go, and boot recovery writes off rows that
nobody reachable has in hand, which is where `SessionInv` is needed.

### `BackupProofs`

- `BackupTypes`; `RowsHaveObjects`: `[](lost = 0 => RowHasItsObjects)`; `GreenIsBackedUp`:
  `[]SucceededIsBackedUp`; `PlainFailuresAreClean`: `[]PlainFailureLeftNothing`.

`lost` counts INSERTs that committed with an error for an answer. With one, `RowHasItsObjects` is
false (section 4), so the theorem says when it is true; the run has `MaxLost = 0`, the other two
theorems hold for any number. `RunsInv` states the properties of every job. What makes it
inductive is about the job in hand: a key is recorded before it is written, so what is not in
`written` is not in the bucket (`HandInv`); by each step of the pipeline the objects before it are
whole (`UploadInv`); and the flag `persisted` is up exactly when the row was seen to be created, is
never up where objects are discarded, and nothing is left to discard once a failure is plain (`FlagInv`).

### `VerifyProofs`

- `VerifyTypes`; `CondemnedForCause`: `[](kills = 0 => CondemnedOnEvidence)`; `GreenIsRead`:
  `GreenReadTheBytes`.

`CondemnedOnEvidence` says that a FAILED artifact has a damaged object, or was condemned by a FULL_RESTORE
for one of the two causes that the code does not tell from damage: a tool's own exit and, but for
PostgreSQL, a count in a database it does not hold.

`kills` counts sandboxes that a sweep took from a verification in progress, of which `verify_swept` shows
that one is enough to condemn a good artifact. `ReadInv`: damage is not undone, so
what was read bad is bad still; and a job that counts where the archive has nothing is not PostgreSQL's.
`AttemptInv`: what is read and standing at each step, so that the exit
code of a tool is that of a tool with a sandbox. `VerdictInv`: what a verdict rests on at the moment it
is written. `RowInv`: what stands on the row, and that only a failed write or a crash lets the level
differ from what was proven.

### `CatalogProofs`

- `CatalogTypes`; `RebuildCovers`: `[]RebuildCoversBucket`; `CatalogMatches`:
  `[]CatalogMatchesBucket`; `ProvenCopyStays`: `ProvenCopySurvives`; `PromisesAreKept`:
  `[]PromiseKept`, for every calendar, every policy and any number of backups.
- `KeptIsPromised`: `resolveRetention` keeps of a set of copies what `Promised` says and what it is told
  to keep, and nothing else.

`ClockInv` (nothing is there of a backup not yet taken, and whoever is at work is at work on one that
is) and `HandInv` (until its manifest is written nobody else knows of a backup; where a row is about
to go, its objects are gone) hold always. `RebuildInv` is the loop invariant of a rebuild: what it saw
and has behind it has a row, or no manifest any more. `MatchInv` is `CatalogMatchesBucket` with the
artifacts that somebody has in hand named. `WholeInv` and `CycleInv` carry `ProvenCopySurvives` from the
listing of a cycle to its last delete: all that is proven is listed, the newest proven copy whose
manifest was read is told to stay (`ResolveSpares`), and a proven artifact that is still to be deleted is
outlived by another.

`KeptIsPromised` is about the algorithm alone. The sort is a `CHOOSE` of a decreasing sequence, so the
first thing proved is that there is one (`CopiesSort`) and that it meets every copy once, newest first
(`SortedCopies`); among the first `i` copies are then exactly those with fewer than `i` newer ones
(`KeepLastCounts`). The loop of `addPeriodic` has the invariant that, after `i` turns, what is kept is
what the promise keeps of the first `i` copies, and the buckets seen are theirs as long as there are
fewer than asked for (`LoopRuns`, `PeriodicKeeps`). The buckets are numbered forward in time, so a full
set of seen buckets stays ahead of every older copy; this is what `CalendarRunsForward` is for. A
statement about every turn of a loop is proved by its first counterexample (`Iterated`), since the
library's induction theorems are out of reach.

`PromisesAreKept` needs one more fact, and it is the one a reader would doubt: each cycle counts on what
earlier cycles left, and the promise is over all the backups that ever got their row, those of jobs that
failed after it among them. `PromiseGrowsWeaker` says that they agree: what is promised over many copies
at a later time was promised over fewer of them at an earlier one. `PromiseInv` carries it: rows, and
what a cycle lists, are of backups that landed, that is, whose own job inserted the row; the policy a
cycle read is the policy; what is wanted has its row and its objects; and nothing a cycle is still to
delete is wanted. It survives crashes and failing calls between the objects and the row, and no backup
lands in the middle of a cycle.

Newest and oldest are CHOOSEs, so `Smallest`, `Largest` and `FiniteRange` derive least numbers, greatest
numbers and bounds from the well-foundedness of the naturals. Assumption besides bounds:
`CalendarRunsForward`.

### `TickProofs`

- `TickTypes`; `OpenIsTold`: `[]OpenWasTold`; `EventsStayUntilTried`: `[]EventsAreTried`, the safety
  half of `OutboxIsDelivered`.

A pass works on the channels it read: some of them may be gone by now and none is new (`ListInv`).
Between a send and the write that records it, what is about to be recorded was put to every one of
them (`StateInv`, `MarkInv`). So a pass may throw and a process die between the two, and what stands is
an alert sent twice and never one swallowed.

The types are not obvious here: that a job which ends finds a free artifact, and that the outbox has
numbers left, follow from counting. `CountInv` says that the windows opened pay for every job that is due,
pending, running or over, and for three events each. Pending jobs are counted as a set of pairs, so
that the lemmas on cardinalities apply (`OneMore`, `OneLess`). The notifications of a pass are finite
sets in some order, which `FinitelyMany` and `SomeOrder` provide. Assumption: there are finitely
many policies (`TickBounds`).

### `VaultProofs`

- `VaultTypes`; `KeysStaySealable`: `[]AlwaysSealable`; `ArtifactsOpen`: `[]ArtifactsStayOpenable`;
  `CopiesRecover`: `[]SelfBackupsRecover`.

A recovery puts the database inside a self-backup in the place of the one that was lost, so
everything that holds of the one has to hold of every copy: `CopiesInv` says of each snapshot what
`DatabaseInv` says of the database (with keys there is an active one of each type; what is wrapped
is wrapped under the recorded KEK; an artifact that is not sealed names an operational key; identities not
generated yet have no row). `BootInv`: a server that is up has the KEK the database is bound to.
`HoldInv`: what a server read before an await is still what it was, since a row never changes its type
and goes only with every server that read it. `SelfInv`: one self-backup at a time, whole and sealed
to an escrow key from the moment it may be recorded. `VaultBounds` asks for at least one self-backup
(`MaxSelf >= 1`).

### `AdministrationProofs`

`Accounts`: `AccountTypes`, and `SharedPasswordsOwe`: `[]SharedPasswordsAreRotated`. The property alone
is not inductive: a role is given several awaits after the password was set and the flag raised.
`AccountInv` carries the debt from the one to the other (a process about to grant a role has an account
that owes, or one of the link), and says that an account with a role exists, so that no sign-up can make
its password shared, and that a password being changed is already its owner's, so that the hook may
clear the flag.

`Configuration`: `ConfigurationTypes`, `PoliciesAreRunnable`: `[]PoliciesStayRunnable`, and
`NothingIsForgotten`: `BackupsAreNotForgotten`.
The count before a delete proves nothing, since others act in between, and no lemma uses it. What the
invariant rests on is the delete itself (`DeleteRow` keeps a row that is referred to) and the
inserts that refuse a row that is gone. `PolicyInv` says so of policies, and of the scope of every
target, read or not. `CatalogInv` adds that a running backup has a destination of its policy
(`RunInv`), that a catalogued one is over, so nothing uploads its objects again (`ArtifactInv`), and
that a deletion that is about to remove the row has removed the objects (`ForgetInv`), which it finds
where their backup read its destination to be, unless that moved since (`StrayInv`). Assumption
besides bounds: `ConfigurationNames` (ids are of one kind).

`Delivery`: `DeliveryTypes`, and `DialsAreGuarded`: `DeliverySpec => EveryDialIsGuarded`. Three things
meet in it. The rules: `ReservedIsDenied` says that the six ranges of `ALWAYS_DENIED`, read bit by bit
as the guard reads them, hold every reserved address; each mask is a fact about one byte (`MaskNone`,
`MaskTwo`, `MaskAll`). The cache: it misses none of the deployment's own addresses but one that came
after its resolution began (`CacheInv`), and what waits for it has passed every other rule and misses,
of the names it has asked, no address but one that came meanwhile (`LookInv`), so a decision on a cache
that another request filled is off by its lifetime and the resolution at most. And the callers: a row is
of the kind its caller took it for, unless it is gone or is still to be made by this caller alone, and
who talks has dialled (`CallersInv`), so a row says something of its last attempt only if a guarded
connection was opened (`RowInv`). The theorem is about what asks the guard; of `JobDials` it says that
it puts nothing on a row. Assumption: a cache lives at least a tick (`DeliveryBounds`).

### `ExecutorsProofs`

`ContainerRun`: `ContainerTypes`, `NothingIsLeft`: `[]NothingIsLeftRunning`, `OutcomesAreEarned`:
`OutcomeIsEarned`, and `NoReaderIsStranded`, the safety half of `UploadUnblocks`: the sink has ended
before the container is told to go.
The invariant says that there is no container before one was asked for, that an exit that was waited
for is the container's, and that no race goes on under a signal (the listener is added and the
signal read again in one step, `Wire`).

`RestoreJob`: `RestoreTypes`, `ScratchComesBack`: `[]ScratchIsGivenBack`, and `LedgerTells`:
`LedgerTellsTheRestore`. `ProgressInv` says how much of the plan has been applied at each step, so that
SUCCEEDED is written over the whole of it; `AuditInv` that nothing past the audit lacks its entry;
`SlotInv` accounts for every slot (the job's own, or lost with its credential file) and `FileInv` for
every file (by the place the job is in, or with a lost reservation, or in a directory left to the
collection).

`Engines`: `EnginesTypes`, `TlsStays`: `[]TlsIsNotDropped`, `FullRestoreSaw`: `[]FullRestoreSawTheData`,
and the action properties `DumpsHold`, `RestoresConfined` and `OneInstant`. What is between a dump and
the restore of it is the artifact's row, so the invariant is about what the row may be trusted to say of
the content (`ArtifactInv`: a script without `USE` does not write the system database, a stream that is said
to hold one database holds one, an oplog is mongodb's), what the probe found (`ProbeInv`), and that a
restore under way passed the gates for the artifact that is there (`AskInv`). `DumpShape` and
`RestoreShape` state once, adapter by adapter, what the tools' flags amount to.

## 6. Only model-checked

- Liveness (`PendingIsClaimed`, `AbandonedContainersSwept`, `ScratchIsReclaimed`, `SandboxGoes`,
  `WindowsAreDispatched`, the `[]<>(outbox = {})` of `OutboxIsDelivered`, `StalledVerificationIsTold`,
  `BootstrapFinishes`, `UploadUnblocks`), which the prover cannot reach.
- The counterexamples of the last three runs.

## 7. Not modelled

- The web interface, images, scripts, CI: no logic the server relies on. It is a
  large share of the repository's lines, and what it decides the API decides again.
- Of engines: tool versions and image names, the clamp of a job's parallelism, which roles a globals
  dump keeps, the classification of driver errors.
- Of the guard: reading an address from text, and a foreign name that answers one thing to the check
  and another to the socket, which the guard's own comment says it does not see.
- Of webhooks: the method and payload after a redirect (a 303 turns the delivery into a GET, and a 200
  to that is recorded as one).
- Sessions and tokens of better-auth, several organizations at once, the audit trail (but for a
  restore's), logging, health, settings of a single row.
- The ciphers: age and AES-GCM are taken to work.
- Within the modelled parts: several destinations of one policy, a destination that is gone when an
  artifact is deleted, cron arithmetic, the day that delivered outbox rows are kept, the columns in
  which a channel records its last failure, resource limits of containers.
