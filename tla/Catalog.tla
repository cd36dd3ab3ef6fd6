------------------------------- MODULE Catalog -------------------------------
(***************************************************************************)
(* The catalog (Artifact and BackupJob rows) and the bucket (objects and   *)
(* manifests) of one policy on one destination, and everything that moves  *)
(* either: backups landing, verification, the retention cycle, the         *)
(* artifact deletion of the API and the catalog rebuild.                   *)
(*                                                                         *)
(* The worker runs one job at a time (module Worker); the two API handlers *)
(* run beside it and beside each other.  An artifact is named by the time  *)
(* its backup was taken.  What one backup and one verification do inside   *)
(* are the modules BackupJob and VerifyJob.                                *)
(***************************************************************************)
EXTENDS RetentionWindow
Sets == INSTANCE FiniteSetsExt

CONSTANTS
  Policies,     \* the retention settings the policy may have
  Allowed,      \* bound on each kind of disturbance
  MaxTotal      \* bound on all of them together

(* Edits of the policy, deletions over the API, catalog rebuilds, losses of*)
(* the metadata database, process crashes and calls that throw.            *)
Kinds == {"edit", "delete", "rebuild", "loss", "crash", "fault"}

ASSUME CatalogBounds ==
  /\ IsFiniteSet(Times) /\ Times = 1..Cardinality(Times)
  /\ \A p \in Policies : IsPolicy(p)
  /\ Allowed \in [Kinds -> Nat] /\ MaxTotal \in Nat

Objects == {"data", "manifest"}
(* Nothing here tells UNOBSERVED from FAILED: retention and deletion only  *)
(* ask whether an artifact is VERIFIED.                                    *)
States  == {"none", "unproven", "VERIFIED"}

VARIABLES
  now,       \* the clock: when the latest backup was taken
  policy,    \* the BackupPolicy row
  objs,      \* what the bucket holds of each artifact
  row,       \* Artifact.state, "none" without a row
  rowAt,     \* the order of Artifact.createdAt
  job,       \* the BackupJob row: "none", "linked" to the policy, "loose"
  landed,    \* history: the backups whose own job has inserted their row
  prunes,    \* retention jobs that wait
  pc,        \* where the worker's job is
  cur,       \* the artifact in hand
  verdict,   \* the result of the verification in hand
  asked,     \* the policy as the job in hand read it, once, when it started
  todo,      \* retention: the artifacts listed, then those to delete
  api,       \* the deletion in progress: [pc, t]
  reb,       \* the rebuild in progress: [pc, seen, todo]
  spent      \* how many disturbances of each kind there have been

worker == <<pc, cur, verdict, asked, todo>>
bucket == objs
rows   == <<row, rowAt, job>>
vars   == <<now, policy, objs, rows, landed, prunes, worker, api, reb, spent>>

WorkerPcs == {"idle", "manifest", "persist", "discard", "succeed", "chain", "record",
              "list", "read", "resolve", "objects", "row", "down"}

NoPolicy == [last |-> 0, every |-> [r \in Rules |-> 0], minAge |-> 0]

TypeOK ==
  /\ now \in Times \cup {0} /\ policy \in Policies
  /\ objs \in [Times -> SUBSET Objects]
  /\ row \in [Times -> States] /\ rowAt \in [Times -> Nat]
  /\ job \in [Times -> {"none", "linked", "loose"}]
  /\ landed \subseteq Times /\ prunes \in 0..Cardinality(Times)
  /\ pc \in WorkerPcs /\ cur \in Times \cup {0}
  /\ verdict \in {"VERIFIED", "unproven", "INCONCLUSIVE"}
  /\ asked \in Policies \cup {NoPolicy} /\ todo \subseteq Times
  /\ api \in [pc : {"idle", "objects", "row"}, t : Times \cup {0}]
  /\ reb \in [pc : {"idle", "scanned", "import"}, seen : SUBSET Times, todo : SUBSET Times]
  /\ spent \in [Kinds -> Nat] /\ \A k \in Kinds : spent[k] <= Allowed[k]

ApiIdle == [pc |-> "idle", t |-> 0]
RebIdle == [pc |-> "idle", seen |-> {}, todo |-> {}]

Init ==
  /\ now = 0 /\ policy \in Policies
  /\ objs = [t \in Times |-> {}]
  /\ row = [t \in Times |-> "none"] /\ rowAt = [t \in Times |-> 0]
  /\ job = [t \in Times |-> "none"]
  /\ landed = {} /\ prunes = 0
  /\ pc = "idle" /\ cur = 0 /\ verdict = "INCONCLUSIVE" /\ asked = NoPolicy /\ todo = {}
  /\ api = ApiIdle /\ reb = RebIdle
  /\ spent = [k \in Kinds |-> 0]

Latest(S) == CHOOSE t \in S : \A u \in S : u <= t
Rowed == {t \in Times : row[t] # "none"}
Goto(from, to) == pc = from /\ pc' = to
(* A rebuild that answers a loss is on the house.                          *)
Total == Sets!MapThenSumSet(LAMBDA k : spent[k], Kinds \ {"rebuild", "loss"})
         + (IF spent["rebuild"] > spent["loss"] THEN spent["rebuild"] ELSE spent["loss"])
Spend(k) ==
  /\ spent[k] < Allowed[k]
  /\ Total < MaxTotal \/ (k = "rebuild" /\ spent["rebuild"] < spent["loss"])
  /\ spent' = [spent EXCEPT ![k] = @ + 1]
Fault == Spend("fault")
Never(K) == \A k \in K : spent[k] = 0

(* The end of a job: its locals go with it.                                *)
Forget == cur' = 0 /\ verdict' = "INCONCLUSIVE" /\ asked' = NoPolicy /\ todo' = {}
Done == pc' = "idle" /\ Forget
Hands == <<now, policy, landed, prunes, api, reb>>   \* what most worker steps leave alone

(* Artifact.createdAt is the time of the insert.                           *)
LaterThanAll == 1 + CHOOSE n \in {rowAt[t] : t \in Times} : \A t \in Times : rowAt[t] <= n
InsertRow(t) ==
  /\ row' = [row EXCEPT ![t] = "unproven"]
  /\ rowAt' = [rowAt EXCEPT ![t] = LaterThanAll]
RemoveRow(t) ==
  /\ row' = [row EXCEPT ![t] = "none"] /\ rowAt' = [rowAt EXCEPT ![t] = 0]

(* Mutant: the data stays behind, as it once did under another key.        *)
DeleteManifestOnly(t) == objs' = [objs EXCEPT ![t] = @ \ {"manifest"}]

(* DeleteObjects over every key of the artifact.  Absent keys are fine.    *)
DeleteObjects(t) == objs' = [objs EXCEPT ![t] = {}]
(* It reports per-object failures, and the driver throws.                  *)
DeleteObjectsThrows(t) ==
  /\ Fault
  /\ \E left \in SUBSET objs[t] : objs' = [objs EXCEPT ![t] = left]

-----------------------------------------------------------------------------
(* A backup job: the objects, the manifest, the row.                       *)

Upload ==
  /\ Goto("idle", "manifest")
  /\ now + 1 \in Times /\ now' = now + 1 /\ cur' = now + 1 /\ asked' = policy
  /\ job' = [job EXCEPT ![now + 1] = "linked"]
  /\ objs' = [objs EXCEPT ![now + 1] = {"data"}]
  /\ UNCHANGED <<policy, row, rowAt, landed, prunes, verdict, todo, api, reb, spent>>

WriteManifest ==
  /\ Goto("manifest", "persist")
  /\ objs' = [objs EXCEPT ![cur] = @ \cup {"manifest"}]
  /\ UNCHANGED <<Hands, rows, cur, verdict, asked, todo, spent>>

(* The row is inserted: from here on the objects are the artifact's.       *)
Persist ==
  /\ Goto("persist", "succeed")
  /\ row[cur] = "none" /\ InsertRow(cur)
  /\ landed' = landed \cup {cur}
  /\ UNCHANGED <<now, policy, objs, job, prunes, cur, verdict, asked, todo, api, reb, spent>>

(* The manifest cannot be written or the row not inserted.  jobId is       *)
(* unique: a row somebody else inserted is a throw as well.                *)
PersistThrows ==
  /\ \/ Goto("manifest", "discard") /\ Fault
     \/ Goto("persist", "discard") /\ Fault
     \/ Goto("persist", "discard") /\ row[cur] # "none" /\ UNCHANGED spent
  /\ UNCHANGED <<Hands, bucket, rows, cur, verdict, asked, todo>>

(* discardObjects, best effort; the job is FAILED.                         *)
Discard ==
  /\ pc = "discard" /\ Done
  /\ \/ DeleteObjects(cur) /\ UNCHANGED spent
     \/ DeleteObjectsThrows(cur)
  /\ UNCHANGED <<Hands, rows>>

(* The SUCCEEDED write.  If it throws the job is FAILED, and since there is*)
(* a row by now nothing is discarded; nothing is chained either.           *)
Succeed ==
  /\ pc = "succeed"
  /\ \/ pc' = "chain" /\ UNCHANGED <<cur, verdict, asked, todo, spent>>
     \/ Fault /\ Done
  /\ UNCHANGED <<Hands, bucket, rows>>

(* The retention job is enqueued by what the policy said when the backup   *)
(* began.  A throw is logged, and the job stays SUCCEEDED.  (The verify job*)
(* goes first; a verification is possible at any time here.)               *)
Chain ==
  /\ pc = "chain" /\ Done
  /\ \/ prunes' = prunes + (IF IsConfigured(asked) THEN 1 ELSE 0) /\ UNCHANGED spent
     \/ Fault /\ UNCHANGED prunes
  /\ UNCHANGED <<now, policy, landed, bucket, rows, api, reb>>

Backup ==
  \/ Upload \/ WriteManifest \/ Persist \/ PersistThrows \/ Discard \/ Succeed \/ Chain

-----------------------------------------------------------------------------
(* A verify job, chained or asked for: the bytes, then the row.  Bytes that*)
(* are there may be good, bad or out of reach; without them nothing is     *)
(* proven (module VerifyJob says which).                                   *)

Judge ==
  /\ Goto("idle", "record")
  /\ \E t \in Rowed :
       /\ cur' = t
       /\ verdict' \in {"unproven", "INCONCLUSIVE"} \cup
                       (IF "data" \in objs[t] THEN {"VERIFIED"} ELSE {})
  /\ UNCHANGED <<Hands, bucket, rows, asked, todo, spent>>

(* An UPDATE by id: without a row it throws and nothing is written.        *)
Record ==
  /\ pc = "record" /\ Done
  /\ IF verdict = "INCONCLUSIVE" \/ row[cur] = "none" THEN UNCHANGED row
     ELSE row' = [row EXCEPT ![cur] = verdict]
  /\ UNCHANGED <<Hands, bucket, rowAt, job, spent>>

Verify == Judge \/ Record

-----------------------------------------------------------------------------
(* The retention cycle.                                                    *)

(* It reads the policy, once.                                              *)
StartRetention ==
  /\ Goto("idle", "list")
  /\ prunes > 0 /\ prunes' = prunes - 1 /\ asked' = policy
  /\ UNCHANGED <<now, policy, bucket, rows, landed, cur, verdict, todo, api, reb, spent>>

(* Edited to keep nothing since the job was chained: abort before any I/O. *)
RefuseUnconfigured ==
  /\ pc = "list" /\ ~IsConfigured(asked) /\ Done
  /\ UNCHANGED <<Hands, bucket, rows, spent>>

(* The artifacts of this policy's backups.                                 *)
ListArtifacts ==
  /\ Goto("list", "read") /\ IsConfigured(asked)
  /\ todo' = {t \in Rowed : job[t] = "linked"}
  /\ UNCHANGED <<Hands, bucket, rows, cur, verdict, asked, spent>>

Unreadable == {t \in todo : "manifest" \notin objs[t]}
(* One unreadable manifest aborts the cycle.  (Another replica, or the     *)
(* bucket, may also make a manifest unreadable for the moment: a fault.)   *)
RefuseIncompleteView ==
  /\ pc = "read" /\ Done
  /\ \/ Unreadable # {} /\ UNCHANGED spent
     \/ Fault
  /\ UNCHANGED <<Hands, bucket, rows>>
LoadManifests ==
  /\ Goto("read", "resolve") /\ Unreadable = {}
  /\ UNCHANGED <<Hands, bucket, rows, cur, verdict, asked, todo, spent>>

(* Mutant: the newest artifact, whatever its state.                        *)
NewestOfAny ==
  LET linked == {t \in Rowed : job[t] = "linked"}
  IN  {t \in linked : \A u \in linked : rowAt[u] <= rowAt[t]}

(* newestVerifiedJobId, by the catalog's createdAt.                        *)
NewestVerified ==
  LET proven == {t \in Rowed : job[t] = "linked" /\ row[t] = "VERIFIED"}
  IN  {t \in proven : \A u \in proven : rowAt[u] <= rowAt[t]}

(* Nothing to delete ends the cycle.                                       *)
Resolve ==
  /\ pc = "resolve"
  /\ LET doomed == todo \ Kept(todo, asked, now, NewestVerified)
     IN  IF doomed = {} THEN Done
         ELSE pc' = "objects" /\ todo' = doomed /\ UNCHANGED <<cur, verdict, asked>>
  /\ UNCHANGED <<Hands, bucket, rows, spent>>

(* deleteArtifact, newest first: the objects, then the row.  A throw ends  *)
(* the cycle with the rest untouched.                                      *)
PruneObjects ==
  /\ pc = "objects"
  /\ \/ /\ DeleteObjects(Latest(todo)) /\ UNCHANGED spent
        /\ pc' = "row" /\ cur' = Latest(todo) /\ UNCHANGED <<verdict, asked, todo>>
     \/ DeleteObjectsThrows(Latest(todo)) /\ Done
  /\ UNCHANGED <<Hands, rows>>

NextDoomed ==
  IF todo = {cur} THEN Done
  ELSE pc' = "objects" /\ todo' = todo \ {cur} /\ UNCHANGED <<cur, verdict, asked>>

PruneRow ==
  /\ pc = "row"
  /\ \/ RemoveRow(cur) /\ NextDoomed /\ UNCHANGED spent
     \/ Fault /\ Done /\ UNCHANGED <<row, rowAt>>
  /\ UNCHANGED <<Hands, bucket, job>>

Retention ==
  \/ StartRetention \/ RefuseUnconfigured \/ ListArtifacts \/ RefuseIncompleteView
  \/ LoadManifests \/ Resolve \/ PruneObjects \/ PruneRow

-----------------------------------------------------------------------------
(* DELETE of an artifact over the API.  A VERIFIED one needs the caller's  *)
(* acknowledgement, which is checked here and not looked at again.         *)

ApiDelete(t) ==
  /\ api.pc = "idle" /\ Spend("delete")
  /\ t \in Rowed
  /\ \E acknowledged \in BOOLEAN : row[t] = "VERIFIED" => acknowledged
  /\ api' = [pc |-> "objects", t |-> t]
  /\ UNCHANGED <<now, policy, bucket, rows, landed, prunes, worker, reb>>

ApiDeleteObjects ==
  /\ api.pc = "objects"
  /\ \/ api' = [api EXCEPT !.pc = "row"] /\ DeleteObjects(api.t) /\ UNCHANGED spent
     \/ api' = ApiIdle /\ DeleteObjectsThrows(api.t)
  /\ UNCHANGED <<now, policy, rows, landed, prunes, worker, reb>>

(* It throws when the row is gone, or when the write fails.                *)
ApiDeleteRow ==
  /\ api.pc = "row" /\ api' = ApiIdle
  /\ \/ RemoveRow(api.t) /\ UNCHANGED spent
     \/ Fault /\ UNCHANGED <<row, rowAt>>
  /\ UNCHANGED <<now, policy, bucket, job, landed, prunes, worker, reb>>

Delete == (\E t \in Times : ApiDelete(t)) \/ ApiDeleteObjects \/ ApiDeleteRow

-----------------------------------------------------------------------------
(* The catalog rebuild.                                                    *)

Scan ==
  /\ reb.pc = "idle" /\ Spend("rebuild")
  /\ LET found == {t \in Times : "manifest" \in objs[t]}
     IN  reb' = [pc |-> "scanned", seen |-> found, todo |-> found]
  /\ UNCHANGED <<now, policy, bucket, rows, landed, prunes, worker, api>>

(* Mutant: a job row is taken for an artifact row.                         *)
SkipExistingJobs ==
  /\ reb.pc = "scanned"
  /\ reb' = [reb EXCEPT !.pc = "import", !.todo = {t \in @ : job[t] = "none"}]
  /\ UNCHANGED <<now, policy, bucket, rows, landed, prunes, worker, api, spent>>

SkipExisting ==
  /\ reb.pc = "scanned"
  /\ reb' = [reb EXCEPT !.pc = "import", !.todo = @ \ Rowed]
  /\ UNCHANGED <<now, policy, bucket, rows, landed, prunes, worker, api, spent>>

(* The manifests come in key order, and job ids sort by creation time.     *)
NextImport == CHOOSE t \in reb.todo : \A u \in reb.todo : t <= u

(* An upsert of the job, which leaves an existing one alone and creates a  *)
(* missing one without a policy; then the row, unproven.                   *)
Import ==
  /\ reb.pc = "import" /\ reb.todo # {}
  /\ row[NextImport] = "none" /\ InsertRow(NextImport)
  /\ job' = [job EXCEPT ![NextImport] = IF @ = "none" THEN "loose" ELSE @]
  /\ reb' = [reb EXCEPT !.todo = @ \ {NextImport}]
  /\ UNCHANGED <<now, policy, bucket, landed, prunes, worker, api, spent>>

(* The row has appeared since, or a call fails: the rest is not imported.  *)
ImportThrows ==
  /\ reb.pc = "import" /\ reb.todo # {} /\ reb' = RebIdle
  /\ \/ row[NextImport] # "none" /\ UNCHANGED spent
     \/ Fault
  /\ UNCHANGED <<now, policy, bucket, rows, landed, prunes, worker, api>>

RebuildDone ==
  /\ reb.pc = "import" /\ reb.todo = {} /\ reb' = RebIdle
  /\ UNCHANGED <<now, policy, bucket, rows, landed, prunes, worker, api, spent>>

Rebuild == Scan \/ SkipExisting \/ Import \/ ImportThrows \/ RebuildDone

-----------------------------------------------------------------------------
(* The environment.                                                        *)

EditPolicy ==
  /\ Spend("edit")
  /\ policy' \in Policies \ {policy}
  /\ UNCHANGED <<now, bucket, rows, landed, prunes, worker, api, reb>>

(* The metadata database is lost, job rows and all, or only artifact rows. *)
LoseCatalog ==
  /\ pc = "idle" /\ api.pc = "idle" /\ reb.pc = "idle"
  /\ Spend("loss")
  /\ row' = [t \in Times |-> "none"] /\ rowAt' = [t \in Times |-> 0]
  /\ \/ job' = [t \in Times |-> "none"] /\ prunes' = 0
     \/ UNCHANGED <<job, prunes>>
  /\ UNCHANGED <<now, policy, bucket, landed, worker, api, reb>>

(* The process dies with everything it was doing.  The job is failed at    *)
(* boot and not retried; an artifact whose row it had inserted stays.      *)
Crash ==
  /\ pc # "down" /\ Spend("crash")
  /\ pc' = "down" /\ Forget
  /\ api' = ApiIdle /\ reb' = RebIdle
  /\ UNCHANGED <<now, policy, bucket, rows, landed, prunes>>
Boot ==
  /\ Goto("down", "idle")
  /\ UNCHANGED <<Hands, bucket, rows, cur, verdict, asked, todo, spent>>

Next ==
  \/ Backup \/ Verify \/ Retention
  \/ pc # "down" /\ (Delete \/ Rebuild)
  \/ EditPolicy \/ LoseCatalog \/ Crash \/ Boot
Spec == Init /\ [][Next]_vars

-----------------------------------------------------------------------------
(* Properties.                                                             *)

(* Nothing is in progress.                                                 *)
Quiet == pc = "idle" /\ api.pc = "idle" /\ reb.pc = "idle"
Undisturbed == Never({"crash", "fault"})

(* What the policy asks to have: what grandfather-father-son retention     *)
(* promises over ALL the backups that ever got their row; all of them, if  *)
(* it has never been told to prune.  That counts the artifact of a job that*)
(* FAILED between its row and its SUCCEEDED write, as the cycle does: it   *)
(* lists rows and asks for no job's state (README, Known not to hold).     *)
Wanted == IF IsConfigured(policy) THEN Promised(landed, policy, now) ELSE landed

(* Pruning after each backup, on what earlier cycles left, keeps it: a     *)
(* cycle never deletes what a later cycle would have wanted (retention.ts: *)
(* "newest of each of the most recent buckets").  Crashes, failing calls   *)
(* and verdicts do not change that; edits, deletions and lost catalogs do. *)
PromiseKept ==
  Never({"edit", "delete", "rebuild", "loss"}) =>
    \A t \in Wanted : row[t] # "none" /\ objs[t] = Objects

(* "The newest copy a verify has proven survives the cycle" (retention.ts):*)
(* a VERIFIED artifact is pruned only while another VERIFIED one, newer    *)
(* unless a rebuild has renumbered the rows, stays with its bytes.         *)
ProvenCopySurvives ==
  [][\A t \in todo :
       /\ pc = "objects" /\ pc' = "row" /\ Never({"delete", "fault"})
       /\ row[t] = "VERIFIED" /\ objs'[t] # objs[t]
       => \E u \in Rowed \ todo :
            /\ row[u] = "VERIFIED" /\ "data" \in objs'[u]
            /\ (spent["rebuild"] = 0 => u > t)]_vars

(* When nothing is in progress, nothing failed and no rebuild has run, the *)
(* catalog and the bucket agree: a row has all its objects, and objects    *)
(* have a row.  Retention and the API delete the same artifact at once,    *)
(* verifications write to rows that go away: it still holds.               *)
CatalogMatchesBucket ==
  Quiet /\ Undisturbed /\ Never({"rebuild", "loss"}) =>
    \A t \in Times : IF row[t] = "none" THEN objs[t] = {} ELSE objs[t] = Objects

(* "Safe to run twice, and safe to run against a catalog that is only      *)
(* partly missing" (catalog-rebuild-wiring.ts): a rebuild that comes to its*)
(* end has a row for every manifest it saw that is still there.            *)
RebuildCoversBucket ==
  (reb.pc = "import" /\ reb.todo = {}) =>
    \A t \in reb.seen : "manifest" \in objs[t] => row[t] # "none"

=============================================================================
