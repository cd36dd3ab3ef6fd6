---------------------------- MODULE Configuration ----------------------------
(***************************************************************************)
(* What an operator configures, and what the rows promise each other:      *)
(* targets, destinations and policies (routes/targets.ts, destinations.ts, *)
(* policies.ts and their stores in routes/wiring.ts), the manual triggers  *)
(* (routes/jobs.ts) and, as far as it reads those rows, a backup.          *)
(* Delivery has the guard and the connections it stands before.            *)
(*                                                                         *)
(* A store counts what still refers to a row, then deletes it: two         *)
(* statements, with other requests, the scheduler and the worker between.  *)
(* The database's own relations are the second lock.                       *)
(***************************************************************************)
EXTENDS Integers

CONSTANTS
  Targets, Destinations, Policies,
  Hosts,       \* the addresses a form may name, each another database or store
  Clients,     \* HTTP requests in flight
  Nothing,     \* no row
  MaxJobs,     \* bound on backup jobs
  MaxChanges   \* bound on edits, and restarts with another egress configuration

ASSUME ConfigurationBounds == MaxJobs \in Nat /\ MaxChanges \in Nat /\ Hosts # {}
(* Ids are of one kind.                                                    *)
ASSUME ConfigurationNames ==
  /\ Targets \cap Destinations = {} /\ Policies \cap (Targets \cup Destinations) = {}
  /\ Nothing \notin Targets \cup Destinations \cup Policies \cup Hosts

Jobs    == 1..MaxJobs
Engines == {"postgres", "mysql", "mongodb"}
Lives   == {"unborn", "there", "gone"}
Addressed == Targets \cup Destinations
Things  == Addressed \cup Policies \cup Jobs

VARIABLES
  life,     \* every configured row: an id is never used again
  host,     \* the address of a target or a destination
  engine, names, \* of a target: its engine, how many databases its scope names
  reads, writes, \* of a policy: its target, its destination
  refused,  \* the addresses the guard of this process refuses
  job,      \* BackupJob.state, "none" without a row
  policyOf, \* BackupJob.policyId
  aims, via, \* the destination a running backup read from its policy, and its address then
  artifact, \* jobs with an Artifact row, ...
  storedIn, \* ... its destinationId, ...
  objects,  \* ... and the address at which the objects of a backup lie
  strayed,  \* history: backups whose destination has got another address since they read it
  doing, about, \* the statement a request goes on with, and its row
  changes  \* edits and restarts so far

settings == <<life, host, engine, names, reads, writes>>
ledger   == <<job, policyOf, aims, via>>
catalog  == <<artifact, storedIn, objects>>
requests == <<doing, about>>
cvars    == <<settings, refused, ledger, catalog, strayed, requests, changes>>

There(x) == life[x] = "there"
Change   == changes < MaxChanges /\ changes' = changes + 1

ConfigurationInit ==
  /\ life = [x \in Addressed \cup Policies |-> "unborn"]
  /\ host = [x \in Addressed |-> CHOOSE h \in Hosts : TRUE]
  /\ engine = [t \in Targets |-> "postgres"] /\ names = [t \in Targets |-> 1]
  /\ reads = [p \in Policies |-> Nothing] /\ writes = [p \in Policies |-> Nothing]
  /\ refused \in SUBSET Hosts
  /\ job = [j \in Jobs |-> "none"] /\ policyOf = [j \in Jobs |-> Nothing]
  /\ aims = [j \in Jobs |-> Nothing]
  /\ via = [j \in Jobs |-> Nothing]
  /\ artifact = {} /\ storedIn = [j \in Jobs |-> Nothing]
  /\ objects = [j \in Jobs |-> Nothing] /\ strayed = {}
  /\ doing = [c \in Clients |-> "idle"] /\ about = [c \in Clients |-> Nothing]
  /\ changes = 0

Proceed(c, x, step) ==
  /\ doing[c] = "idle"
  /\ doing' = [doing EXCEPT ![c] = step] /\ about' = [about EXCEPT ![c] = x]
Reply(c, step) ==
  /\ doing[c] = step
  /\ doing' = [doing EXCEPT ![c] = "idle"] /\ about' = [about EXCEPT ![c] = Nothing]

-----------------------------------------------------------------------------
(* Creating and editing.                                                   *)

(* scopeProblem: one database for postgres, at most one for mongodb.       *)
ScopeProblem(e, n) == (e = "postgres" /\ n # 1) \/ (e = "mongodb" /\ n > 1)

Born(x) == life[x] = "unborn" /\ life' = [life EXCEPT ![x] = "there"]

(* The answer of Delivery's guard, asked by every form that names an       *)
(* address, and by every use of one that is stored.                        *)
Permitted(h) == h \notin refused

(* POST /targets and POST /destinations.                                   *)
CreateTarget(t) ==
  /\ Born(t)
  /\ \E h \in Hosts : Permitted(h) /\ host' = [host EXCEPT ![t] = h]
  /\ \E e \in Engines, n \in 0..2 :
       /\ ~ScopeProblem(e, n)
       /\ engine' = [engine EXCEPT ![t] = e] /\ names' = [names EXCEPT ![t] = n]
  /\ UNCHANGED <<reads, writes, refused, ledger, catalog, strayed, requests, changes>>
CreateDestination(d) ==
  /\ Born(d)
  /\ \E h \in Hosts : Permitted(h) /\ host' = [host EXCEPT ![d] = h]
  /\ UNCHANGED <<engine, names, reads, writes, refused, ledger, catalog, strayed, requests, changes>>

(* PATCH: the address is put to the guard like a new one.                  *)
MoveTarget(t) ==
  /\ Change /\ There(t)
  /\ \E h \in Hosts : Permitted(h) /\ host' = [host EXCEPT ![t] = h]
  /\ UNCHANGED <<life, engine, names, reads, writes, refused, ledger, catalog, strayed, requests>>
(* Bucket and prefix cannot be patched, the endpoint can; what is stored   *)
(* at the old one stays there, and no row says so.                         *)
MoveDestination(d) ==
  /\ Change /\ There(d)
  /\ \E h \in Hosts :
       /\ Permitted(h) /\ host' = [host EXCEPT ![d] = h]
       /\ strayed' = IF h = host[d] THEN strayed
                     ELSE strayed \cup {j \in Jobs : d \in {aims[j], storedIn[j]}}
  /\ UNCHANGED <<life, engine, names, reads, writes, refused, ledger, catalog, requests>>

(* PATCH {scope}: judged by the engine of the row, which never changes.    *)
(* Mutant: judged as a create without an engine would be.                  *)
RescopeAny(t) ==
  /\ Change /\ There(t) /\ \E n \in 0..2 : names' = [names EXCEPT ![t] = n]
  /\ UNCHANGED <<life, host, engine, reads, writes, refused, ledger, catalog, strayed, requests>>
Rescope(t) ==
  /\ Change /\ There(t)
  /\ \E n \in 0..2 : ~ScopeProblem(engine[t], n) /\ names' = [names EXCEPT ![t] = n]
  /\ UNCHANGED <<life, host, engine, reads, writes, refused, ledger, catalog, strayed, requests>>

(* POST /policies: the relations have to be there, or the insert throws.   *)
CreatePolicy(p) ==
  /\ Born(p)
  /\ \E t \in Targets, d \in Destinations :
       /\ There(t) /\ There(d)
       /\ reads' = [reads EXCEPT ![p] = t] /\ writes' = [writes EXCEPT ![p] = d]
  /\ UNCHANGED <<host, engine, names, refused, ledger, catalog, strayed, requests, changes>>

-----------------------------------------------------------------------------
(* Removing: the references are counted, then the row is deleted.          *)

PoliciesOf(x) == {p \in Policies : There(p) /\ x \in {reads[p], writes[p]}}
ArtifactsIn(d) == {j \in artifact : storedIn[j] = d}
JobsOf(p) == {j \in Jobs : job[j] # "none" /\ policyOf[j] = p}

(* The count; with references left it is a 409.                            *)
CountReferences(c, x) ==
  /\ There(x) /\ Proceed(c, x, "remove")
  /\ x \in Addressed => PoliciesOf(x) = {}
  /\ x \in Destinations => ArtifactsIn(x) = {}
  /\ x \in Policies => JobsOf(x) = {}
  /\ UNCHANGED <<settings, refused, ledger, catalog, strayed, changes>>

(* Mutant: the artifacts of a destination go with it.                      *)
DeleteRowCascades(c) ==
  LET x == about[c] IN
  /\ Reply(c, "remove")
  /\ life' = IF PoliciesOf(x) = {} THEN [life EXCEPT ![x] = "gone"] ELSE life
  /\ artifact' = IF PoliciesOf(x) = {} THEN artifact \ ArtifactsIn(x) ELSE artifact
  /\ UNCHANGED <<host, engine, names, reads, writes, refused, ledger, storedIn, objects, strayed, changes>>

(* The delete: restricted by the policies of a target or destination and   *)
(* the artifacts of a destination (the delete throws), while the jobs of a *)
(* policy have their policyId set to null.                                 *)
DeleteRow(c) ==
  LET x == about[c] IN
  /\ Reply(c, "remove")
  /\ life' = IF PoliciesOf(x) = {} /\ ArtifactsIn(x) = {} THEN [life EXCEPT ![x] = "gone"] ELSE life
  /\ policyOf' = [j \in Jobs |-> IF policyOf[j] = x THEN Nothing ELSE policyOf[j]]
  /\ UNCHANGED <<host, engine, names, reads, writes, refused, job, aims, via, catalog, strayed, changes>>

-----------------------------------------------------------------------------
(* Backups: a request or the tick enqueues, the worker runs, an operator   *)
(* deletes.                                                                *)

(* The foreign key of policyId has to hold, or the insert throws.          *)
Enqueue(p) ==
  /\ There(p)
  /\ \E j \in Jobs :
       /\ job[j] = "none" /\ \A i \in Jobs : i < j => job[i] # "none"
       /\ job' = [job EXCEPT ![j] = "PENDING"]
       /\ policyOf' = [policyOf EXCEPT ![j] = p]
  /\ UNCHANGED <<settings, refused, aims, via, catalog, strayed, requests, changes>>

(* Without a policy it fails; else the policy, its target and its          *)
(* destination are read once, the endpoint is put to the guard, and the    *)
(* driver keeps it.                                                        *)
RunBackup(j) ==
  LET p == policyOf[j] IN
  /\ job[j] = "PENDING"
  /\ IF p # Nothing /\ Permitted(host[writes[p]])
     THEN /\ job' = [job EXCEPT ![j] = "RUNNING"]
          /\ aims' = [aims EXCEPT ![j] = writes[p]] /\ via' = [via EXCEPT ![j] = host[writes[p]]]
     ELSE job' = [job EXCEPT ![j] = "ENDED"] /\ UNCHANGED <<aims, via>>
  /\ UNCHANGED <<settings, refused, policyOf, catalog, strayed, requests, changes>>
Upload(j) ==
  /\ job[j] = "RUNNING" /\ objects[j] = Nothing /\ objects' = [objects EXCEPT ![j] = via[j]]
  /\ UNCHANGED <<settings, refused, ledger, artifact, storedIn, strayed, requests, changes>>
(* The artifact row; without its destination the insert throws and the     *)
(* objects are discarded, with the driver that wrote them.                 *)
Persist(j) ==
  /\ job[j] = "RUNNING" /\ objects[j] # Nothing /\ job' = [job EXCEPT ![j] = "ENDED"]
  /\ aims' = [aims EXCEPT ![j] = Nothing] /\ via' = [via EXCEPT ![j] = Nothing]
  /\ IF There(aims[j])
     THEN artifact' = artifact \cup {j} /\ storedIn' = [storedIn EXCEPT ![j] = aims[j]]
          /\ UNCHANGED objects
     ELSE objects' = [objects EXCEPT ![j] = Nothing] /\ UNCHANGED <<artifact, storedIn>>
  /\ UNCHANGED <<settings, refused, policyOf, strayed, requests, changes>>

(* DELETE /artifacts/:id: the objects, at the address the destination has  *)
(* now, where an absent key counts as deleted; then the row.  Without a    *)
(* destination there is no driver, and only the row goes.                  *)
DeleteObjects(c, j) ==
  LET d == storedIn[j] IN
  /\ j \in artifact /\ Proceed(c, j, "forget")
  /\ There(d) => Permitted(host[d])
  /\ objects' = IF There(d) /\ objects[j] = host[d] THEN [objects EXCEPT ![j] = Nothing] ELSE objects
  /\ UNCHANGED <<settings, refused, ledger, artifact, storedIn, strayed, changes>>
DeleteArtifact(c) ==
  /\ Reply(c, "forget") /\ artifact' = artifact \ {about[c]}
  /\ storedIn' = [storedIn EXCEPT ![about[c]] = Nothing]
  /\ UNCHANGED <<settings, refused, ledger, objects, strayed, changes>>

(* The server comes back with another egress configuration; requests and   *)
(* running backups are cut off.                                            *)
Restart ==
  /\ Change
  /\ refused' \in SUBSET Hosts
  /\ doing' = [c \in Clients |-> "idle"] /\ about' = [c \in Clients |-> Nothing]
  /\ job' = [j \in Jobs |-> IF job[j] = "RUNNING" THEN "ENDED" ELSE job[j]]
  /\ aims' = [j \in Jobs |-> Nothing] /\ via' = [j \in Jobs |-> Nothing]
  /\ UNCHANGED <<settings, policyOf, catalog, strayed>>

Edit ==
  \/ \E t \in Targets : CreateTarget(t) \/ MoveTarget(t) \/ Rescope(t)
  \/ \E d \in Destinations : CreateDestination(d) \/ MoveDestination(d)
  \/ \E p \in Policies : CreatePolicy(p) \/ Enqueue(p)
Work == \E j \in Jobs : RunBackup(j) \/ Upload(j) \/ Persist(j)
Request(c) ==
  \/ \E x \in Addressed \cup Policies : CountReferences(c, x)
  \/ DeleteRow(c) \/ DeleteArtifact(c) \/ (\E j \in Jobs : DeleteObjects(c, j))

ConfigurationNext == Edit \/ Work \/ Restart \/ \E c \in Clients : Request(c)
ConfigurationSpec == ConfigurationInit /\ [][ConfigurationNext]_cvars

-----------------------------------------------------------------------------
(* Properties.                                                             *)

ConfigurationTypeOK ==
  /\ life \in [Addressed \cup Policies -> Lives] /\ host \in [Addressed -> Hosts]
  /\ engine \in [Targets -> Engines] /\ names \in [Targets -> 0..2]
  /\ reads \in [Policies -> Targets \cup {Nothing}] /\ writes \in [Policies -> Destinations \cup {Nothing}]
  /\ refused \subseteq Hosts /\ job \in [Jobs -> {"none", "PENDING", "RUNNING", "ENDED"}]
  /\ policyOf \in [Jobs -> Policies \cup {Nothing}]
  /\ {aims, storedIn} \subseteq [Jobs -> Destinations \cup {Nothing}]
  /\ {via, objects} \subseteq [Jobs -> Hosts \cup {Nothing}]
  /\ artifact \subseteq Jobs /\ strayed \subseteq Jobs
  /\ doing \in [Clients -> {"idle", "remove", "forget"}]
  /\ about \in [Clients -> Things \cup {Nothing}] /\ changes \in 0..MaxChanges

(* A policy can always be run: its target and its destination are there,   *)
(* and the scope of the target is one its dump tool copies whole.          *)
PoliciesStayRunnable ==
  \A p \in Policies : There(p) =>
    /\ There(reads[p]) /\ There(writes[p])
    /\ ~ScopeProblem(engine[reads[p]], names[reads[p]])

(* "Refuse, never cascade": the destination of a catalogued backup, with   *)
(* the only credentials of its bucket, stays; and a backup leaves the      *)
(* catalog only after its objects left the bucket - unless the destination *)
(* got another endpoint after the backup had read it: then the code looks  *)
(* for them at the new one, finds nothing and forgets them (destinations.ts*)
(* withholds bucket and prefix from a PATCH for this reason).              *)
BackupsAreNotForgotten ==
  /\ [](\A j \in artifact : There(storedIn[j]))
  /\ [][\A j \in artifact \ artifact' : objects[j] = Nothing \/ j \in strayed]_cvars
=============================================================================
