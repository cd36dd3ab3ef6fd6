------------------------------- MODULE Engines -------------------------------
(***************************************************************************)
(* What is asked of a database's own tools, and what they then do: the     *)
(* capability matrix (packages/core/src/capabilities.ts), the probes and   *)
(* adapters of packages/engines, the choice of an execution mode           *)
(* (jobs/execution-mode.ts) and the rules of jobs/worker-wiring.ts and     *)
(* jobs/restore.ts that say which databases a dump names, which facts of   *)
(* it are recorded, what a restore may overwrite and what a verify counts. *)
(*                                                                         *)
(* A dump, a restore and a verify of one target are planned from the row   *)
(* of that day: between them the target is edited and its server lives on. *)
(* The tools are modelled by what their flags make them do.                *)
(***************************************************************************)
EXTENDS Integers, Sequences, FiniteSets

CONSTANTS
  Databases,   \* databases of the server
  System,      \* its own database: postgres, mysql or admin
  MaxVersion,  \* bound on what a database may hold
  MaxEvents    \* bound on edits of the target and changes of its server

(* A server has finitely many databases; the bound leaves room for data.   *)
ASSUME EngineBounds ==
  /\ IsFiniteSet(Databases) /\ System \notin Databases
  /\ MaxVersion \in Nat \ {0, 1} /\ MaxEvents \in Nat

EngineKinds   == {"postgres", "mysql", "mariadb", "mongodb"}
ScriptEngines == {"mysql", "mariadb"}
RestoreTargets == {"FULL_CLUSTER", "DATABASE", "SCHEMA", "TABLE", "COLLECTION"}
Modes    == {"STREAM", "STAGED"}
Answers  == {"yes", "no", "unknown"}   \* a fact that may never have been recorded

Names      == Databases \cup {System}
Selections == {<<>>} \cup {<<d>> : d \in Databases}
                     \cup {p \in Databases \X Databases : p[1] # p[2]}
(* A database that is not there, one without a table, and its versions.    *)
Missing == 0
Blank   == 1
(* The schemas or collections the target names, and the rest of a database.*)
Parts   == {"named", "rest"}

SqlFamily == [targets |-> {"FULL_CLUSTER", "DATABASE"}, staged |-> TRUE]
Capabilities ==
  [postgres |-> [targets |-> {"FULL_CLUSTER", "DATABASE", "SCHEMA", "TABLE"}, staged |-> TRUE],
   mysql    |-> SqlFamily,
   mariadb  |-> SqlFamily,
   mongodb  |-> [targets |-> {"FULL_CLUSTER", "DATABASE", "COLLECTION"}, staged |-> FALSE]]

Artifacts == [mode : Modes, holds : [Names -> 0..MaxVersion], parts : SUBSET Parts, uses : BOOLEAN,
              several : BOOLEAN, oplog : BOOLEAN, multi : Answers, hasOplog : Answers]
NoArtifact == [mode |-> "STREAM", holds |-> [n \in Names |-> Missing], parts |-> {}, uses |-> FALSE,
               several |-> FALSE, oplog |-> FALSE, multi |-> "no", hasOplog |-> "no"]
NoRequest == [target |-> "FULL_CLUSTER", confirm |-> FALSE]
NoOutcome == [state |-> "none", replayed |-> FALSE, touched |-> {}]

VARIABLES
  engine, selection, \* of the target: its kind and scope.databases
  narrows,   \* its scope names schemas, or collections
  secure, ca, \* DatabaseTarget.tls, and whether the row holds a CA certificate
  sees,      \* what its credential can list
  replica,   \* the server is a replica set
  offers,    \* the server offers TLS
  data,      \* what each database holds
  at,        \* "idle", "probed", "restoring"
  found,     \* what the probe of a dump discovered
  artifact,  \* the last backup's: its content, and the facts on its row
  asked,     \* the restore under way
  restored,  \* the outcome of the last restore
  proved,    \* the level the artifact was VERIFIED at, "none", or "FAILED"
  inClear,   \* tools that moved a TLS target's data unencrypted
  events

target == <<engine, selection, narrows, secure, ca>>
host   == <<sees, replica, offers, data>>
evars  == <<target, host, at, found, artifact, asked, restored, proved, inClear, events>>

Selected == {selection[i] : i \in 1..Len(selection)}
Content(n) == IF n = System THEN Blank + 1 ELSE data[n]

(* scopeProblem; a postgres target of before it may still be unscoped.     *)
ScopeFits(s) == engine \in {"postgres", "mongodb"} => Len(s) <= 1

EnginesInit ==
  /\ engine \in EngineKinds /\ selection \in Selections /\ ScopeFits(selection)
  /\ narrows \in BOOLEAN /\ (engine \in ScriptEngines => ~narrows)
  /\ secure \in BOOLEAN /\ ca \in BOOLEAN /\ (ca => secure)
  /\ sees \in {Names} \cup (IF engine = "postgres" THEN {} ELSE {{d} : d \in Databases})
  /\ replica \in BOOLEAN /\ (engine # "mongodb" => ~replica)
  /\ offers = TRUE /\ data \in [Databases -> {Missing, Blank, Blank + 1}]
  /\ at = "idle" /\ found = {} /\ artifact = NoArtifact /\ asked = NoRequest
  /\ restored = NoOutcome /\ proved = "none" /\ inClear = {} /\ events = 0

-----------------------------------------------------------------------------
(* Connecting.                                                             *)

(* tlsModeOf: a CA with TLS off is inert.                                  *)
tls == IF ~secure THEN "disable" ELSE IF ca THEN "verify-full" ELSE "require"

(* probeDatabaseFor: the first database of the scope, or the engine's own. *)
ConnectDatabase == IF engine = "mongodb" \/ selection = <<>> THEN System ELSE selection[1]

(* The driver connects with the TLS the row asks for; the SQL ones open    *)
(* that database too, mongodb's lists the databases it is authorized for.  *)
SqlOpens == ConnectDatabase \in sees /\ Content(ConnectDatabase) # Missing
ProbeConnects == (tls = "disable" \/ offers) /\ (engine # "mongodb" => SqlOpens)

(* What a probe reports: databases for postgres, those with tables or      *)
(* documents for the others; only what the credential may see.             *)
Discovered == {n \in sees : Content(n) >= IF engine = "postgres" THEN Blank ELSE Blank + 1}

(* stagedTlsRefusal: mydumper and myloader cannot require TLS.             *)
StagedTlsRefusalNot == FALSE
StagedTlsRefusal == engine \in ScriptEngines /\ tls = "require"

(* Against a server that offers no TLS: mydumper, myloader and MariaDB's   *)
(* clients go on in clear under "require", the others refuse.              *)
FallsBack(tool) == tls = "require" /\ tool \in {"mydumper", "myloader", "mariadb"}
ToolConnects(tool) == tls = "disable" \/ offers \/ FallsBack(tool)
Contact(tool) == inClear' = IF tls # "disable" /\ ~offers THEN inClear \cup {tool} ELSE inClear

(* The CA, and mongodb's password, reach a tool as files on the volume.    *)
MountsFrom(scratch) == tls = "verify-full" \/ engine = "mongodb" => scratch

-----------------------------------------------------------------------------
(* Dumping.                                                                *)

(* resolveExecutionMode, from what the policy asks (parallelism above one, *)
(* a dump above the threshold) and the deployment has: STAGED is left for  *)
(* STREAM when the stager would copy another set, or drop TLS.             *)
StagesWhatItStreams == engine \in ScriptEngines => Len(selection) = 1
ExecutionMode(parallel, scratch, large) ==
  IF /\ Capabilities[engine].staged /\ scratch /\ (parallel \/ large)
     /\ StagesWhatItStreams /\ ~StagedTlsRefusal
  THEN "STAGED" ELSE "STREAM"

(* dumpScopeFor: mysqldump is given what the probe found.                  *)
DumpDatabases(mode) ==
  IF engine = "mongodb" \/ (engine \in ScriptEngines /\ mode = "STAGED") THEN Selected ELSE found

(* postgresUnscopedAlternatives: what an unscoped dump would leave behind. *)
AlternativesNone == {}
Alternatives == IF engine = "postgres" /\ selection = <<>> THEN found \ {System} ELSE {}

Dump(tool, copies, parts, uses, oplog) ==
  [tool |-> tool, copies |-> copies, parts |-> parts, uses |-> uses, oplog |-> oplog]

(* Each adapter's buildDump: no plan at all when it would refuse.          *)
PostgresDump == {Dump("pg_dump", {ConnectDatabase}, IF narrows THEN {"named"} ELSE Parts, FALSE, FALSE)}
MongoDump ==
  IF (replica /\ selection # <<>>) \/ Len(selection) > 1 THEN {}
  ELSE {Dump("mongodump", IF selection = <<>> THEN found ELSE Selected, Parts, FALSE, replica)}
ScriptDump(mode) ==
  IF mode = "STREAM"
  THEN {Dump(engine, IF found = {} THEN {ConnectDatabase} ELSE found, Parts, found # {}, FALSE)}
  ELSE IF Len(selection) # 1 \/ StagedTlsRefusal THEN {}
  ELSE {Dump("mydumper", Selected, Parts, FALSE, FALSE)}
(* buildDumpDescriptorFor.                                                 *)
BuildDump(mode) ==
  IF Alternatives # {} THEN {}
  ELSE CASE engine = "postgres" -> PostgresDump
         [] engine = "mongodb"  -> MongoDump
         [] OTHER               -> ScriptDump(mode)

(* dumpIsMultiDatabaseFor: recorded of a script only.                      *)
MultiDatabase(mode, several) ==
  IF engine \notin ScriptEngines THEN "unknown"
  ELSE IF mode = "STREAM" /\ several THEN "yes" ELSE "no"

(* sourceHasOplogFor.  Mutant: of a server that is no replica set, nothing *)
(* is recorded, as of an engine that has no oplog.                         *)
SourceHasOplogReversed == IF replica THEN "no" ELSE "yes"
SourceHasOplog == IF engine # "mongodb" THEN "unknown" ELSE IF replica THEN "yes" ELSE "no"

ProbeTarget ==
  /\ at = "idle" /\ ProbeConnects
  /\ at' = "probed" /\ found' = Discovered /\ restored' = NoOutcome
  /\ UNCHANGED <<target, host, artifact, asked, proved, inClear, events>>

(* The dump; releases before a fact was recorded leave it unknown.         *)
RunDump(parallel, scratch, large, recorded) ==
  LET mode == ExecutionMode(parallel, scratch, large)
      several == Cardinality(DumpDatabases(mode)) >= 2
  IN /\ at = "probed" /\ at' = "idle" /\ found' = {}
     /\ MountsFrom(scratch)
     /\ \E d \in BuildDump(mode) :
          /\ ToolConnects(d.tool) /\ Contact(d.tool)
          /\ artifact' = [mode |-> mode,
               holds |-> [n \in Names |-> IF n \in d.copies THEN Content(n) ELSE Missing],
               parts |-> d.parts, uses |-> d.uses, several |-> several, oplog |-> d.oplog,
               multi |-> IF recorded THEN MultiDatabase(mode, several) ELSE "unknown",
               hasOplog |-> IF recorded THEN SourceHasOplog ELSE "unknown"]
     /\ proved' = "none" /\ restored' = NoOutcome
     /\ UNCHANGED <<target, host, asked, events>>

(* The plan is refused, the tool cannot connect or fails: no artifact.     *)
DumpFails ==
  /\ at = "probed" /\ at' = "idle" /\ found' = {}
  /\ UNCHANGED <<target, host, artifact, asked, restored, proved, inClear, events>>

(* A rebuild of the catalog derives the fact again from the manifest.      *)
Rebuild ==
  /\ at = "idle" /\ artifact # NoArtifact
  /\ artifact' = [artifact EXCEPT !.multi = MultiDatabase(artifact.mode, artifact.several)]
  /\ proved' = "none" /\ restored' = NoOutcome
  /\ UNCHANGED <<target, host, at, found, asked, inClear, events>>

-----------------------------------------------------------------------------
(* Restoring.                                                              *)

(* A script cannot be confined: only a recorded "no" clears the gate.      *)
(* Mutant: an unrecorded fact clears it too.                               *)
ConfinableUnlessKnown(t) == engine \in ScriptEngines /\ t # "FULL_CLUSTER" => artifact.multi # "yes"
Confinable(t) == engine \in ScriptEngines /\ t # "FULL_CLUSTER" => artifact.multi = "no"

(* targetHasExistingData, judged in today's scope.                         *)
ExistingData == \E n \in Discovered : selection = <<>> \/ n \in Selected

Restore(tool, into, only, parts, replay) ==
  [tool |-> tool, into |-> into, only |-> only, parts |-> parts, replay |-> replay]

(* --oplogReplay: of an archive known to have an oplog, and all of it.     *)
Replay(t) == artifact.hasOplog = "yes" /\ t = "FULL_CLUSTER"

(* --nsInclude.                                                            *)
Namespaces(t) == IF t = "FULL_CLUSTER" THEN Names ELSE Selected

(* Each adapter's buildRestore.  No stored scope names a table.            *)
PostgresRestore(t) ==
  IF t = "TABLE" \/ (t = "SCHEMA" /\ ~narrows) THEN {}
  ELSE {Restore("pg_restore", ConnectDatabase, Names, IF t = "SCHEMA" THEN {"named"} ELSE Parts, FALSE)}
MongoRestore(t) ==
  IF \/ t # "FULL_CLUSTER" /\ selection = <<>>
     \/ t = "COLLECTION" /\ (Len(selection) # 1 \/ ~narrows)
  THEN {}
  ELSE {Restore("mongorestore", System, Namespaces(t), IF t = "COLLECTION" THEN {"named"} ELSE Parts, Replay(t))}
ScriptRestore ==
  IF artifact.mode = "STREAM" THEN {Restore(engine, ConnectDatabase, Names, Parts, FALSE)}
  ELSE IF StagedTlsRefusal THEN {}
  ELSE {Restore("myloader", ConnectDatabase, Names, Parts, FALSE)}
BuildRestore(t) ==
  CASE engine = "postgres" -> PostgresRestore(t)
    [] engine = "mongodb"  -> MongoRestore(t)
    [] OTHER               -> ScriptRestore

Held == {n \in Names : artifact.holds[n] # Missing}
(* Where the tool writes: a client follows the script's own USE, and       *)
(* mongorestore the namespaces of the archive.                             *)
WrittenBy(r) ==
  (IF r.tool = "mongorestore" \/ (r.tool \in ScriptEngines /\ artifact.uses)
   THEN Held \cap r.only ELSE {r.into}) \X (r.parts \cap artifact.parts)
Version(r, n) == IF n \in Held THEN artifact.holds[n] ELSE artifact.holds[CHOOSE h \in Held : TRUE]

(* The gates of runRestoreJob, up to the audit.                            *)
AskRestore(t, confirm) ==
  /\ at = "idle" /\ artifact # NoArtifact
  /\ t \in Capabilities[engine].targets /\ Confinable(t)
  /\ ProbeConnects /\ (ExistingData => confirm)
  /\ at' = "restoring" /\ asked' = [target |-> t, confirm |-> confirm] /\ restored' = NoOutcome
  /\ UNCHANGED <<target, host, found, artifact, proved, inClear, events>>

(* runRestore.  A restore that does not know whether to replay says so.    *)
RunRestore ==
  /\ at = "restoring" /\ at' = "idle" /\ asked' = NoRequest
  /\ \E r \in BuildRestore(asked.target) :
       LET wrote == WrittenBy(r)
           degraded == engine = "mongodb" /\ asked.target = "FULL_CLUSTER" /\ artifact.hasOplog = "unknown"
       IN /\ ToolConnects(r.tool) /\ Contact(r.tool)
          /\ restored' = [state |-> IF degraded THEN "DEGRADED" ELSE "SUCCEEDED",
                          replayed |-> r.replay, touched |-> wrote]
          /\ data' = [d \in Databases |->
               IF \E p \in Parts : <<d, p>> \in wrote THEN Version(r, d) ELSE data[d]]
  /\ UNCHANGED <<target, sees, replica, offers, found, artifact, proved, events>>
(* Refused, unreachable, or a tool that died half-way.                     *)
RestoreFails ==
  /\ at = "restoring" /\ at' = "idle" /\ asked' = NoRequest
  /\ restored' = [NoOutcome EXCEPT !.state = "FAILED"]
  /\ UNCHANGED <<target, host, found, artifact, proved, inClear, events>>

-----------------------------------------------------------------------------
(* Verifying, in a sandbox without TLS.                                    *)

(* resolveVerifyPlan: an unscoped archive has no origin to count in.       *)
VerifyLevelAlways(level) == level
VerifyLevel(level) ==
  IF level = "FULL_RESTORE" /\ engine # "postgres" /\ selection = <<>> THEN "CHECKSUM" ELSE level

(* originDatabaseFor.                                                      *)
Origin == IF selection = <<>> THEN System ELSE selection[1]

(* What each adapter's assertion counts after a FULL_CLUSTER restore into  *)
(* its sandbox: every schema of postgres's one database, the tables or     *)
(* collections of the origin else; a sandbox's system database has its own.*)
HoldsData == \E n \in Held : artifact.holds[n] > Blank
ScriptLanded == IF artifact.uses THEN artifact.holds[Origin] > Blank ELSE HoldsData
MongoLanded  == artifact.holds[Origin] > Blank
Landed ==
  CASE engine = "postgres" -> HoldsData
    [] engine = "mongodb"  -> Origin = System \/ MongoLanded
    [] OTHER               -> Origin = System \/ ScriptLanded

Verify(level) ==
  /\ at = "idle" /\ artifact # NoArtifact
  /\ proved' = IF VerifyLevel(level) = "CHECKSUM" THEN "CHECKSUM"
               ELSE IF Landed THEN "FULL_RESTORE" ELSE "FAILED"
  /\ restored' = NoOutcome
  /\ UNCHANGED <<target, host, at, found, artifact, asked, inClear, events>>

-----------------------------------------------------------------------------
(* What happens between and during the jobs.                               *)

Event == events < MaxEvents /\ events' = events + 1
(* A patch may set tls, and set, clear or leave the CA; one sent with TLS  *)
(* off, by the patch or else by the row, is refused.                       *)
EditTls ==
  /\ secure' \in BOOLEAN
  /\ \/ ca' \in {ca, FALSE}
     \/ secure' /\ ca' = TRUE
(* PATCH /targets/:id; a job works on the row it read.                     *)
EditTarget ==
  /\ Event /\ at = "idle"
  /\ \/ UNCHANGED <<secure, ca>> /\ selection' \in {s \in Selections : ScopeFits(s) /\ (engine = "postgres" => s # <<>>)}
     \/ UNCHANGED selection /\ EditTls
  /\ UNCHANGED <<engine, narrows, host, at, found, artifact, asked, restored, proved, inClear>>
ServerChanges ==
  /\ Event
  /\ \/ UNCHANGED <<offers, replica>> /\ \E d \in Databases, v \in Blank..MaxVersion : data' = [data EXCEPT ![d] = v]
     \/ UNCHANGED <<data, replica>> /\ offers' = ~offers
     \/ UNCHANGED <<data, offers>> /\ engine = "mongodb" /\ at # "probed" /\ replica' = ~replica
  /\ UNCHANGED <<target, sees, at, found, artifact, asked, restored, proved, inClear>>

EnginesNext ==
  \/ ProbeTarget \/ DumpFails \/ Rebuild \/ RunRestore \/ RestoreFails \/ EditTarget \/ ServerChanges
  \/ \E parallel, scratch, large, recorded \in BOOLEAN : RunDump(parallel, scratch, large, recorded)
  \/ \E t \in RestoreTargets, confirm \in BOOLEAN : AskRestore(t, confirm)
  \/ \E level \in {"CHECKSUM", "FULL_RESTORE"} : Verify(level)
EnginesSpec == EnginesInit /\ [][EnginesNext]_evars

-----------------------------------------------------------------------------
(* Properties.                                                             *)

EnginesTypeOK ==
  /\ engine \in EngineKinds /\ selection \in Selections
  /\ {narrows, secure, ca, replica, offers} \subseteq BOOLEAN /\ sees \subseteq Names
  /\ data \in [Databases -> 0..MaxVersion] /\ found \subseteq Names
  /\ at \in {"idle", "probed", "restoring"} /\ artifact \in Artifacts
  /\ asked \in [target : RestoreTargets, confirm : BOOLEAN]
  /\ restored.state \in {"none", "SUCCEEDED", "DEGRADED", "FAILED"} /\ restored.replayed \in BOOLEAN
  /\ restored.touched \subseteq Names \X Parts
  /\ proved \in {"none", "CHECKSUM", "FULL_RESTORE", "FAILED"} /\ events \in 0..MaxEvents

(* A dump that succeeds holds what was asked for: every selected database, *)
(* or every one the probe found when the target selects none, whatever     *)
(* mode was chosen.                                                        *)
DumpsHoldTheSelection ==
  [][at = "probed" /\ artifact' # artifact =>
       \A d \in found \cap Databases :
         selection = <<>> \/ d \in Selected => artifact'.holds[d] = data[d]]_evars

(* A restore of less than the cluster leaves the neighbours alone: what a  *)
(* filtering tool writes was asked for, and a replayed script, which       *)
(* cannot be filtered, writes one database.                                *)
RestoresStayConfined ==
  [][at = "restoring" /\ at' = "idle" /\ restored'.touched # {} /\ asked.target # "FULL_CLUSTER" =>
       LET names == {w[1] : w \in restored'.touched} IN
       /\ engine \in ScriptEngines => Cardinality(names) = 1
       /\ engine = "mongodb" => names \subseteq Selected
       /\ asked.target \in {"SCHEMA", "COLLECTION"} => \A w \in restored'.touched : w[2] = "named"]_evars

(* FULL_RESTORE on the row means that data of the backup was seen in a     *)
(* sandbox, never that the sandbox's own tables were counted.              *)
FullRestoreSawTheData ==
  proved = "FULL_RESTORE" =>
    \E n \in IF engine = "postgres" THEN Names ELSE Databases : artifact.holds[n] > Blank

(* No dump or restore of a TLS target goes in clear, though its server     *)
(* stop offering TLS after the probe; MariaDB's own clients without a CA   *)
(* are the exception docs/security.md records.                             *)
TlsIsNotDropped == inClear \subseteq {"mariadb"}

(* A mongodb restore of a whole replica set lands on one instant, or its   *)
(* job says that it may not.                                               *)
OneInstantOrSaid ==
  [][at = "restoring" /\ at' = "idle" /\ restored'.state = "SUCCEEDED" /\ asked.target = "FULL_CLUSTER" /\ artifact.oplog =>
       restored'.replayed]_evars

(* restore.ts: "Restore over existing data requires explicit confirmation":*)
(* an unconfirmed restore that passes the gate is about to write no        *)
(* user's database that holds data.                                        *)
UnconfirmedOverwritesNothing ==
  [][at = "idle" /\ at' = "restoring" /\ ~asked'.confirm =>
       \A r \in BuildRestore(asked'.target), d \in Databases :
         d \in {w[1] : w \in WrittenBy(r)} => data[d] <= Blank]_evars
=============================================================================
