------------------------- MODULE AdministrationProofs -------------------------
(***************************************************************************)
(* Proofs about what administrators and operators do: Accounts,            *)
(* Configuration and Delivery, for any number of users, rows, requests,    *)
(* callers and failures.                                                   *)
(***************************************************************************)
EXTENDS Accounts, Configuration, Delivery, SequenceTheorems, TLAPS

-----------------------------------------------------------------------------
(* Accounts.  A password someone else has seen is owed a rotation as long  *)
(* as it opens anything.                                                   *)

(* Where a process has an account it has created or found.                 *)
Late == {"owes", "admin", "spend", "flag", "join"}

Owed(u) == u \in linked \/ password[u] # "shared" \/ owes[u]

(* An account is there before anything is said of it; a password being     *)
(* changed is already its owner's; what is about to be given a role owes   *)
(* its rotation by then, and so does what has one.                         *)
AccountInv ==
  /\ \A u \in Users : role[u] # NoRole => Exists(u) /\ Owed(u)
  /\ \A u \in changed : password[u] = "own"
  /\ \A p \in Processes : at[p] \in Late => Exists(subject[p])
  /\ \A p \in Processes : at[p] \in {"admin", "join"} => Owed(subject[p])

AccountsIInv == TypeOK /\ AccountInv

LEMMA AnyUserIsOne == AnyUser \in Users
  BY AccountBounds DEF AnyUser

LEMMA AccountsInit == Init => AccountsIInv
  <1> SUFFICES ASSUME Init PROVE AccountsIInv
    OBVIOUS
  <1>1. TypeOK
    <2>1. 1 \in Tokens
      BY AccountBounds DEF Tokens
    <2>2. {fromEnv, org} \subseteq BOOLEAN
      BY DEF Init
    <2>3. owes \in [Users -> BOOLEAN]
      BY DEF Init
    <2> QED
      BY <2>1, <2>2, <2>3, AnyUserIsOne, AccountBounds DEF Init, TypeOK, NoRole
  <1>2. AccountInv
    BY DEF Init, AccountInv, Late, NoRole
  <1> QED
    BY <1>1, <1>2 DEF AccountsIInv

-----------------------------------------------------------------------------
(* Types, one case per part of Next.                                       *)

AccountPcs ==
  {"idle", "org", "account", "owes", "admin", "spend", "invite", "flag", "join", "count", "write"}
ProcessTypes ==
  /\ at \in [Processes -> AccountPcs]
  /\ subject \in [Processes -> Users] /\ grants \in [Processes -> Roles \cup {NoRole}]
  /\ saw \in [Processes -> Roles \cup {NoRole}] /\ holds \in [Processes -> Tokens]

LEMMA GotoTypes ==
  ASSUME TypeOK, NEW p, NEW from, NEW to \in AccountPcs, Goto(p, from, to)
  PROVE  at' \in [Processes -> AccountPcs]
  BY DEF TypeOK, Goto, AccountPcs

LEMMA AnswerTypes ==
  ASSUME TypeOK, NEW p, NEW from, Answer(p, from)
  PROVE  ProcessTypes'
  <1>1. at' \in [Processes -> AccountPcs]
    BY DEF TypeOK, Answer, Goto, AccountPcs
  <1>2. subject' \in [Processes -> Users]
    BY AnyUserIsOne DEF TypeOK, Answer
  <1>3. grants' \in [Processes -> Roles \cup {NoRole}] /\ saw' \in [Processes -> Roles \cup {NoRole}]
    BY DEF TypeOK, Answer
  <1>4. 1 \in Tokens
    BY AccountBounds DEF Tokens
  <1>5. holds' \in [Processes -> Tokens]
    BY <1>4 DEF TypeOK, Answer
  <1> QED
    BY <1>1, <1>2, <1>3, <1>5 DEF ProcessTypes

LEMMA AccountTypeStep == TypeOK /\ [Next]_avars => TypeOK'
  <1> SUFFICES ASSUME TypeOK, [Next]_avars PROVE TypeOK'
    OBVIOUS
  <1> USE GotoTypes, AnswerTypes DEF TypeOK, ProcessTypes, AccountPcs, rows, args, Trouble
  <1>1. CASE Start
    <2>1. token' \in [Tokens -> {"none", "valid", "spent", "expired"}]
      BY <1>1 DEF Start
    <2>2. ProcessTypes'
      BY <1>1 DEF Start
    <2> QED
      BY <1>1, <2>1, <2>2 DEF Start
  <1>2. CASE Crash
    BY <1>2, AnyUserIsOne, AccountBounds DEF Crash, Tokens, NoRole
  <1>3. ASSUME NEW t \in Tokens, Expire(t) PROVE TypeOK'
    BY <1>3 DEF Expire
  <1>4. ASSUME NEW p \in Processes, CreateAdmin(p) PROVE TypeOK'
    <2>1. CASE UpsertOrganization(p)
      BY <2>1 DEF UpsertOrganization
    <2>2. CASE SignUp(p)
      BY <2>2 DEF SignUp
    <2>3. CASE SetOwes(p)
      BY <2>3 DEF SetOwes
    <2>4. CASE UpsertAdmin(p)
      <3>1. role' \in [Users -> Roles \cup {NoRole}]
        BY <2>4 DEF UpsertAdmin, Roles
      <3>2. ProcessTypes' /\ server' \in {"down", "starting", "up"}
        BY <2>4 DEF UpsertAdmin
      <3> QED
        BY <2>4, <3>1, <3>2 DEF UpsertAdmin
    <2> QED
      BY <1>4, <2>1, <2>2, <2>3, <2>4 DEF CreateAdmin
  <1>5. ASSUME NEW p \in Processes, WriteThrows(p) PROVE TypeOK'
    BY <1>5, AccountBounds DEF WriteThrows
  <1>6. ASSUME NEW r \in Requests, Setup(r) \/ SpendToken(r) PROVE TypeOK'
    <2>1. CASE Setup(r)
      <3>1. at' \in [Processes -> AccountPcs]
        BY <2>1 DEF Setup
      <3>2. subject' \in [Processes -> Users] /\ grants' \in [Processes -> Roles \cup {NoRole}]
        BY <2>1 DEF Setup
      <3>3. saw' \in [Processes -> Roles \cup {NoRole}] /\ holds' \in [Processes -> Tokens]
        BY <2>1 DEF Setup
      <3> QED
        BY <2>1, <3>1, <3>2, <3>3 DEF Setup
    <2>2. CASE SpendToken(r)
      BY <2>2 DEF SpendToken
    <2> QED
      BY <1>6, <2>1, <2>2
  <1>7. ASSUME NEW r \in Requests, Invite(r) \/ InviteSignUp(r) \/ InviteOwes(r) \/ Join(r)
        PROVE  TypeOK'
    <2>1. CASE Invite(r)
      <3>1. at' \in [Processes -> AccountPcs]
        BY <2>1 DEF Invite
      <3>2. PICK u \in Users, g \in Roles \cup {NoRole} :
              subject' = [subject EXCEPT ![r] = u] /\ grants' = [grants EXCEPT ![r] = g]
        BY <2>1 DEF Invite
      <3>3. saw' \in [Processes -> Roles \cup {NoRole}] /\ holds' \in [Processes -> Tokens]
        BY <2>1 DEF Invite
      <3> QED
        BY <2>1, <3>1, <3>2, <3>3 DEF Invite
    <2>2. CASE InviteSignUp(r)
      BY <2>2 DEF InviteSignUp
    <2>3. CASE InviteOwes(r)
      BY <2>3 DEF InviteOwes
    <2>4. CASE Join(r)
      <3>1. ProcessTypes'
        BY <2>4 DEF Join
      <3>2. role' \in [Users -> Roles \cup {NoRole}]
        BY <2>4 DEF Join, Processes
      <3> QED
        BY <2>4, <3>1, <3>2 DEF Join
    <2> QED
      BY <1>7, <2>1, <2>2, <2>3, <2>4
  <1>8. ASSUME NEW r \in Requests, AlterMember(r) \/ CountAdmins(r) \/ WriteMember(r) PROVE TypeOK'
    <2>1. CASE AlterMember(r)
      <3>1. at' \in [Processes -> AccountPcs]
        BY <2>1 DEF AlterMember
      <3>2. PICK u \in Users, g \in Roles \cup {NoRole} :
              subject' = [subject EXCEPT ![r] = u] /\ grants' = [grants EXCEPT ![r] = g]
        BY <2>1 DEF AlterMember
      <3>3. saw' \in [Processes -> Roles \cup {NoRole}] /\ holds' \in [Processes -> Tokens]
        BY <2>1 DEF AlterMember
      <3> QED
        BY <2>1, <3>1, <3>2, <3>3 DEF AlterMember
    <2>2. CASE CountAdmins(r)
      BY <2>2 DEF CountAdmins
    <2>3. CASE WriteMember(r)
      <3>1. ProcessTypes'
        BY <2>3 DEF WriteMember
      <3>2. role' \in [Users -> Roles \cup {NoRole}]
        BY <2>3 DEF WriteMember, Processes
      <3> QED
        BY <2>3, <3>1, <3>2 DEF WriteMember
    <2> QED
      BY <1>8, <2>1, <2>2, <2>3
  <1>9. ASSUME NEW u \in Users, ChangePassword(u) \/ ClearFlag(u) PROVE TypeOK'
    BY <1>9 DEF ChangePassword, ClearFlag
  <1>10. CASE UNCHANGED avars
    BY <1>10 DEF avars
  <1> QED
    BY <1>1, <1>2, <1>3, <1>4, <1>5, <1>6, <1>7, <1>8, <1>9, <1>10 DEF Next

-----------------------------------------------------------------------------
(* The accounts: a password becomes shared only where there was none, and  *)
(* a flag is cleared only over a password of one's own, or by the link.    *)

LEMMA AccountStep == AccountsIInv /\ [Next]_avars => AccountInv'
  <1> SUFFICES ASSUME TypeOK, AccountInv, [Next]_avars PROVE AccountInv'
    BY DEF AccountsIInv
  <1> USE AnyUserIsOne, AccountBounds
      DEF TypeOK, AccountInv, Owed, Exists, Late, rows, args, Goto, Answer
  <1>1. CASE Start \/ Crash
    BY <1>1 DEF Start, Crash, Processes
  <1>2. ASSUME NEW t \in Tokens, Expire(t) PROVE AccountInv'
    BY <1>2 DEF Expire
  <1>3. ASSUME NEW p \in Processes, CreateAdmin(p) PROVE AccountInv'
    <2>1. CASE UpsertOrganization(p)
      BY <2>1 DEF UpsertOrganization
    <2>2. CASE SignUp(p)
      BY <2>2 DEF SignUp
    <2>3. CASE SetOwes(p)
      BY <2>3 DEF SetOwes
    <2>4. CASE UpsertAdmin(p)
      BY <2>4 DEF UpsertAdmin
    <2> QED
      BY <1>3, <2>1, <2>2, <2>3, <2>4 DEF CreateAdmin
  <1>4. ASSUME NEW p \in Processes, WriteThrows(p) PROVE AccountInv'
    BY <1>4 DEF WriteThrows
  <1>5. ASSUME NEW r \in Requests, Setup(r) \/ SpendToken(r) PROVE AccountInv'
    BY <1>5 DEF Setup, SpendToken, Processes
  <1>6. ASSUME NEW r \in Requests, Invite(r) \/ InviteSignUp(r) \/ InviteOwes(r) \/ Join(r)
        PROVE  AccountInv'
    BY <1>6 DEF Invite, InviteSignUp, InviteOwes, Join, Processes
  <1>7. ASSUME NEW r \in Requests, AlterMember(r) \/ CountAdmins(r) \/ WriteMember(r)
        PROVE  AccountInv'
    BY <1>7 DEF AlterMember, CountAdmins, WriteMember, Processes
  <1>8. ASSUME NEW u \in Users, ChangePassword(u) \/ ClearFlag(u) PROVE AccountInv'
    BY <1>8 DEF ChangePassword, ClearFlag
  <1>9. CASE UNCHANGED avars
    BY <1>9 DEF avars
  <1> QED
    BY <1>1, <1>2, <1>3, <1>4, <1>5, <1>6, <1>7, <1>8, <1>9 DEF Next

-----------------------------------------------------------------------------
(* The theorem.                                                            *)

LEMMA AccountsInvariant == Spec => []AccountsIInv
  <1>1. AccountsIInv /\ [Next]_avars => AccountsIInv'
    BY AccountTypeStep, AccountStep DEF AccountsIInv
  <1> QED
    BY AccountsInit, <1>1, PTL DEF Spec

(* Every variable of the accounts keeps its type.                          *)
THEOREM AccountTypes == Spec => []TypeOK
  BY AccountsInvariant, PTL DEF AccountsIInv

(* A start, a setup link, an invitation, an alteration or a rotation that  *)
(* stops halfway, in any number and order, never leaves a role on a        *)
(* password that someone else has seen and that owes no rotation.          *)
THEOREM SharedPasswordsOwe == Spec => []SharedPasswordsAreRotated
  <1>1. AccountsIInv => SharedPasswordsAreRotated
    BY DEF AccountsIInv, AccountInv, Owed, SharedPasswordsAreRotated
  <1> QED
    BY <1>1, AccountsInvariant, PTL

-----------------------------------------------------------------------------
(* Configuration.  What a policy and a catalogued backup rely on is not    *)
(* removed from under them.                                                *)

(* What a target's scope is, whether a policy reads it yet or not, and     *)
(* what a policy that is there refers to; ...                              *)
PolicyInv ==
  /\ \A t \in Targets : There(t) => ~ScopeProblem(engine[t], names[t])
  /\ \A p \in Policies : There(p) =>
       /\ reads[p] \in Targets /\ There(reads[p])
       /\ writes[p] \in Destinations /\ There(writes[p])
(* ... what a catalogued backup refers to, and that its job is over, so    *)
(* that nothing uploads its objects again; ...                             *)
ArtifactInv ==
  \A j \in artifact : storedIn[j] \in Destinations /\ There(storedIn[j]) /\ job[j] = "ENDED"
(* ... and that a deletion has removed the objects before it removes the   *)
(* row, if they lie where the destination still is.                        *)
ForgetInv ==
  \A c \in Clients : doing[c] = "forget" =>
    /\ about[c] \in Jobs /\ job[about[c]] = "ENDED"
    /\ objects[about[c]] = Nothing \/ about[c] \in strayed

(* A job has the policy it was enqueued for, and while it runs the         *)
(* destination it read from it.                                            *)
RunInv ==
  \A j \in Jobs :
    /\ policyOf[j] # Nothing => There(policyOf[j])
    /\ job[j] = "RUNNING" => aims[j] \in Destinations

(* Objects lie where their backup read its destination to be, and, unless  *)
(* the backup has strayed, where the destination is now.                   *)
StrayInv ==
  \A j \in Jobs :
    /\ job[j] = "RUNNING" =>
         /\ life[aims[j]] # "unborn" /\ objects[j] \in {Nothing, via[j]}
         /\ j \in strayed \/ via[j] = host[aims[j]]
    /\ job[j] \in {"none", "PENDING"} => objects[j] = Nothing
    /\ j \in artifact => j \in strayed \/ objects[j] \in {Nothing, host[storedIn[j]]}

CatalogInv == ArtifactInv /\ ForgetInv /\ RunInv /\ StrayInv
ConfigurationIInv == ConfigurationTypeOK /\ PolicyInv /\ CatalogInv

-----------------------------------------------------------------------------
(* Types.                                                                  *)

LEMMA ConfigurationTypeInit == ConfigurationInit => ConfigurationTypeOK
  <1> SUFFICES ASSUME ConfigurationInit PROVE ConfigurationTypeOK
    OBVIOUS
  <1>1. (CHOOSE h \in Hosts : TRUE) \in Hosts
    BY ConfigurationBounds
  <1> QED
    BY <1>1, ConfigurationBounds DEF ConfigurationInit, ConfigurationTypeOK, Lives, Engines,
      Things

LEMMA EditKeepsTypes == ConfigurationTypeOK /\ Edit => ConfigurationTypeOK'
  <1> SUFFICES ASSUME ConfigurationTypeOK, Edit PROVE ConfigurationTypeOK'
    OBVIOUS
  <1> USE ConfigurationBounds DEF ConfigurationTypeOK, Born, Change, Lives, Engines, Addressed,
        settings, ledger, catalog, requests
  <1>1. ASSUME NEW t \in Targets, CreateTarget(t) PROVE ConfigurationTypeOK'
    BY <1>1 DEF CreateTarget
  <1>2. ASSUME NEW t \in Targets, MoveTarget(t) \/ Rescope(t) PROVE ConfigurationTypeOK'
    BY <1>2 DEF MoveTarget, Rescope
  <1>3. ASSUME NEW d \in Destinations, CreateDestination(d) \/ MoveDestination(d)
        PROVE  ConfigurationTypeOK'
    BY <1>3 DEF CreateDestination, MoveDestination
  <1>4. ASSUME NEW p \in Policies, CreatePolicy(p) PROVE ConfigurationTypeOK'
    BY <1>4 DEF CreatePolicy
  <1>5. ASSUME NEW p \in Policies, Enqueue(p) PROVE ConfigurationTypeOK'
    BY <1>5 DEF Enqueue
  <1> QED
    BY <1>1, <1>2, <1>3, <1>4, <1>5 DEF Edit

LEMMA WorkKeepsTypes == ConfigurationIInv /\ Work => ConfigurationTypeOK'
  <1> SUFFICES ASSUME ConfigurationTypeOK, PolicyInv, RunInv, NEW j \in Jobs,
                      RunBackup(j) \/ Upload(j) \/ Persist(j)
               PROVE  ConfigurationTypeOK'
    BY DEF Work, ConfigurationIInv, CatalogInv
  <1> USE DEF ConfigurationTypeOK, settings, ledger, catalog, requests
  <1>1. CASE RunBackup(j)
    <2>1. policyOf[j] # Nothing => writes[policyOf[j]] \in Destinations
      BY DEF PolicyInv, RunInv
    <2>2. \A d \in Destinations : host[d] \in Hosts
      BY DEF Addressed
    <2> QED
      BY <1>1, <2>1, <2>2 DEF RunBackup
  <1>2. CASE Upload(j)
    BY <1>2 DEF Upload
  <1>3. CASE Persist(j)
    BY <1>3 DEF Persist
  <1> QED
    BY <1>1, <1>2, <1>3

LEMMA RequestKeepsTypes ==
  ASSUME ConfigurationTypeOK, NEW c \in Clients, Request(c)
  PROVE  ConfigurationTypeOK'
  <1> USE DEF ConfigurationTypeOK, settings, ledger, catalog, requests, Things, Lives, Proceed,
    Reply
  <1>1. ASSUME NEW x \in Addressed \cup Policies, CountReferences(c, x) PROVE ConfigurationTypeOK'
    BY <1>1 DEF CountReferences
  <1>2. CASE DeleteRow(c)
    BY <1>2 DEF DeleteRow
  <1>3. CASE DeleteArtifact(c)
    BY <1>3 DEF DeleteArtifact
  <1>4. ASSUME NEW j \in Jobs, DeleteObjects(c, j) PROVE ConfigurationTypeOK'
    BY <1>4 DEF DeleteObjects
  <1> QED
    BY <1>1, <1>2, <1>3, <1>4 DEF Request

LEMMA RestartKeepsTypes == ConfigurationTypeOK /\ Restart => ConfigurationTypeOK'
  BY ConfigurationBounds DEF ConfigurationTypeOK, Restart, Change, settings, catalog

LEMMA ConfigurationTypeStep == ConfigurationIInv /\ [ConfigurationNext]_cvars => ConfigurationTypeOK'
  <1>1. ConfigurationTypeOK /\ UNCHANGED cvars => ConfigurationTypeOK'
    BY DEF ConfigurationTypeOK, cvars, settings, ledger, catalog, requests
  <1> QED
    BY <1>1, EditKeepsTypes, WorkKeepsTypes, RequestKeepsTypes, RestartKeepsTypes
      DEF ConfigurationNext, ConfigurationIInv

-----------------------------------------------------------------------------
(* Policies: a row is created over rows that are there, and a row with a   *)
(* policy that is there is not deleted.                                    *)

LEMMA EditKeepsPolicies == ConfigurationTypeOK /\ PolicyInv /\ Edit => PolicyInv'
  <1> SUFFICES ASSUME ConfigurationTypeOK, PolicyInv, Edit PROVE PolicyInv'
    OBVIOUS
  <1> USE ConfigurationNames DEF ConfigurationTypeOK, PolicyInv, There, Born, Addressed
  <1>1. ASSUME NEW t \in Targets, CreateTarget(t) PROVE PolicyInv'
    BY <1>1 DEF CreateTarget
  <1>2. ASSUME NEW t \in Targets, MoveTarget(t) PROVE PolicyInv'
    BY <1>2 DEF MoveTarget
  <1>3. ASSUME NEW t \in Targets, Rescope(t) PROVE PolicyInv'
    BY <1>3 DEF Rescope
  <1>4. ASSUME NEW d \in Destinations, CreateDestination(d) PROVE PolicyInv'
    BY <1>4 DEF CreateDestination
  <1>5. ASSUME NEW d \in Destinations, MoveDestination(d) PROVE PolicyInv'
    BY <1>5 DEF MoveDestination
  <1>6. ASSUME NEW p \in Policies, CreatePolicy(p) PROVE PolicyInv'
    BY <1>6 DEF CreatePolicy
  <1>7. ASSUME NEW p \in Policies, Enqueue(p) PROVE PolicyInv'
    BY <1>7 DEF Enqueue, settings
  <1> QED
    BY <1>1, <1>2, <1>3, <1>4, <1>5, <1>6, <1>7 DEF Edit

LEMMA RequestKeepsPolicies ==
  ASSUME ConfigurationTypeOK, PolicyInv, NEW c \in Clients, Request(c)
  PROVE  PolicyInv'
  <1> USE ConfigurationNames DEF ConfigurationTypeOK, PolicyInv, There, Addressed
  <1>1. ASSUME NEW x \in Addressed \cup Policies, CountReferences(c, x) PROVE PolicyInv'
    BY <1>1 DEF CountReferences, settings
  <1>2. CASE DeleteRow(c)
    BY <1>2 DEF DeleteRow, PoliciesOf
  <1>3. CASE DeleteArtifact(c)
    BY <1>3 DEF DeleteArtifact, settings
  <1>4. ASSUME NEW j \in Jobs, DeleteObjects(c, j) PROVE PolicyInv'
    BY <1>4 DEF DeleteObjects, settings
  <1> QED
    BY <1>1, <1>2, <1>3, <1>4 DEF Request

LEMMA PolicyStep ==
  ConfigurationTypeOK /\ PolicyInv /\ [ConfigurationNext]_cvars => PolicyInv'
  <1>1. PolicyInv /\ UNCHANGED settings => PolicyInv'
    BY DEF PolicyInv, There, settings
  <1>2. Work \/ Restart \/ UNCHANGED cvars => UNCHANGED settings
    BY DEF Work, RunBackup, Upload, Persist, Restart, cvars
  <1> QED
    BY <1>1, <1>2, EditKeepsPolicies, RequestKeepsPolicies DEF ConfigurationNext

-----------------------------------------------------------------------------
(* The catalog: a destination with artifacts is not deleted, and what is   *)
(* being forgotten is not uploaded again.                                  *)

LEMMA EditKeepsCatalog == ConfigurationTypeOK /\ CatalogInv /\ Edit => CatalogInv'
  <1> SUFFICES ASSUME ConfigurationTypeOK, CatalogInv, Edit PROVE CatalogInv'
    OBVIOUS
  <1> USE ConfigurationNames DEF ConfigurationTypeOK, CatalogInv, ArtifactInv, ForgetInv,
    RunInv, StrayInv, There, Born, Addressed, ledger, catalog, requests
  <1>1. ASSUME NEW t \in Targets, CreateTarget(t) \/ MoveTarget(t) \/ Rescope(t) PROVE CatalogInv'
    BY <1>1 DEF CreateTarget, MoveTarget, Rescope
  <1>2. ASSUME NEW d \in Destinations, CreateDestination(d) \/ MoveDestination(d) PROVE CatalogInv'
    BY <1>2 DEF CreateDestination, MoveDestination
  <1>3. ASSUME NEW p \in Policies, CreatePolicy(p) PROVE CatalogInv'
    BY <1>3 DEF CreatePolicy
  <1>4. ASSUME NEW p \in Policies, Enqueue(p) PROVE CatalogInv'
    BY <1>4 DEF Enqueue, settings
  <1> QED
    BY <1>1, <1>2, <1>3, <1>4 DEF Edit

LEMMA WorkKeepsCatalog == ConfigurationIInv /\ Work => CatalogInv'
  <1> SUFFICES ASSUME ConfigurationTypeOK, PolicyInv, CatalogInv, NEW j \in Jobs,
                      RunBackup(j) \/ Upload(j) \/ Persist(j)
               PROVE  CatalogInv'
    BY DEF Work, ConfigurationIInv
  <1> USE DEF ConfigurationTypeOK, CatalogInv, ArtifactInv, ForgetInv, RunInv, StrayInv, There, settings,
        ledger, catalog, requests
  <1>1. CASE RunBackup(j)
    BY <1>1 DEF RunBackup, PolicyInv
  <1>2. CASE Upload(j)
    BY <1>2 DEF Upload
  <1>3. CASE Persist(j)
    BY <1>3 DEF Persist
  <1> QED
    BY <1>1, <1>2, <1>3

LEMMA RequestKeepsCatalog ==
  ASSUME ConfigurationTypeOK, CatalogInv, NEW c \in Clients, Request(c)
  PROVE  CatalogInv'
  <1> USE ConfigurationNames DEF ConfigurationTypeOK, CatalogInv, ArtifactInv, ForgetInv,
    RunInv, StrayInv, There, Addressed, Proceed, Reply, settings, ledger, catalog
  <1>1. ASSUME NEW x \in Addressed \cup Policies, CountReferences(c, x) PROVE CatalogInv'
    BY <1>1 DEF CountReferences
  <1>2. CASE DeleteRow(c)
    BY <1>2 DEF DeleteRow, ArtifactsIn
  <1>3. CASE DeleteArtifact(c)
    BY <1>3 DEF DeleteArtifact
  <1>4. ASSUME NEW j \in Jobs, DeleteObjects(c, j) PROVE CatalogInv'
    BY <1>4 DEF DeleteObjects
  <1> QED
    BY <1>1, <1>2, <1>3, <1>4 DEF Request

LEMMA CatalogStep == ConfigurationIInv /\ [ConfigurationNext]_cvars => CatalogInv'
  <1>1. CatalogInv /\ UNCHANGED cvars => CatalogInv'
    BY DEF CatalogInv, ArtifactInv, ForgetInv, RunInv, StrayInv, There, cvars, settings, ledger, catalog,
      requests
  <1>2. ConfigurationTypeOK /\ CatalogInv /\ Restart => CatalogInv'
    BY DEF ConfigurationTypeOK, CatalogInv, ArtifactInv, ForgetInv, RunInv, StrayInv, There, Restart,
      settings, catalog
  <1> QED
    BY <1>1, <1>2, EditKeepsCatalog, WorkKeepsCatalog, RequestKeepsCatalog
      DEF ConfigurationNext, ConfigurationIInv

-----------------------------------------------------------------------------
(* The theorems.                                                           *)

LEMMA ConfigurationInvariant == ConfigurationSpec => []ConfigurationIInv
  <1>1. ConfigurationInit => ConfigurationIInv
    <2>1. ConfigurationInit => PolicyInv /\ CatalogInv
      BY DEF ConfigurationInit, PolicyInv, CatalogInv, ArtifactInv, ForgetInv, RunInv, StrayInv, There,
        Addressed
    <2> QED
      BY <2>1, ConfigurationTypeInit DEF ConfigurationIInv
  <1>2. ConfigurationIInv /\ [ConfigurationNext]_cvars => ConfigurationIInv'
    BY ConfigurationTypeStep, PolicyStep, CatalogStep DEF ConfigurationIInv
  <1> QED
    BY <1>1, <1>2, PTL DEF ConfigurationSpec

(* Every variable of the configuration keeps its type.                     *)
THEOREM ConfigurationTypes == ConfigurationSpec => []ConfigurationTypeOK
  BY ConfigurationInvariant, PTL DEF ConfigurationIInv

(* Whatever is created, moved, rescoped and removed, and in whatever order *)
(* the statements of the requests fall, a policy that is there can be run. *)
THEOREM PoliciesAreRunnable == ConfigurationSpec => []PoliciesStayRunnable
  <1>1. ConfigurationIInv => PoliciesStayRunnable
    BY DEF ConfigurationIInv, PolicyInv, PoliciesStayRunnable
  <1> QED
    BY <1>1, ConfigurationInvariant, PTL

(* A backup whose destination stays where it was leaves the catalog by a   *)
(* deletion that has removed its objects, and its destination outlives it. *)
THEOREM NothingIsForgotten == ConfigurationSpec => BackupsAreNotForgotten
  <1>1. ConfigurationIInv => \A j \in artifact : There(storedIn[j])
    BY DEF ConfigurationIInv, CatalogInv, ArtifactInv
  <1>2. ConfigurationIInv /\ [ConfigurationNext]_cvars
          => [\A j \in artifact \ artifact' : objects[j] = Nothing \/ j \in strayed]_cvars
    <2> SUFFICES ASSUME ConfigurationIInv, ConfigurationNext
                 PROVE  \A j \in artifact \ artifact' : objects[j] = Nothing \/ j \in strayed
      OBVIOUS
    <2> USE DEF settings, ledger, catalog, requests
    <2>1. CASE Edit
      BY <2>1 DEF Edit, CreateTarget, MoveTarget, Rescope, CreateDestination, MoveDestination,
                  CreatePolicy, Enqueue
    <2>2. CASE Work
      BY <2>2 DEF Work, RunBackup, Upload, Persist
    <2>3. CASE Restart
      BY <2>3 DEF Restart
    <2>4. ASSUME NEW c \in Clients, Request(c)
          PROVE  \A j \in artifact \ artifact' : objects[j] = Nothing \/ j \in strayed
      BY <2>4 DEF Request, CountReferences, DeleteRow, DeleteArtifact, DeleteObjects, Reply,
                  ConfigurationIInv, CatalogInv, ForgetInv
    <2> QED
      BY <2>1, <2>2, <2>3, <2>4 DEF ConfigurationNext
  <1> QED
    BY <1>1, <1>2, ConfigurationInvariant, PTL DEF ConfigurationSpec, BackupsAreNotForgotten

-----------------------------------------------------------------------------
(* Delivery.  No connection is opened past the guard.  First what the six  *)
(* ranges of ALWAYS_DENIED hold, bit by bit.                               *)

LEMMA MaskNone == \A b \in Byte : Masked(b, 0) = 0
  <1>1. 2 ^ (8 - 0) = 256
    OBVIOUS
  <1>2. \A b \in Byte : b - (b % 256) = 0
    BY DEF Byte
  <1> QED
    BY <1>1, <1>2 DEF Masked

LEMMA MaskAll == \A b \in Byte : Masked(b, 8) = b
  <1>1. 2 ^ (8 - 8) = 1
    OBVIOUS
  <1>2. \A b \in Byte : b - (b % 1) = b
    BY DEF Byte
  <1> QED
    BY <1>1, <1>2 DEF Masked

LEMMA MaskTwo == \A b \in 128..191 : Masked(b, 2) = 128
  <1>1. 2 ^ (8 - 2) = 64
    OBVIOUS
  <1>2. \A b \in 128..191 : b - (b % 64) = 128
    OBVIOUS
  <1> QED
    BY <1>1, <1>2 DEF Masked

(* Which bytes a prefix speaks of.                                         *)
LEMMA BitsAre ==
  /\ \A i \in 1..16 : Bits(8, i) = IF i = 1 THEN 8 ELSE 0
  /\ \A i \in 1..16 : Bits(10, i) = IF i = 1 THEN 8 ELSE IF i = 2 THEN 2 ELSE 0
  /\ \A i \in 1..16 : Bits(16, i) = IF i < 3 THEN 8 ELSE 0
  /\ \A i \in 1..16 : Bits(128, i) = 8
  BY DEF Bits

LEMMA InRange ==
  ASSUME NEW n \in {4, 16}, NEW a \in [1..n -> Byte], NEW s \in [1..n -> Byte], NEW p,
         \A i \in 1..n : Masked(a[i], Bits(p, i)) = Masked(s[i], Bits(p, i))
  PROVE  InCidr(a, [bytes |-> s, prefix |-> p])
  <1>1. Len(a) = n /\ Len(s) = n
    BY SeqDef, LenProperties
  <1> QED
    BY <1>1 DEF InCidr

(* The six ranges hold what they are there for.                            *)
LEMMA ReservedIsDenied == \A a \in Reserved : InSome(a, AlwaysDenied)
  <1>1. ASSUME NEW a \in ReservedV4 PROVE InSome(a, AlwaysDenied)
    <2> USE DEF ReservedV4
    <2>1. CASE a[1] = 127
      <3>1. <<127, 0, 0, 0>> \in [1..4 -> Byte] 
        BY DEF Byte
      <3>2. InCidr(a, [bytes |-> <<127, 0, 0, 0>>, prefix |-> 8])
        BY <2>1, <3>1, InRange, BitsAre, MaskNone
      <3> QED
        BY <3>2 DEF InSome, AlwaysDenied
    <2>2. CASE a[1] = 0
      <3>1. Zeros(4) \in [1..4 -> Byte] /\ \A i \in 1..4 : Zeros(4)[i] = 0
        BY DEF Byte, Zeros
      <3>2. InCidr(a, [bytes |-> Zeros(4), prefix |-> 8])
        BY <2>2, <3>1, InRange, BitsAre, MaskNone
      <3> QED
        BY <3>2 DEF InSome, AlwaysDenied
    <2>3. CASE a[1] = 169 /\ a[2] = 254
      <3>1. <<169, 254, 0, 0>> \in [1..4 -> Byte] 
        BY DEF Byte
      <3>2. InCidr(a, [bytes |-> <<169, 254, 0, 0>>, prefix |-> 16])
        BY <2>3, <3>1, InRange, BitsAre, MaskNone
      <3> QED
        BY <3>2 DEF InSome, AlwaysDenied
    <2> QED
      BY <2>1, <2>2, <2>3
  <1>2. ASSUME NEW a \in ReservedV6 PROVE InSome(a, AlwaysDenied)
    <2> USE DEF ReservedV6
    <2>1. CASE a[1] = 254 /\ a[2] \in 128..191
      <3> DEFINE s == [Zeros(16) EXCEPT ![1] = 254, ![2] = 128]
      <3>1. s \in [1..16 -> Byte] /\ s[1] = 254 /\ s[2] = 128 /\ \A i \in 3..16 : s[i] = 0
        BY DEF Zeros, Byte
      <3> HIDE DEF s
      <3>2. \A i \in 1..16 : Masked(a[i], Bits(10, i)) = Masked(s[i], Bits(10, i))
        <4>0. a[1] \in Byte /\ a[2] \in Byte
          OBVIOUS
        <4>1. Masked(a[2], 2) = 128 /\ Masked(128, 2) = 128
          BY <2>1, MaskTwo
        <4>2. Bits(10, 1) = 8 /\ Bits(10, 2) = 2 /\ \A i \in 3..16 : Bits(10, i) = 0
          BY BitsAre
        <4>3. \A i \in 3..16 : Masked(a[i], Bits(10, i)) = 0 /\ Masked(s[i], Bits(10, i)) = 0
          BY <3>1, <4>2, MaskNone
        <4> QED
          BY <2>1, <3>1, <4>1, <4>2, <4>3
      <3>3. InCidr(a, [bytes |-> s, prefix |-> 10])
        BY <3>1, <3>2, InRange
      <3> QED
        BY <3>3 DEF InSome, AlwaysDenied, s
    <2>2. CASE (\A i \in 1..15 : a[i] = 0) /\ a[16] = 0
      <3>1. Zeros(16) \in [1..16 -> Byte] /\ \A i \in 1..16 : Zeros(16)[i] = a[i]
        BY <2>2 DEF Byte, Zeros
      <3>2. InCidr(a, [bytes |-> Zeros(16), prefix |-> 128])
        BY <3>1, InRange
      <3> QED
        BY <3>2 DEF InSome, AlwaysDenied
    <2>3. CASE (\A i \in 1..15 : a[i] = 0) /\ a[16] = 1
      <3> DEFINE s == [Zeros(16) EXCEPT ![16] = 1]
      <3>1. s \in [1..16 -> Byte] /\ \A i \in 1..16 : s[i] = a[i]
        BY <2>3 DEF Zeros, Byte
      <3>2. InCidr(a, [bytes |-> s, prefix |-> 128])
        BY <3>1, InRange
      <3> QED
        BY <3>2 DEF InSome, AlwaysDenied
    <2> QED
      BY <2>1, <2>2, <2>3
  <1> QED
    BY <1>1, <1>2 DEF Reserved

-----------------------------------------------------------------------------
(* The invariant.                                                          *)

(* What a row and a caller's connection may be.                            *)
StoredRows == [kind : Kinds, host : Names, told : Verdicts]
Asking     == [step : {"ask", "talking"}, why : {"save", "dial"}, row : Rows, kind : Kinds,
               host : Names, hop : 0..MaxRedirects]
Looking    == [step : {"ask", "talking"}, why : {"look"}, kind : Kinds, host : Names]
LookingUp  == [step : {"lookup"}, at : 0..MaxEvents, left : SUBSET SelfNames,
               found : SUBSET (Places \cup SelfAddresses), for : Asking \cup Looking]
Answering  == [step : {"answered"}, row : Rows, answer : {"ok", "failed"}]
RowTypes  == row \in [Rows -> {Unborn, Gone} \cup StoredRows]
LineTypes == line \in [Callers -> {Idle} \cup Asking \cup Looking \cup LookingUp \cup Answering]
CacheTypes ==
  /\ egress \in Configs /\ own \in [SelfNames -> SUBSET Places]
  /\ since \in [SelfNames -> [Places -> -Ttl..MaxEvents]]
  /\ known \in [at : -Ttl..MaxEvents, addresses : SUBSET (Places \cup SelfAddresses)]
  /\ clock \in Nat /\ events \in 0..MaxEvents /\ clock <= events
DeliveryTyped == RowTypes /\ LineTypes /\ CacheTypes /\ dialled \subseteq Rows /\ unasked \subseteq Rows

LEMMA DeliveryTypesInit == DeliveryInit => DeliveryTyped
  <1> SUFFICES ASSUME DeliveryInit PROVE DeliveryTyped
    OBVIOUS
  <1>1. -Ttl..MaxEvents = (0 - Ttl)..MaxEvents /\ 0 - Ttl \in -Ttl..MaxEvents
    BY DeliveryBounds
  <1>2. own \in [SelfNames -> SUBSET Places]
    BY DEF DeliveryInit, Bindings
  <1> QED
    BY <1>1, <1>2, DeliveryBounds DEF DeliveryInit, DeliveryTyped, RowTypes, LineTypes, CacheTypes,
      Unknown

(* The verdict of the guard on a connection leaves row and line as they    *)
(* should be.                                                              *)
LEMMA PermitTypes ==
  ASSUME DeliveryTyped, NEW c \in Callers, NEW l \in Asking \cup Looking,
         Permit(c, l) \/ Refuse(c, l)
  PROVE  RowTypes' /\ LineTypes' /\ dialled' \subseteq Rows
  <1> USE DEF DeliveryTyped, RowTypes, LineTypes
  <1>1. CASE Permit(c, l) /\ l.why = "save"
    <2>1. l \in Asking
      BY <1>1 DEF Looking
    <2>2. row[l.row] # Gone /\ row[l.row] # Unborn => row[l.row].told \in Verdicts
      BY <2>1 DEF StoredRows, Asking
    <2>3. RowTypes'
      BY <1>1, <2>1, <2>2 DEF Permit, Asking, StoredRows, Verdicts
    <2>4. LineTypes' /\ dialled' \subseteq Rows
      BY <1>1 DEF Permit
    <2> QED
      BY <2>3, <2>4
  <1>2. CASE Permit(c, l) /\ l.why # "save"
    <2>1. [l EXCEPT !.step = "talking"] \in Asking \cup Looking
      BY DEF Asking, Looking
    <2>2. l.why = "dial" => l.row \in Rows
      BY DEF Asking, Looking
    <2> QED
      BY <1>2, <2>1, <2>2 DEF Permit
  <1>3. CASE Refuse(c, l)
    <2>1. l.why = "dial" => [step |-> "answered", row |-> l.row, answer |-> "failed"] \in Answering
      BY DEF Asking, Looking, Answering
    <2> QED
      BY <1>3, <2>1 DEF Refuse
  <1> QED
    BY <1>1, <1>2, <1>3

(* What asks, and what a look-up is for.                                   *)
LEMMA Askers ==
  ASSUME LineTypes, NEW c \in Callers
  PROVE  /\ line[c].step = "ask" => line[c] \in Asking \cup Looking
         /\ line[c].step = "lookup" => line[c] \in LookingUp /\ line[c].for \in Asking \cup Looking
  BY DEF LineTypes, Idle, Asking, Looking, LookingUp, Answering

(* A look-up as it begins.                                                 *)
NewLook(l) ==
  [step |-> "lookup", at |-> clock, left |-> SelfNames, found |-> SelfAddresses, for |-> l]

LEMMA AskTypes == ASSUME DeliveryTyped, NEW c \in Callers, Ask(c) PROVE DeliveryTyped'
  <1>1. line[c] \in Asking \cup Looking
    BY Askers DEF DeliveryTyped, Ask
  <1>2. CASE Permit(c, line[c]) \/ Refuse(c, line[c])
    BY <1>1, <1>2, PermitTypes DEF DeliveryTyped, CacheTypes, Ask
  <1>3. CASE line' = [line EXCEPT ![c] = NewLook(line[c])] /\ UNCHANGED <<row, dialled>>
    <2>1. NewLook(line[c]) \in LookingUp
      <3>1. clock \in 0..MaxEvents
        BY DeliveryBounds DEF DeliveryTyped, CacheTypes
      <3> QED
        BY <1>1, <3>1 DEF LookingUp, NewLook
    <2> QED
      BY <1>3, <2>1 DEF DeliveryTyped, RowTypes, LineTypes, CacheTypes, Ask
  <1> QED
    BY <1>2, <1>3 DEF Ask, Judge, NewLook

(* One more name is asked.                                                 *)
LEMMA Resolves ==
  ASSUME DeliveryTyped, NEW c \in Callers, NEW name \in SelfNames, ResolveOwn(c, name)
  PROVE  /\ line[c] \in LookingUp /\ line'[c] \in LookingUp
         /\ line'[c] = [line[c] EXCEPT !.left = @ \ {name}, !.found = @ \cup own[name]]
         /\ line' = [line EXCEPT ![c] = line'[c]]
  <1>1. line[c] \in LookingUp
    BY Askers DEF DeliveryTyped, ResolveOwn
  <1>2. line'[c] = [line[c] EXCEPT !.left = @ \ {name}, !.found = @ \cup own[name]]
    BY DEF ResolveOwn, DeliveryTyped, LineTypes
  <1>3. own[name] \subseteq Places
    BY DEF DeliveryTyped, CacheTypes
  <1>4. line'[c] \in LookingUp
    BY <1>1, <1>2, <1>3 DEF LookingUp
  <1>5. line' = [line EXCEPT ![c] = line'[c]]
    BY DEF ResolveOwn, DeliveryTyped, LineTypes
  <1> QED
    BY <1>1, <1>2, <1>4, <1>5

LEMMA ResolveTypes ==
  ASSUME DeliveryTyped, NEW c \in Callers, NEW name \in SelfNames, ResolveOwn(c, name)
  PROVE  DeliveryTyped'
  <1>1. LineTypes'
    BY Resolves DEF DeliveryTyped, LineTypes
  <1> QED
    BY <1>1 DEF ResolveOwn, DeliveryTyped, RowTypes, CacheTypes

LEMMA LookedUpTypes == ASSUME DeliveryTyped, NEW c \in Callers, LookedUp(c) PROVE DeliveryTyped'
  <1>1. line[c] \in LookingUp
    BY Askers DEF DeliveryTyped, LookedUp
  <1>2. line[c].for \in Asking \cup Looking /\ line[c].at \in 0..MaxEvents
        /\ line[c].found \subseteq Places \cup SelfAddresses
    BY <1>1 DEF LookingUp
  <1>3. Permit(c, line[c].for) \/ Refuse(c, line[c].for)
    BY DEF LookedUp, Judge
  <1>4. CacheTypes'
    <2>1. line[c].at \in -Ttl..MaxEvents
      BY <1>2, DeliveryBounds
    <2> QED
      BY <1>2, <2>1 DEF LookedUp, DeliveryTyped, CacheTypes
  <1>5. unasked' = unasked
    BY DEF LookedUp
  <1> QED
    BY <1>2, <1>3, <1>4, <1>5, PermitTypes DEF DeliveryTyped

LEMMA LookAtTypes ==
  ASSUME DeliveryTyped, NEW c \in Callers, NEW kind \in Kinds, NEW name \in Names,
         LookAt(c, kind, name)
  PROVE  DeliveryTyped' /\ line' = [line EXCEPT ![c] = Look(kind, name)] /\ Look(kind, name) \in Looking
  <1>1. Look(kind, name) \in Looking
    BY DEF Look, Looking
  <1> QED
    BY <1>1 DEF LookAt, DeliveryTyped, RowTypes, LineTypes, CacheTypes

LEMMA CallTypes ==
  ASSUME DeliveryTyped, NEW c \in Callers, NEW r \in Rows, Called(c, r) PROVE DeliveryTyped'
  <1> USE DEF DeliveryTyped, RowTypes, LineTypes, CacheTypes
  <1>1. CASE Form(c, r)
    <2>1. PICK kind \in Kinds, name \in Names :
            line' = [line EXCEPT ![c] = Line("save", r, kind, name)]
      BY <1>1 DEF Form
    <2>2. Line("save", r, kind, name) \in Asking
      BY DeliveryBounds DEF Line, Asking
    <2> QED
      BY <1>1, <2>1, <2>2 DEF Form
  <1>2. CASE Dial(c, r) /\ Stored(r)
    <2>1. row[r].kind \in Kinds /\ row[r].host \in Names
      BY <1>2 DEF Stored, StoredRows, Unborn, Gone, Kinds, Channels
    <2>2. Line("dial", r, row[r].kind, row[r].host) \in Asking
      BY <2>1, DeliveryBounds DEF Line, Asking
    <2> QED
      BY <1>2, <2>2 DEF Dial
  <1>3. CASE JobBucket(c, r)
    <2>1. row[r].kind = "destination" /\ row[r].host \in Names
      BY <1>3 DEF JobBucket, StoredRows, Unborn, Gone
    <2> QED
      BY <1>3, <2>1, LookAtTypes DEF JobBucket, Kinds, Channels
  <1> QED
    BY <1>1, <1>2, <1>3 DEF Called, Notify, ProbeRow, OpenBucket, Stored, Kinds, Channels

(* A connection that follows a redirect.                                   *)
Hop(l, name) ==
  [step |-> "ask", why |-> l.why, row |-> l.row, kind |-> l.kind, host |-> name, hop |-> l.hop + 1]

LEMMA Talks ==
  ASSUME LineTypes, NEW c \in Callers, Connect(c)
  PROVE  /\ line[c] \in Asking /\ line[c].step = "talking"
         /\ line[c].why = "dial"
         /\ Follow(c) => /\ line[c].hop < MaxRedirects
                         /\ \E name \in Names : line' = [line EXCEPT ![c] = Hop(line[c], name)]
  <1>1. line[c].step = "talking" /\ line[c].why = "dial"
    BY DEF Connect, Follow, Posted, Mailed, Probed, Canaried, Talking
  <1>2. line[c] \in Asking
    BY <1>1 DEF LineTypes, Idle, Looking, LookingUp, Answering
  <1>3. ASSUME Follow(c) PROVE \E name \in Names : line' = [line EXCEPT ![c] = Hop(line[c], name)]
    <2>1. PICK name \in Names :
            line' = [line EXCEPT ![c].step = "ask", ![c].host = name, ![c].hop = @ + 1]
      BY <1>3 DEF Follow
    <2>2. line'[c] = Hop(line[c], name)
      BY <1>2, <2>1 DEF Asking, Hop, LineTypes
    <2>3. line' = [line EXCEPT ![c] = line'[c]]
      BY <2>1 DEF LineTypes
    <2> QED
      BY <2>2, <2>3
  <1> QED
    BY <1>1, <1>2, <1>3 DEF Follow

LEMMA ConnectTypes ==
  ASSUME DeliveryTyped, NEW c \in Callers, Connect(c) PROVE DeliveryTyped'
  <1> USE DEF DeliveryTyped, RowTypes, LineTypes, CacheTypes
  <1>1. line[c] \in Asking
    BY Talks
  <1>2. CASE Follow(c)
    <2>1. PICK name \in Names : line' = [line EXCEPT ![c] = Hop(line[c], name)]
      BY <1>2, Talks
    <2>2. Hop(line[c], name) \in Asking
      BY <1>1, <1>2, DeliveryBounds, Talks DEF Asking, Hop
    <2>3. LineTypes'
      BY <2>1, <2>2
    <2> QED
      BY <1>2, <2>3 DEF Follow
  <1>3. ASSUME NEW found \in {"ok", "failed"}, Answered(c, found) PROVE DeliveryTyped'
    <2>1. [step |-> "answered", row |-> line[c].row, answer |-> found] \in Answering
      BY <1>1 DEF Asking, Answering
    <2> QED
      BY <1>3, <2>1 DEF Answered
  <1> QED
    BY <1>2, <1>3 DEF Connect, Posted, Mailed, Probed, Canaried, Outcome

LEMMA LookedTypes == ASSUME DeliveryTyped, NEW c \in Callers, Looked(c) PROVE DeliveryTyped'
  BY DEF Looked, DeliveryTyped, RowTypes, LineTypes, CacheTypes

LEMMA TellTypes ==
  ASSUME DeliveryTyped, NEW c \in Callers, NEW kinds, Tell(c, kinds) PROVE DeliveryTyped'
  <1> USE DEF DeliveryTyped, RowTypes, LineTypes, CacheTypes
  <1>1. line[c] \in Answering
    BY DEF Tell, Idle, Looking, LookingUp, Asking
  <1>2. CASE Stored(line[c].row)
    <2>1. row[line[c].row] \in StoredRows
      BY <1>1, <1>2 DEF Stored, Unborn, Gone, Kinds, Channels, Answering
    <2>2. [row[line[c].row] EXCEPT !.told = line[c].answer] \in StoredRows
      BY <1>1, <2>1 DEF StoredRows, Answering, Verdicts
    <2> QED
      BY <1>1, <1>2, <2>2 DEF Tell, Answering
  <1>3. CASE ~Stored(line[c].row)
    BY <1>3 DEF Tell
  <1> QED
    BY <1>2, <1>3

(* What is not a caller's step.                                            *)
World ==
  \/ \E r \in Rows : Remove(r) \/ JobDials(r)
  \/ Tick \/ (\E name \in SelfNames : MoveService(name)) \/ Reboot

LEMMA WorldTypes == ASSUME DeliveryTyped, World PROVE DeliveryTyped'
  <1> USE DEF DeliveryTyped, RowTypes, LineTypes, CacheTypes
  <1>1. ASSUME NEW r \in Rows, Remove(r) PROVE DeliveryTyped'
    BY <1>1 DEF Remove
  <1>2. ASSUME NEW r \in Rows, JobDials(r) PROVE DeliveryTyped'
    BY <1>2 DEF JobDials
  <1>3. CASE Tick
    <2>1. clock' \in Nat /\ events' \in 0..MaxEvents /\ clock' <= events'
      BY <1>3, DeliveryBounds DEF Tick, Event
    <2> QED
      BY <1>3, <2>1 DEF Tick
  <1>4. ASSUME NEW name \in SelfNames, MoveService(name) PROVE DeliveryTyped'
    <2>1. clock' \in Nat /\ events' \in 0..MaxEvents /\ clock' <= events'
      BY <1>4, DeliveryBounds DEF MoveService, Event
    <2>2. PICK place \in Bindings :
            /\ own' = [own EXCEPT ![name] = place]
            /\ since' = [since EXCEPT ![name] =
                 [a \in Places |-> IF a \in place \ own[name] THEN clock ELSE since[name][a]]]
      BY <1>4 DEF MoveService
    <2>3. own' \in [SelfNames -> SUBSET Places]
      BY <2>2 DEF Bindings
    <2>4. clock \in -Ttl..MaxEvents
      BY DeliveryBounds
    <2>5. since' \in [SelfNames -> [Places -> -Ttl..MaxEvents]]
      BY <2>2, <2>4
    <2> QED
      BY <1>4, <2>1, <2>3, <2>5 DEF MoveService
  <1>5. CASE Reboot
    <2>1. clock' \in Nat /\ events' \in 0..MaxEvents /\ clock' <= events'
      BY <1>5, DeliveryBounds DEF Reboot, Event
    <2>2. known' \in [at : -Ttl..MaxEvents, addresses : SUBSET (Places \cup SelfAddresses)]
      BY <1>5, DeliveryBounds DEF Reboot, Unknown
    <2> QED
      BY <1>5, <2>1, <2>2 DEF Reboot
  <1> QED
    BY <1>1, <1>2, <1>3, <1>4, <1>5 DEF World

(* Every step, by whose it is.                                             *)
LEMMA NextSteps ==
  DeliveryNext =>
    \/ \E c \in Callers :
         \/ Ask(c) \/ (\E name \in SelfNames : ResolveOwn(c, name)) \/ LookedUp(c)
         \/ Connect(c) \/ Looked(c) \/ (\E name \in Names : LookAt(c, "target", name))
         \/ (\E r \in Rows : Called(c, r)) \/ (\E kinds : Tell(c, kinds))
    \/ World
  BY DEF DeliveryNext, Discover, RecordDelivery, RecordProbe, RecordCanary, World

LEMMA DeliveryTypeStep == DeliveryTyped /\ [DeliveryNext]_dvars => DeliveryTyped'
  <1>1. DeliveryTyped /\ UNCHANGED dvars => DeliveryTyped'
    BY DEF DeliveryTyped, RowTypes, LineTypes, CacheTypes, dvars
  <1>2. "target" \in Kinds
    BY DEF Kinds
  <1> QED
    BY <1>1, <1>2, NextSteps, AskTypes, ResolveTypes, LookedUpTypes, LookAtTypes, CallTypes,
      ConnectTypes, LookedTypes, TellTypes, WorldTypes

-----------------------------------------------------------------------------
(* The guard.                                                              *)

(* What a resolution that began at a tick has missed has come since.       *)
Missed(name, begun, found) ==
  \A a \in Places : a \in own[name] => a \in found \/ since[name][a] >= begun
(* The cache misses no address but one that came after its resolution      *)
(* began.                                                                  *)
CacheInv ==
  /\ Fresh => SelfAddresses \subseteq known.addresses
  /\ known.at <= clock
  /\ \A name \in SelfNames : Missed(name, known.at, known.addresses)
(* What waits for the own addresses has passed every other rule, and       *)
(* misses of the names it asked no address but one that came meanwhile.    *)
LookInv ==
  \A c \in Callers : line[c].step = "lookup" =>
    /\ line[c].for.host \notin SelfNames /\ AskOwn(line[c].for.host)
    /\ line[c].at <= clock /\ SelfAddresses \subseteq line[c].found
    /\ \A name \in SelfNames \ line[c].left : Missed(name, line[c].at, line[c].found)

(* The deployment's own names do not get as far as the own addresses.      *)
LEMMA NotBarred == ASSUME NEW name, AskOwn(name) PROVE name \notin SelfNames
  BY DEF AskOwn, Barred

(* A service that moves has its new addresses from now on.                 *)
LEMMA Moves ==
  ASSUME DeliveryTyped, NEW moved \in SelfNames, MoveService(moved),
         NEW name \in SelfNames, NEW begun \in Int, begun <= clock, NEW found, Missed(name, begun, found)
  PROVE  Missed(name, begun, found)'
  <1>1. PICK place \in Bindings :
          /\ own' = [own EXCEPT ![moved] = place]
          /\ since' = [since EXCEPT ![moved] =
               [a \in Places |-> IF a \in place \ own[moved] THEN clock ELSE since[moved][a]]]
    BY DEF MoveService
  <1> SUFFICES ASSUME NEW a \in Places, a \in own'[name], a \notin found
               PROVE  since'[name][a] >= begun
    BY DEF Missed
  <1>2. CASE name # moved
    BY <1>1, <1>2 DEF Missed, DeliveryTyped, CacheTypes
  <1>3. CASE name = moved
    <2>1. since'[name][a] = IF a \notin own[name] THEN clock ELSE since[name][a]
      BY <1>1, <1>3 DEF DeliveryTyped, CacheTypes
    <2> QED
      BY <2>1 DEF Missed
  <1> QED
    BY <1>2, <1>3

(* A look-up stays as it is, begins after the other rules, or asks a name. *)
LookMoved(c) ==
  /\ UNCHANGED egress
  /\ \/ line'[c] = line[c]
     \/ \E l \in Asking \cup Looking :
          AskOwn(l.host) /\ line'[c] = NewLook(l) /\ UNCHANGED <<own, since, clock>>
     \/ \E name \in SelfNames : ResolveOwn(c, name)

(* Nothing else leads to a look-up.                                        *)
LEMMA LookMoves ==
  ASSUME DeliveryTyped, [DeliveryNext]_dvars, NEW c \in Callers, line'[c].step = "lookup"
  PROVE  LookMoved(c)
  <1>0. ASSUME line'[c] = line[c], UNCHANGED egress PROVE LookMoved(c)
    BY <1>0 DEF LookMoved
  <1>1. ASSUME NEW d \in Callers, NEW l \in Asking \cup Looking, Permit(d, l) \/ Refuse(d, l)
        PROVE  line'[c] = line[c]
    <2>1. line'[d].step # "lookup"
      <3>1. [l EXCEPT !.step = "talking"].step = "talking"
        BY DEF Asking, Looking
      <3>2. CASE line'[d] = Idle
        BY <3>2 DEF Idle
      <3>3. CASE line'[d] = [l EXCEPT !.step = "talking"]
        BY <3>1, <3>3
      <3>4. CASE line'[d] = [step |-> "answered", row |-> l.row, answer |-> "failed"]
        BY <3>4
      <3> QED
        BY <1>1, <3>2, <3>3, <3>4 DEF DeliveryTyped, LineTypes, Permit, Refuse
    <2> QED
      BY <1>1, <2>1 DEF DeliveryTyped, LineTypes, Permit, Refuse
  <1>2. ASSUME NEW d \in Callers, Ask(d) PROVE LookMoved(c)
    <2>1. line[d] \in Asking \cup Looking
      BY <1>2, Askers DEF DeliveryTyped, Ask
    <2>2. CASE Permit(d, line[d]) \/ Refuse(d, line[d])
      BY <1>0, <1>1, <1>2, <2>1, <2>2 DEF Ask
    <2>3. CASE AskOwn(line[d].host) /\ line' = [line EXCEPT ![d] = NewLook(line[d])]
      <3>1. c = d => LookMoved(c)
        BY <1>2, <2>1, <2>3 DEF Ask, LookMoved, DeliveryTyped, LineTypes
      <3>2. c # d => LookMoved(c)
        BY <1>0, <1>2, <2>3 DEF Ask, DeliveryTyped, LineTypes
      <3> QED
        BY <3>1, <3>2
    <2> QED
      BY <1>2, <2>2, <2>3 DEF Ask, Judge, NewLook
  <1>3. ASSUME NEW d \in Callers, NEW name \in SelfNames, ResolveOwn(d, name) PROVE LookMoved(c)
    <2>1. c = d => LookMoved(c)
      BY <1>3 DEF LookMoved, ResolveOwn
    <2>2. c # d => line'[c] = line[c]
      BY <1>3 DEF ResolveOwn, DeliveryTyped, LineTypes
    <2> QED
      BY <1>0, <1>3, <2>1, <2>2 DEF ResolveOwn
  <1>4. ASSUME NEW d \in Callers, LookedUp(d) PROVE LookMoved(c)
    <2>1. line[d].for \in Asking \cup Looking
      BY <1>4, Askers DEF DeliveryTyped, LookedUp
    <2> QED
      BY <1>0, <1>1, <1>4, <2>1 DEF LookedUp, Judge
  <1>5. ASSUME NEW d \in Callers, NEW r \in Rows, Called(d, r) PROVE LookMoved(c)
    <2>1. line'[d].step # "lookup" /\ UNCHANGED egress
      BY <1>5 DEF DeliveryTyped, LineTypes, Called, Form, Notify, ProbeRow, OpenBucket, Dial, Line,
        JobBucket, LookAt, Look
    <2>2. c # d => line'[c] = line[c]
      BY <1>5 DEF DeliveryTyped, LineTypes, Called, Form, Notify, ProbeRow, OpenBucket, Dial,
        JobBucket, LookAt
    <2> QED
      BY <1>0, <2>1, <2>2
  <1>6. ASSUME NEW d \in Callers, NEW name, LookAt(d, "target", name) PROVE LookMoved(c)
    <2>1. line'[d].step # "lookup" /\ UNCHANGED egress
      BY <1>6 DEF DeliveryTyped, LineTypes, LookAt, Look
    <2>2. c # d => line'[c] = line[c]
      BY <1>6 DEF DeliveryTyped, LineTypes, LookAt
    <2> QED
      BY <1>0, <2>1, <2>2
  <1>7. ASSUME NEW d \in Callers, Connect(d) PROVE LookMoved(c)
    <2>3. line'[d].step # "lookup"
      <3>1. CASE Follow(d)
        BY <1>7, <3>1, Talks DEF DeliveryTyped, LineTypes, Hop
      <3>2. ASSUME NEW found, Answered(d, found) PROVE line'[d].step # "lookup"
        BY <3>2 DEF DeliveryTyped, LineTypes, Answered
      <3> QED
        BY <1>7, <3>1, <3>2 DEF Connect, Posted, Mailed, Probed, Canaried, Outcome
    <2>4. line'[c] = line[c] /\ UNCHANGED egress
      BY <1>7, <2>3 DEF DeliveryTyped, LineTypes, Connect, Follow, Posted, Mailed, Probed,
        Canaried, Outcome, Answered
    <2> QED
      BY <1>0, <2>4
  <1>8. ASSUME NEW d \in Callers, Looked(d) \/ (\E kinds : Tell(d, kinds)) PROVE LookMoved(c)
    <2>1. line'[c] = line[c] /\ UNCHANGED egress
      BY <1>8 DEF DeliveryTyped, LineTypes, Looked, Tell, Idle
    <2> QED
      BY <1>0, <2>1
  <1>9. CASE World \/ UNCHANGED dvars
    <2>1. CASE Reboot
      BY <2>1 DEF Reboot, Idle
    <2>2. CASE ~Reboot
      <3>1. line'[c] = line[c] /\ UNCHANGED egress
        BY <1>9, <2>2 DEF World, Remove, JobDials, Tick, MoveService, dvars
      <3> QED
        BY <1>0, <3>1
    <2> QED
      BY <2>1, <2>2
  <1> QED
    BY <1>2, <1>3, <1>4, <1>5, <1>6, <1>7, <1>8, <1>9, NextSteps

(* What a step does to the own addresses and to the clock.                 *)
LEMMA OwnMoves ==
  ASSUME DeliveryTyped, [DeliveryNext]_dvars
  PROVE  \/ UNCHANGED <<own, since, clock>>
         \/ Tick
         \/ \E name \in SelfNames : MoveService(name)
  <1>1. ASSUME NEW c \in Callers,
               \/ Ask(c) \/ (\E name \in SelfNames : ResolveOwn(c, name)) \/ LookedUp(c)
               \/ Connect(c) \/ Looked(c) \/ (\E name \in Names : LookAt(c, "target", name))
        PROVE  UNCHANGED <<own, since, clock>>
    BY <1>1 DEF Ask, ResolveOwn, LookedUp, Connect, Follow, Posted, Mailed, Probed, Canaried,
      Outcome, Answered, Looked, LookAt
  <1>2. ASSUME NEW c \in Callers, (\E r \in Rows : Called(c, r)) \/ (\E kinds : Tell(c, kinds))
        PROVE  UNCHANGED <<own, since, clock>>
    BY <1>2 DEF Called, Form, Notify, ProbeRow, OpenBucket, Dial, JobBucket, LookAt, Tell
  <1>3. CASE UNCHANGED dvars \/ World
    BY <1>3 DEF dvars, World, Remove, JobDials, Reboot
  <1> QED
    BY <1>1, <1>2, <1>3, NextSteps

(* The clock does not go back.                                             *)
LEMMA Later ==
  ASSUME DeliveryTyped, [DeliveryNext]_dvars, NEW begun \in Int, begun <= clock PROVE begun <= clock'
  <1>1. clock' = clock \/ clock' = clock + 1
    BY OwnMoves DEF Tick, MoveService
  <1> QED
    BY <1>1 DEF DeliveryTyped, CacheTypes

(* What a resolution missed it missed for the same reason later on.        *)
LEMMA StillMissed ==
  ASSUME DeliveryTyped, [DeliveryNext]_dvars, NEW name \in SelfNames, NEW begun \in Int,
         begun <= clock, NEW found, Missed(name, begun, found)
  PROVE  Missed(name, begun, found)' /\ begun <= clock'
  <1>1. CASE UNCHANGED <<own, since, clock>>
    BY <1>1 DEF Missed
  <1>2. CASE Tick
    BY <1>2 DEF Tick, Missed, DeliveryTyped, CacheTypes
  <1>3. ASSUME NEW moved \in SelfNames, MoveService(moved)
        PROVE  Missed(name, begun, found)' /\ begun <= clock'
    BY <1>3, Moves DEF MoveService
  <1> QED
    BY <1>1, <1>2, <1>3, OwnMoves

LEMMA LookStep == DeliveryTyped /\ LookInv /\ [DeliveryNext]_dvars => LookInv'
  <1> SUFFICES ASSUME DeliveryTyped, DeliveryTyped', LookInv, [DeliveryNext]_dvars,
                      NEW c \in Callers, line'[c].step = "lookup"
               PROVE  /\ line'[c].for.host \notin SelfNames /\ AskOwn(line[c].for.host)'
                      /\ line'[c].at <= clock' /\ SelfAddresses \subseteq line'[c].found
                      /\ \A name \in SelfNames \ line'[c].left :
                           Missed(name, line[c].at, line[c].found)'
    BY DeliveryTypeStep DEF LookInv
  <1>1. UNCHANGED egress
    BY LookMoves DEF LookMoved
  <1>2. ASSUME AskOwn(line'[c].for.host)
        PROVE  line'[c].for.host \notin SelfNames /\ AskOwn(line[c].for.host)'
    BY <1>1, <1>2, NotBarred DEF AskOwn, Waved, Barred, Resolve
  <1>3. CASE line'[c] = line[c]
    <2>1. line[c].at \in Int
      BY <1>3, Askers DEF DeliveryTyped, LookingUp
    <2>2. /\ AskOwn(line[c].for.host) /\ line[c].at <= clock /\ SelfAddresses \subseteq line[c].found
          /\ \A name \in SelfNames \ line[c].left : Missed(name, line[c].at, line[c].found)
      BY <1>3 DEF LookInv
    <2>3. \A name \in SelfNames \ line[c].left : Missed(name, line[c].at, line[c].found)'
      <3> SUFFICES ASSUME NEW name \in SelfNames \ line[c].left
                   PROVE  Missed(name, line[c].at, line[c].found)'
        BY <1>3
      <3>1. PICK begun \in Int, found \in {line[c].found} : begun = line[c].at
        BY <2>1
      <3>2. Missed(name, begun, found)'
        BY <2>2, <3>1, StillMissed
      <3> QED
        BY <1>3, <3>1, <3>2 DEF Missed
    <2>4. line[c].at <= clock'
      BY <2>1, <2>2, Later
    <2> QED
      BY <1>2, <1>3, <2>2, <2>3, <2>4
  <1>4. ASSUME NEW l \in Asking \cup Looking, AskOwn(l.host), line'[c] = NewLook(l),
               UNCHANGED <<own, since, clock>>
        PROVE  /\ line'[c].for.host \notin SelfNames /\ AskOwn(line[c].for.host)'
               /\ line'[c].at <= clock' /\ SelfAddresses \subseteq line'[c].found
               /\ \A name \in SelfNames \ line'[c].left :
                    Missed(name, line[c].at, line[c].found)'
    <2>1. line'[c].for = l /\ line'[c].at = clock /\ line'[c].found = SelfAddresses
          /\ line'[c].left = SelfNames
      BY <1>4 DEF NewLook
    <2> QED
      BY <1>2, <1>4, <2>1 DEF DeliveryTyped, CacheTypes
  <1>5. ASSUME NEW name \in SelfNames, ResolveOwn(c, name)
        PROVE  /\ line'[c].for.host \notin SelfNames /\ AskOwn(line[c].for.host)'
               /\ line'[c].at <= clock' /\ SelfAddresses \subseteq line'[c].found
               /\ \A service \in SelfNames \ line'[c].left :
                    Missed(service, line[c].at, line[c].found)'
    <2>1. /\ line[c] \in LookingUp /\ line[c].step = "lookup"
          /\ line'[c].for = line[c].for /\ line'[c].at = line[c].at
          /\ line'[c].left = line[c].left \ {name} /\ line'[c].found = line[c].found \cup own[name]
      <3>1. line[c] \in LookingUp
        BY <1>5, Resolves
      <3>2. line'[c] = [line[c] EXCEPT !.left = @ \ {name}, !.found = @ \cup own[name]]
        BY <1>5, Resolves
      <3> QED
        BY <3>1, <3>2 DEF LookingUp
    <2>2. UNCHANGED <<own, since, clock>>
      BY <1>5 DEF ResolveOwn
    <2>3. ASSUME NEW service \in SelfNames \ line'[c].left
          PROVE  Missed(service, line[c].at, line[c].found)'
      <3>1. CASE service = name
        BY <2>1, <2>2, <3>1 DEF Missed
      <3>2. CASE service # name
        <4>1. Missed(service, line[c].at, line[c].found)
          BY <2>1, <2>3, <3>2 DEF LookInv
        <4> QED
          BY <2>1, <2>2, <4>1 DEF Missed
      <3> QED
        BY <3>1, <3>2
    <2>4. AskOwn(line'[c].for.host) /\ line'[c].at <= clock' /\ SelfAddresses \subseteq line'[c].found
      BY <2>1, <2>2 DEF LookInv
    <2> QED
      BY <1>2, <2>3, <2>4
  <1> QED
    BY <1>3, <1>4, <1>5, LookMoves DEF LookMoved

LEMMA CacheStep == DeliveryTyped /\ CacheInv /\ LookInv /\ [DeliveryNext]_dvars => CacheInv'
  <1> SUFFICES ASSUME DeliveryTyped, CacheInv, LookInv, [DeliveryNext]_dvars PROVE CacheInv'
    OBVIOUS
  <1> USE DEF DeliveryTyped, CacheTypes
  <1>1. CASE UNCHANGED known
    <2>1. known.at \in Int
      BY DeliveryBounds
    <2>2. \A name \in SelfNames : Missed(name, known.at, known.addresses)'
      BY <1>1, <2>1, StillMissed DEF CacheInv, Missed
    <2>3. clock' >= clock /\ clock' \in Int
      <3>1. UNCHANGED clock \/ clock' = clock + 1
        BY OwnMoves DEF Tick, MoveService
      <3> QED
        BY <3>1
    <2> QED
      BY <1>1, <2>1, <2>2, <2>3, DeliveryBounds DEF CacheInv, Fresh
  <1>2. ASSUME NEW c \in Callers, LookedUp(c) PROVE CacheInv'
    <2>1. /\ line[c].step = "lookup" /\ line[c].left = {} /\ UNCHANGED <<own, since, clock>>
          /\ known'.at = line[c].at /\ known'.addresses = line[c].found
      BY <1>2 DEF LookedUp
    <2>2. /\ line[c].at <= clock /\ SelfAddresses \subseteq line[c].found
          /\ \A name \in SelfNames : Missed(name, line[c].at, line[c].found)
      BY <2>1 DEF LookInv
    <2> QED
      BY <2>1, <2>2 DEF CacheInv, Missed
  <1>3. CASE Reboot
    <2>1. known'.at = 0 - Ttl /\ UNCHANGED <<own, since, clock>>
      BY <1>3 DEF Reboot, Unknown
    <2>2. ~Fresh' /\ known'.at <= clock'
      BY <2>1, DeliveryBounds DEF Fresh
    <2>3. \A name \in SelfNames, a \in Places : since[name][a] >= 0 - Ttl
      BY DeliveryBounds
    <2> QED
      BY <2>1, <2>2, <2>3 DEF CacheInv, Missed
  <1> QED
    <2>1. ASSUME NEW c \in Callers,
                 \/ Ask(c) \/ (\E name \in SelfNames : ResolveOwn(c, name))
                 \/ Connect(c) \/ Looked(c) \/ (\E name \in Names : LookAt(c, "target", name))
          PROVE  UNCHANGED known
      BY <2>1 DEF Ask, ResolveOwn, Connect, Follow, Posted, Mailed, Probed, Canaried, Outcome,
        Answered, Looked, LookAt
    <2>2. ASSUME NEW c \in Callers, (\E r \in Rows : Called(c, r)) \/ (\E kinds : Tell(c, kinds))
          PROVE  UNCHANGED known
      BY <2>2 DEF Called, Form, Notify, ProbeRow, OpenBucket, Dial, JobBucket, LookAt, Tell
    <2>3. (World /\ ~Reboot) \/ UNCHANGED dvars => UNCHANGED known
      BY DEF World, Remove, JobDials, Tick, MoveService, dvars
    <2> QED
      BY <1>1, <1>2, <1>3, <2>1, <2>2, <2>3, NextSteps

(* A name the guard lets through is one the property lets through.         *)
LEMMA LetThrough ==
  ASSUME DeliveryTyped, CacheInv, LookInv, NEW c \in Callers, NEW name, AskOwn(name), NEW ours,
         Resolve(name) \cap ours = {},
         \/ ours = known.addresses /\ Fresh
         \/ ours = line[c].found /\ line[c].step = "lookup" /\ line[c].left = {}
  PROVE  Innocent(c, name)
  <1> SUFFICES ASSUME NEW a \in Resolve(name)
               PROVE  /\ name \notin SelfNames /\ a \notin Reserved /\ a \notin SelfAddresses
                      /\ ~InSome(a, egress.deny)
                      /\ \A service \in SelfNames : a \in own[service] => Unseen(c, service, a)
    BY DEF Innocent
  <1>1. name \notin SelfNames /\ ~InSome(a, egress.deny \cup AlwaysDenied)
    BY DEF AskOwn, Waved, Barred
  <1>2. ~InSome(a, egress.deny) /\ ~InSome(a, AlwaysDenied)
    BY <1>1 DEF InSome
  <1>3. a \notin Reserved
    BY <1>2, ReservedIsDenied
  <1>4. a \notin ours /\ SelfAddresses \subseteq ours
    BY DEF CacheInv, LookInv
  <1>5. ASSUME NEW service \in SelfNames, a \in own[service] PROVE Unseen(c, service, a)
    <2>1. a \in Places /\ since[service][a] \in Int /\ clock \in Int /\ known.at \in Int
      BY <1>5, DeliveryBounds DEF DeliveryTyped, CacheTypes
    <2>2. CASE ours = known.addresses /\ Fresh
      <3>1. since[service][a] >= known.at
        BY <1>4, <1>5, <2>1, <2>2 DEF CacheInv, Missed
      <3> QED
        BY <2>1, <2>2, <3>1, DeliveryBounds DEF Fresh, Unseen
    <2>3. CASE ours = line[c].found /\ line[c].step = "lookup" /\ line[c].left = {}
      BY <1>4, <1>5, <2>1, <2>3 DEF LookInv, Missed, Unseen
    <2> QED
      BY <2>2, <2>3
  <1> QED
    BY <1>1, <1>2, <1>3, <1>4, <1>5

(* Who opens a connection is who was permitted to.                         *)
LEMMA PermitOpens ==
  ASSUME DeliveryTyped, NEW c \in Callers, NEW l \in Asking \cup Looking,
         Permit(c, l) \/ Refuse(c, l), NEW d \in Callers, Opens(d)
  PROVE  c = d /\ Permit(c, l) /\ line'[d].host = l.host
  <1> USE DEF DeliveryTyped, LineTypes, Opens, Idle
  <1>1. c = d
    BY DEF Permit, Refuse
  <1>2. ~Refuse(c, l)
    BY <1>1 DEF Refuse
  <1>3. line'[c] = [l EXCEPT !.step = "talking"]
    BY <1>1, <1>2 DEF Permit
  <1> QED
    BY <1>1, <1>2, <1>3 DEF Asking, Looking

LEMMA DialStep ==
  ASSUME DeliveryTyped, CacheInv, LookInv, [DeliveryNext]_dvars, NEW c \in Callers, Opens(c)
  PROVE  Innocent(c, line'[c].host)
  <1>1. ASSUME NEW d \in Callers, Ask(d) PROVE Innocent(c, line'[c].host)
    <2>1. line[d] \in Asking \cup Looking
      BY <1>1, Askers DEF DeliveryTyped, Ask
    <2>2. ASSUME Permit(d, line[d]) \/ Refuse(d, line[d])
          PROVE  c = d /\ Permit(d, line[d]) /\ line'[c].host = line[d].host
      BY <2>1, <2>2, PermitOpens
    <2>3. CASE Waved(line[d].host) /\ Permit(d, line[d])
      BY <2>2, <2>3 DEF Waved, Innocent
    <2>4. CASE Barred(line[d].host) /\ Refuse(d, line[d])
      BY <2>2, <2>4 DEF Permit, Refuse, Opens, DeliveryTyped, LineTypes, Idle
    <2>5. CASE AskOwn(line[d].host) /\ Fresh /\ Judge(d, line[d], known.addresses)
      <3>1. c = d /\ line'[c].host = line[d].host
        BY <2>2, <2>5 DEF Judge
      <3>2. CASE Resolve(line[d].host) \cap known.addresses = {}
        BY <2>5, <3>1, <3>2, LetThrough
      <3>3. CASE Refuse(d, line[d])
        BY <2>1, <3>1, <3>3 DEF Opens, Refuse, DeliveryTyped, LineTypes, Idle
      <3> QED
        BY <2>5, <3>2, <3>3 DEF Judge
    <2>6. CASE line' = [line EXCEPT ![d] = NewLook(line[d])]
      BY <2>6 DEF Opens, DeliveryTyped, LineTypes, NewLook
    <2> QED
      BY <1>1, <2>3, <2>4, <2>5, <2>6 DEF Ask, NewLook
  <1>2. ASSUME NEW d \in Callers, NEW name \in SelfNames, ResolveOwn(d, name) PROVE FALSE
    <2>1. line'[d].step = "lookup"
      BY <1>2, Resolves DEF LookingUp
    <2> QED
      BY <1>2, <2>1 DEF ResolveOwn, Opens, DeliveryTyped, LineTypes
  <1>3. ASSUME NEW d \in Callers, LookedUp(d) PROVE Innocent(c, line'[c].host)
    <2>1. line[d].for \in Asking \cup Looking /\ line[d].step = "lookup" /\ line[d].left = {}
      BY <1>3, Askers DEF DeliveryTyped, LookedUp
    <2>2. AskOwn(line[d].for.host)
      BY <2>1 DEF LookInv
    <2>3. c = d /\ line'[c].host = line[d].for.host
      BY <1>3, <2>1, PermitOpens DEF LookedUp, Judge
    <2>4. CASE Resolve(line[d].for.host) \cap line[d].found = {}
      BY <2>1, <2>2, <2>3, <2>4, LetThrough
    <2>5. CASE Refuse(d, line[d].for)
      BY <2>1, <2>3, <2>5 DEF Opens, Refuse, DeliveryTyped, LineTypes, Idle
    <2> QED
      BY <1>3, <2>4, <2>5 DEF LookedUp, Judge
  <1>4. ASSUME NEW d \in Callers, NEW r \in Rows, Called(d, r) PROVE FALSE
    BY <1>4 DEF DeliveryTyped, LineTypes, Opens, Called, Form, Notify, ProbeRow, OpenBucket,
      Dial, Line, JobBucket, LookAt, Look
  <1>5. ASSUME NEW d \in Callers, NEW name, LookAt(d, "target", name) PROVE FALSE
    BY <1>5 DEF DeliveryTyped, LineTypes, Opens, LookAt, Look
  <1>6. ASSUME NEW d \in Callers, Connect(d) PROVE FALSE
    <2>1. CASE Follow(d)
      BY <1>6, <2>1, Talks DEF DeliveryTyped, LineTypes, Hop, Opens
    <2>2. ASSUME NEW found, Answered(d, found) PROVE FALSE
      BY <2>2 DEF DeliveryTyped, LineTypes, Answered, Opens
    <2> QED
      BY <1>6, <2>1, <2>2 DEF Connect, Posted, Mailed, Probed, Canaried, Outcome
  <1>7. ASSUME NEW d \in Callers, Looked(d) \/ (\E kinds : Tell(d, kinds)) PROVE FALSE
    BY <1>7 DEF DeliveryTyped, LineTypes, Looked, Tell, Idle, Opens
  <1>8. CASE World \/ UNCHANGED dvars
    BY <1>8 DEF World, Remove, JobDials, Tick, MoveService, Reboot, Idle, dvars, Opens
  <1> QED
    BY <1>1, <1>2, <1>3, <1>4, <1>5, <1>6, <1>7, <1>8, NextSteps

-----------------------------------------------------------------------------
(* The rows.                                                               *)

(* What a caller's connection is for, while it waits for a look-up too.    *)
Of(c) == IF line[c].step = "lookup" THEN line[c].for ELSE line[c]
Busy(c)   == line[c].step \in {"ask", "lookup", "talking"}
(* ... and about a row.                                                    *)
InHand(c) == Busy(c) /\ Of(c).why # "look"

(* A row is what the caller took it for, unless it is gone or is still to  *)
(* be made by this caller and nobody else; who talks has dialled; and an   *)
(* answer is about a connection that was opened, or about a channel.       *)
CallerInv(c) ==
  /\ InHand(c) =>
       \/ row[Of(c).row] = Gone
       \/ row[Of(c).row].kind = Of(c).kind
       \/ /\ Of(c).why = "save" /\ row[Of(c).row] = Unborn
          /\ \A d \in Callers \ {c} : Of(c).row \notin About(d)
  /\ InHand(c) /\ line[c].step = "talking" => Of(c).why = "dial" /\ Of(c).row \in dialled
  /\ line[c].step = "answered" =>
       \/ row[Of(c).row] = Gone
       \/ row[Of(c).row].kind \in Channels
       \/ Stored(Of(c).row) /\ Of(c).row \in dialled
RowInv ==
  \A r \in Rows : Stored(r) /\ row[r].kind \notin Channels /\ row[r].told # "never" => r \in dialled
CallersInv == \A c \in Callers : CallerInv(c)
RowsInv == DeliveryTyped /\ RowInv /\ CallersInv

(* What its step says of a connection, and its kind of a row.              *)
LEMMA Steps ==
  ASSUME LineTypes, NEW c \in Callers
  PROVE  /\ line[c].step \in {"idle", "ask", "lookup", "talking", "answered"}
         /\ line[c].step = "idle" => line[c] = Idle /\ About(c) = {}
         /\ Busy(c) => Of(c) \in Asking \cup Looking
         /\ InHand(c) => Of(c) \in Asking /\ About(c) = {Of(c).row}
         /\ Busy(c) /\ ~InHand(c) => Of(c) \in Looking /\ About(c) = {}
         /\ line[c].step = "answered" => /\ Of(c) \in Answering /\ Of(c) = line[c]
                                         /\ About(c) = {Of(c).row} /\ ~Busy(c)
         /\ line[c].step \in {"ask", "talking"} => Of(c) = line[c]
  <1>1. CASE line[c] = Idle
    BY <1>1 DEF Idle, About, InHand, Busy
  <1>2. CASE line[c] \in Asking
    BY <1>2 DEF Asking, About, InHand, Busy, Of, RowOf
  <1>3. CASE line[c] \in Looking
    BY <1>3 DEF Looking, About, InHand, Busy, Of, RowOf
  <1>4. CASE line[c] \in LookingUp
    <2>1. line[c].step = "lookup" /\ Of(c) = line[c].for /\ Busy(c) /\ About(c) = RowOf(Of(c))
      BY <1>4 DEF LookingUp, About, Busy, Of
    <2>2. CASE Of(c) \in Asking
      BY <2>1, <2>2 DEF Asking, InHand, RowOf
    <2>3. CASE Of(c) \in Looking
      BY <2>1, <2>3 DEF Looking, InHand, RowOf
    <2> QED
      BY <1>4, <2>1, <2>2, <2>3 DEF LookingUp
  <1>5. CASE line[c] \in Answering
    BY <1>5 DEF Answering, About, InHand, Busy, Of
  <1> QED
    BY <1>1, <1>2, <1>3, <1>4, <1>5 DEF LineTypes

(* A row is about nothing but rows.                                        *)
LEMMA Abouts == ASSUME LineTypes, NEW c \in Callers PROVE About(c) \subseteq Rows
  BY Steps DEF Asking, Answering, InHand, Busy

LEMMA RowKinds ==
  ASSUME RowTypes, NEW r \in Rows
  PROVE  /\ Stored(r) <=> row[r] \in StoredRows
         /\ row[r] = Unborn => row[r].kind = "unborn"
         /\ row[r] = Gone => row[r].kind = "gone"
         /\ row[r].kind \in Kinds \cup {"unborn", "gone"}
  BY DEF RowTypes, Stored, StoredRows, Unborn, Gone, Kinds, Channels

(* What others may do to a row: nothing, remove it, or edit it.            *)
Kept(r) ==
  \/ row'[r] = row[r]
  \/ row'[r] = Gone
  \/ Stored(r) /\ row'[r] \in StoredRows /\ row'[r].kind = row[r].kind
(* A caller that does not move, unless a tick ages its look-up.            *)
Same(c) == line'[c].step = line[c].step /\ Of(c)' = Of(c) /\ About(c)' = About(c)

(* Who does not move keeps its invariant.                                  *)
LEMMA Frame ==
  ASSUME RowsInv, DeliveryTyped', NEW c \in Callers, Same(c), dialled \subseteq dialled',
         \A r \in About(c) : Kept(r),
         \A r \in About(c), d \in Callers \ {c} : row[r] = Unborn /\ r \in About(d)' => r \in About(d)
  PROVE  CallerInv(c)'
  <1>1. CASE InHand(c)
    <2>1. InHand(c)' /\ line'[c].step # "answered" /\ Of(c) \in Asking /\ About(c) = {Of(c).row}
      BY <1>1, Steps DEF RowsInv, DeliveryTyped, InHand, Busy, Same
    <2>2. Kept(Of(c).row)
      BY <2>1
    <2>3. CallerInv(c)
      BY DEF RowsInv, CallersInv
    <2>4. Of(c).row \in Rows /\ Of(c).kind \in Kinds
      BY <2>1 DEF Asking
    <2>5. CASE row[Of(c).row] = Gone
      BY <1>1, <2>1, <2>2, <2>3, <2>4, <2>5, RowKinds DEF CallerInv, Kept, Same, RowsInv,
        DeliveryTyped, Stored, Kinds, Channels
    <2>6. CASE row[Of(c).row].kind = Of(c).kind
      BY <1>1, <2>1, <2>2, <2>3, <2>4, <2>6 DEF CallerInv, Kept, Same
    <2>7. CASE /\ Of(c).why = "save" /\ row[Of(c).row] = Unborn
               /\ \A d \in Callers \ {c} : Of(c).row \notin About(d)
      <3>1. row'[Of(c).row] = Unborn \/ row'[Of(c).row] = Gone
        BY <2>2, <2>4, <2>7, RowKinds DEF Kept, Stored, RowsInv, DeliveryTyped, Kinds, Channels
      <3>2. \A d \in Callers \ {c} : Of(c).row \notin About(d)'
        BY <2>1, <2>7
      <3> QED
        BY <1>1, <2>1, <2>3, <2>7, <3>1, <3>2 DEF CallerInv, Same
    <2> QED
      BY <1>1, <2>3, <2>5, <2>6, <2>7 DEF CallerInv
  <1>2. CASE line[c].step = "answered"
    <2>1. /\ line'[c].step = "answered" /\ ~InHand(c)' /\ Of(c)' = Of(c)
          /\ About(c) = {Of(c).row} /\ Of(c).row \in Rows
      BY <1>2, Steps DEF RowsInv, DeliveryTyped, InHand, Busy, Same, Answering
    <2>2. Kept(Of(c).row)
      BY <2>1
    <2>3. CallerInv(c)
      BY DEF RowsInv, CallersInv
    <2>4. row[Of(c).row] = Gone => row'[Of(c).row] = Gone
      BY <2>1, <2>2, RowKinds DEF Kept, Stored, RowsInv, DeliveryTyped, Kinds, Channels
    <2>5. row[Of(c).row].kind \in Channels => row'[Of(c).row] = Gone \/ row'[Of(c).row].kind \in Channels
      BY <2>2 DEF Kept
    <2>6. Stored(Of(c).row) => row'[Of(c).row] = Gone \/ Stored(Of(c).row)'
      BY <2>1, <2>2 DEF Kept, Stored
    <2> QED
      BY <1>2, <2>1, <2>3, <2>4, <2>5, <2>6 DEF CallerInv
  <1>3. CASE ~InHand(c) /\ line[c].step # "answered"
    BY <1>3 DEF CallerInv, InHand, Busy, Same
  <1> QED
    BY <1>1, <1>2, <1>3

(* The guard answers: a form is stored, a connection opened, or neither.   *)
LEMMA JudgeRows ==
  ASSUME RowsInv, DeliveryTyped', NEW c \in Callers, InHand(c), Permit(c, Of(c)) \/ Refuse(c, Of(c))
  PROVE  RowInv' /\ CallersInv'
  <1> DEFINE l == Of(c)
  <1>1. l \in Asking /\ About(c) = {l.row} /\ l.row \in Rows /\ l.kind \in Kinds
    BY Steps DEF RowsInv, DeliveryTyped, Asking
  <1>2. CallerInv(c)
    BY DEF RowsInv, CallersInv
  <1>3. dialled \subseteq dialled'
    BY DEF Permit, Refuse
  <1>4. \A r \in Rows : r # l.row => row'[r] = row[r]
    BY DEF Permit, Refuse, RowsInv, DeliveryTyped, RowTypes
  <1>5. row[l.row] = Gone => row'[l.row] = row[l.row]
    BY DEF Permit, Refuse
  <1>6. row[l.row].kind = l.kind \/ row[l.row] = Unborn =>
          \/ row'[l.row] = row[l.row]
          \/ /\ row'[l.row] \in StoredRows /\ row'[l.row].kind = l.kind
             /\ row'[l.row].told = IF row[l.row] = Unborn THEN "never" ELSE row[l.row].told
    <2>1. CASE Permit(c, l) /\ l.why = "save" /\ row[l.row] # Gone
      <3>1. row'[l.row] = [kind |-> l.kind, host |-> l.host,
                           told |-> IF row[l.row] = Unborn THEN "never" ELSE row[l.row].told]
        BY <1>1, <2>1 DEF Permit, RowsInv, DeliveryTyped, RowTypes
      <3>2. row[l.row].kind = l.kind => row[l.row] \in StoredRows
        BY <1>1, RowKinds DEF Stored, RowsInv, DeliveryTyped
      <3> QED
        BY <1>1, <3>1, <3>2 DEF StoredRows, Asking, Verdicts
    <2>2. CASE ~(Permit(c, l) /\ l.why = "save" /\ row[l.row] # Gone)
      BY <2>2 DEF Permit, Refuse
    <2> QED
      BY <2>1, <2>2
  <1>7. \A d \in Callers : d # c => line'[d] = line[d] /\ About(d)' = About(d) /\ Of(d)' = Of(d)
    BY DEF Permit, Refuse, RowsInv, DeliveryTyped, LineTypes, About, Of
  <1>8. About(c)' \subseteq About(c)
    <2>1. line'[c] = Idle \/ line'[c] = [l EXCEPT !.step = "talking"]
            \/ line'[c] = [step |-> "answered", row |-> l.row, answer |-> "failed"]
      BY DEF Permit, Refuse, RowsInv, DeliveryTyped, LineTypes
    <2>2. [l EXCEPT !.step = "talking"].step = "talking" /\ [l EXCEPT !.step = "talking"].row = l.row
      BY <1>1 DEF Asking
    <2>3. line'[c].step = "idle" \/ (line'[c].step \in {"talking", "answered"} /\ line'[c].row = l.row)
      <3>1. CASE line'[c] = Idle
        BY <3>1 DEF Idle
      <3>2. CASE line'[c] = [l EXCEPT !.step = "talking"]
        BY <2>2, <3>2
      <3>3. CASE line'[c] = [step |-> "answered", row |-> l.row, answer |-> "failed"]
        BY <3>3
      <3> QED
        BY <2>1, <3>1, <3>2, <3>3
    <2> QED
      BY <1>1, <2>3 DEF About, RowOf
  <1>9. RowInv'
    <2> SUFFICES ASSUME NEW r \in Rows, Stored(r)', row'[r].kind \notin Channels, row'[r].told # "never"
                 PROVE  r \in dialled'
      BY DEF RowInv
    <2>1. CASE row'[r] = row[r]
      BY <1>3, <2>1 DEF RowsInv, RowInv, Stored
    <2>2. CASE r = l.row /\ row'[r] # row[r]
      <3>1. row[r].kind = l.kind \/ row[r] = Unborn
        BY <1>2, <1>5, <2>2 DEF CallerInv
      <3>2. row'[r].kind = l.kind /\ row[r].kind = l.kind /\ row'[r].told = row[r].told
        BY <1>6, <2>2, <3>1
      <3> QED
        BY <1>1, <1>3, <3>2 DEF RowsInv, RowInv, Stored
    <2> QED
      BY <1>4, <2>1, <2>2
  <1>10. ASSUME NEW d \in Callers, d # c PROVE CallerInv(d)'
    <2>1. Same(d)
      BY <1>7, <1>10 DEF Same
    <2>2. ASSUME NEW r \in About(d) PROVE Kept(r)
      <3>1. r \in Rows
        BY <2>2, Abouts DEF RowsInv, DeliveryTyped
      <3>2. CASE r = l.row
        <4>1. row[r] = Gone \/ row[r].kind = l.kind
          BY <1>2, <1>10, <2>2, <3>2 DEF CallerInv
        <4>2. row[r].kind = l.kind => Stored(r)
          BY <1>1 DEF Stored
        <4> QED
          BY <1>5, <1>6, <3>2, <4>1, <4>2 DEF Kept
      <3> QED
        BY <1>4, <3>1, <3>2 DEF Kept
    <2>3. \A r \in About(d), e \in Callers \ {d} : row[r] = Unborn /\ r \in About(e)' => r \in About(e)
      BY <1>7, <1>8
    <2> QED
      BY <1>3, <2>1, <2>2, <2>3, Frame
  <1>11. CallerInv(c)'
    <2>1. CASE Permit(c, l) /\ l.why # "save"
      <3>1. line'[c] = [l EXCEPT !.step = "talking"] /\ row' = row /\ l.row \in dialled'
        BY <1>1, <2>1 DEF Permit, RowsInv, DeliveryTyped, LineTypes, Asking
      <3>2. /\ line'[c].step = "talking" /\ line'[c].row = l.row /\ line'[c].kind = l.kind
            /\ line'[c].why = "dial"
        BY <1>1, <2>1, <3>1 DEF Asking
      <3>3. Of(c)' = line'[c]
        BY <3>2 DEF Of
      <3> QED
        BY <1>2, <2>1, <3>1, <3>2, <3>3 DEF CallerInv, InHand, Busy
    <2>2. CASE Refuse(c, l) /\ l.why = "dial" /\ l.kind \in Channels
      <3>1. line'[c] = [step |-> "answered", row |-> l.row, answer |-> "failed"] /\ row' = row
        BY <2>2 DEF Refuse, RowsInv, DeliveryTyped, LineTypes
      <3>2. Of(c)' = line'[c]
        BY <3>1 DEF Of
      <3> QED
        BY <1>2, <2>2, <3>1, <3>2 DEF CallerInv, InHand, Busy
    <2>3. CASE line'[c] = Idle
      BY <2>3 DEF CallerInv, InHand, Busy, Idle
    <2> QED
      BY <2>1, <2>2, <2>3 DEF Permit, Refuse, RowsInv, DeliveryTyped, LineTypes
  <1> QED
    BY <1>9, <1>10, <1>11 DEF CallersInv

(* What is about no row leaves the rows alone.                             *)
LEMMA Aside ==
  ASSUME RowsInv, DeliveryTyped', NEW c \in Callers, row' = row, dialled' = dialled,
         line' = [line EXCEPT ![c] = line'[c]],
         line'[c] = Idle \/ (Busy(c)' /\ ~InHand(c)')
  PROVE  RowInv' /\ CallersInv'
  <1>1. \A d \in Callers : d # c => line'[d] = line[d] /\ About(d)' = About(d) /\ Of(d)' = Of(d)
    BY DEF RowsInv, DeliveryTyped, LineTypes, About, Of
  <1>2. About(c)' = {} /\ ~InHand(c)' /\ line'[c].step # "answered"
    <2>1. CASE line'[c] = Idle
      BY <2>1 DEF Idle, About, InHand, Busy
    <2>2. CASE Busy(c)' /\ ~InHand(c)'
      <3>1. LineTypes'
        BY DEF DeliveryTyped
      <3> QED
        BY <2>2, <3>1, Steps DEF About, Of, InHand, Busy, RowOf, LineTypes, Idle, Asking, Looking,
          LookingUp, Answering
    <2> QED
      BY <2>1, <2>2
  <1>3. ASSUME NEW d \in Callers, d # c PROVE CallerInv(d)'
    <2>1. Same(d)
      BY <1>1, <1>3 DEF Same
    <2> QED
      BY <1>1, <1>2, <2>1, Frame DEF Kept
  <1>4. CallerInv(c)'
    BY <1>2 DEF CallerInv
  <1>5. RowInv'
    BY DEF RowsInv, RowInv, Stored
  <1> QED
    BY <1>3, <1>4, <1>5 DEF CallersInv

(* The other steps, of callers and of the world.                           *)
LEMMA AskRows ==
  ASSUME RowsInv, DeliveryTyped', NEW c \in Callers, Ask(c) \/ LookedUp(c)
  PROVE  RowInv' /\ CallersInv'
  <1>1. Busy(c) /\ Of(c) \in Asking \cup Looking
    BY Steps DEF Ask, LookedUp, Busy, RowsInv, DeliveryTyped
  <1>2. Ask(c) => Of(c) = line[c]
    BY DEF Of, Ask
  <1>3. LookedUp(c) => Of(c) = line[c].for
    BY DEF Of, LookedUp
  <1>4. CASE Permit(c, Of(c)) \/ Refuse(c, Of(c))
    <2>1. CASE InHand(c)
      BY <1>4, <2>1, JudgeRows
    <2>2. CASE ~InHand(c)
      <3>1. Of(c).why = "look" /\ Of(c) \in Looking
        BY <1>1, <2>2, Steps DEF InHand, RowsInv, DeliveryTyped
      <3>2. row' = row /\ dialled' = dialled /\ line' = [line EXCEPT ![c] = line'[c]]
        BY <1>4, <3>1 DEF Permit, Refuse, RowsInv, DeliveryTyped, LineTypes
      <3>3. line'[c] = Idle \/ line'[c] = [Of(c) EXCEPT !.step = "talking"]
        BY <1>4, <3>1 DEF Permit, Refuse, RowsInv, DeliveryTyped, LineTypes
      <3>4. [Of(c) EXCEPT !.step = "talking"].step = "talking" /\ [Of(c) EXCEPT !.step = "talking"].why = "look"
        BY <3>1 DEF Looking
      <3>5. line'[c] = Idle \/ (Busy(c)' /\ ~InHand(c)')
        BY <3>3, <3>4 DEF Busy, InHand, Of
      <3> QED
        BY <3>2, <3>5, Aside
    <2> QED
      BY <2>1, <2>2
  <1>5. CASE /\ line' = [line EXCEPT ![c] = NewLook(line[c])]
             /\ Of(c) = line[c] /\ UNCHANGED <<row, dialled>>
    <2>1. line'[c] = NewLook(line[c]) /\ line'[c].step = "lookup" /\ line'[c].for = line[c]
      BY <1>5 DEF RowsInv, DeliveryTyped, LineTypes, NewLook
    <2>2. Of(c)' = Of(c) /\ Busy(c)' /\ InHand(c)' = InHand(c)
      BY <1>1, <1>5, <2>1 DEF Of, InHand, Busy
    <2>3. CASE InHand(c)
      <3>1. About(c)' = About(c) /\ InHand(c)'
        BY <1>5, <2>1, <2>2, <2>3, Steps DEF About, RowOf, InHand, RowsInv, DeliveryTyped
      <3>2. \A d \in Callers : d # c => line'[d] = line[d] /\ About(d)' = About(d) /\ Of(d)' = Of(d)
        BY <1>5 DEF RowsInv, DeliveryTyped, LineTypes, About, Of
      <3>3. ASSUME NEW d \in Callers, d # c PROVE CallerInv(d)'
        <4>1. Same(d)
          BY <3>2, <3>3 DEF Same
        <4> QED
          BY <1>5, <3>1, <3>2, <4>1, Frame DEF Kept
      <3>4. CallerInv(c)'
        BY <1>5, <2>1, <2>2, <2>3, <3>1, <3>2 DEF CallerInv, RowsInv, CallersInv
      <3>5. RowInv'
        BY <1>5 DEF RowsInv, RowInv, Stored
      <3> QED
        BY <3>3, <3>4, <3>5 DEF CallersInv
    <2>4. CASE ~InHand(c)
      <3>1. line' = [line EXCEPT ![c] = line'[c]]
        BY <1>5, <2>1
      <3> QED
        BY <1>5, <2>2, <2>4, <3>1, Aside
    <2> QED
      BY <2>3, <2>4
  <1> QED
    BY <1>2, <1>3, <1>4, <1>5 DEF Ask, LookedUp, Judge, NewLook

(* A look begins, ends, or is for a job's bucket.                          *)
LEMMA LookRows ==
  ASSUME RowsInv, DeliveryTyped', NEW c \in Callers,
         Looked(c) \/ (\E kind, name : LookAt(c, kind, name))
  PROVE  RowInv' /\ CallersInv'
  <1>1. row' = row /\ dialled' = dialled /\ line' = [line EXCEPT ![c] = line'[c]]
    BY DEF Looked, LookAt, RowsInv, DeliveryTyped, LineTypes
  <1>2. line'[c] = Idle \/ (line'[c].step = "ask" /\ line'[c].why = "look")
    BY DEF Looked, LookAt, Look, RowsInv, DeliveryTyped, LineTypes
  <1>3. line'[c] = Idle \/ (Busy(c)' /\ ~InHand(c)')
    BY <1>2 DEF Busy, InHand, Of
  <1> QED
    BY <1>1, <1>3, Aside

LEMMA CallRows ==
  ASSUME RowsInv, DeliveryTyped', NEW c \in Callers, NEW r \in Rows, Called(c, r)
  PROVE  RowInv' /\ CallersInv'
  <1> SUFFICES ASSUME ~JobBucket(c, r) PROVE RowInv' /\ CallersInv'
    BY LookRows DEF JobBucket
  <1>1. line[c] = Idle /\ row' = row /\ dialled' = dialled
    BY DEF Called, Form, Notify, ProbeRow, OpenBucket, Dial
  <1>2. PICK why \in {"save", "dial"}, kind \in Kinds, name \in Names :
          /\ line' = [line EXCEPT ![c] = Line(why, r, kind, name)]
          /\ \/ why = "save" /\ row[r] = Unborn /\ \A d \in Callers : r \notin About(d)
             \/ Stored(r) /\ kind = row[r].kind
    <2>1. CASE Form(c, r)
      BY <2>1 DEF Form
    <2>2. CASE Dial(c, r) /\ row[r].kind \in Kinds
      <3>1. row[r].host \in Names
        BY <2>2, RowKinds DEF RowsInv, DeliveryTyped, Stored, StoredRows
      <3> QED
        BY <2>2, <3>1 DEF Dial, Stored
    <2> QED
      BY <2>1, <2>2 DEF Called, Notify, ProbeRow, OpenBucket, Kinds, Channels
  <1>3. line'[c] = Line(why, r, kind, name)
    BY <1>2 DEF RowsInv, DeliveryTyped, LineTypes
  <1>4. About(c)' = {r} /\ Of(c)' = line'[c] /\ line'[c].step = "ask"
    BY <1>2, <1>3 DEF Line, About, Of, RowOf
  <1>5. \A d \in Callers : d # c => line'[d] = line[d] /\ About(d)' = About(d) /\ Of(d)' = Of(d)
    BY <1>2 DEF RowsInv, DeliveryTyped, LineTypes, About, Of
  <1>6. ASSUME NEW d \in Callers, d # c PROVE CallerInv(d)'
    <2>1. Same(d)
      BY <1>5, <1>6 DEF Same
    <2>2. r \in About(d) => row[r] # Unborn
      BY <1>2, RowKinds DEF RowsInv, DeliveryTyped, Stored, Kinds, Channels
    <2> QED
      BY <1>1, <1>4, <1>5, <2>1, <2>2, Frame DEF Kept
  <1>7. CallerInv(c)'
    BY <1>1, <1>2, <1>3, <1>4, <1>5 DEF CallerInv, InHand, Busy, Line
  <1>8. RowInv'
    BY <1>1 DEF RowsInv, RowInv, Stored
  <1> QED
    BY <1>6, <1>7, <1>8 DEF CallersInv

(* A connection is followed by the next hop or by its answer.              *)
MovesOn(c, l) ==
  /\ line' = [line EXCEPT ![c] = l] /\ l.row = line[c].row
  /\ \/ l.step = "ask" /\ l.kind = line[c].kind /\ l.why = line[c].why
     \/ l.step = "answered"

LEMMA ConnectRows ==
  ASSUME RowsInv, DeliveryTyped', NEW c \in Callers, Connect(c)
  PROVE  RowInv' /\ CallersInv'
  <1>1. /\ line[c].step = "talking" /\ line[c] \in Asking /\ Of(c) = line[c] /\ InHand(c)
        /\ line[c].why = "dial" /\ About(c) = {line[c].row}
    BY Talks, Steps DEF RowsInv, DeliveryTyped, InHand, Busy
  <1>2. row' = row /\ dialled' = dialled
    BY DEF Connect, Follow, Posted, Mailed, Probed, Canaried, Outcome, Answered
  <1>3. PICK l : MovesOn(c, l)
    <2>1. ASSUME NEW name, line' = [line EXCEPT ![c] = Hop(line[c], name)]
          PROVE  \E l : MovesOn(c, l)
      <3>1. MovesOn(c, Hop(line[c], name))
        BY <2>1 DEF Hop, MovesOn
      <3> QED
        BY <3>1
    <2>2. ASSUME NEW found, Answered(c, found)
          PROVE  \E l : MovesOn(c, l)
      <3>1. MovesOn(c, [step |-> "answered", row |-> line[c].row, answer |-> found])
        BY <2>2 DEF Answered, MovesOn
      <3> QED
        BY <3>1
    <2>3. Follow(c) => \E name : line' = [line EXCEPT ![c] = Hop(line[c], name)]
      BY Talks DEF RowsInv, DeliveryTyped
    <2> QED
      BY <2>1, <2>2, <2>3 DEF Connect, Posted, Mailed, Probed, Canaried, Outcome
  <1>4. line'[c] = l
    BY <1>3 DEF MovesOn, RowsInv, DeliveryTyped, LineTypes
  <1>5. About(c)' = About(c) /\ Of(c)' = l
    BY <1>1, <1>3, <1>4 DEF MovesOn, About, Of, RowOf
  <1>6. \A d \in Callers : d # c => line'[d] = line[d] /\ About(d)' = About(d) /\ Of(d)' = Of(d)
    BY <1>3 DEF MovesOn, RowsInv, DeliveryTyped, LineTypes, About, Of
  <1>7. ASSUME NEW d \in Callers, d # c PROVE CallerInv(d)'
    <2>1. Same(d)
      BY <1>6, <1>7 DEF Same
    <2> QED
      BY <1>2, <1>5, <1>6, <2>1, Frame DEF Kept
  <1>8. CallerInv(c)'
    <2>1. /\ row[line[c].row] = Gone \/ row[line[c].row].kind = line[c].kind
          /\ line[c].row \in dialled /\ line[c].kind \in Kinds /\ line[c].why = "dial"
      BY <1>1 DEF RowsInv, CallersInv, CallerInv, Asking
    <2>2. row[line[c].row].kind = line[c].kind => Stored(line[c].row)
      BY <2>1 DEF Stored
    <2> QED
      BY <1>2, <1>3, <1>4, <1>5, <2>1, <2>2 DEF MovesOn, CallerInv, InHand, Busy, Stored
  <1>9. RowInv'
    BY <1>2 DEF RowsInv, RowInv, Stored
  <1> QED
    BY <1>7, <1>8, <1>9 DEF CallersInv

LEMMA TellRows ==
  ASSUME RowsInv, DeliveryTyped', NEW c \in Callers, NEW kinds, Tell(c, kinds)
  PROVE  RowInv' /\ CallersInv'
  <1>1. /\ line[c].step = "answered" /\ line[c] \in Answering /\ Of(c) = line[c]
        /\ About(c) = {line[c].row} /\ line[c].row \in Rows
    BY Steps DEF RowsInv, DeliveryTyped, Tell, Answering
  <1>2. dialled' = dialled /\ line'[c] = Idle
    BY DEF Tell, RowsInv, DeliveryTyped, LineTypes
  <1>3. \A r \in Rows : row'[r] = row[r] \/ (/\ r = line[c].row /\ Stored(r) /\ row'[r] \in StoredRows
                                            /\ row'[r].kind = row[r].kind)
    <2>1. CASE Stored(line[c].row)
      <3>1. row[line[c].row] \in StoredRows
        BY <1>1, <2>1, RowKinds DEF RowsInv, DeliveryTyped
      <3>2. [row[line[c].row] EXCEPT !.told = line[c].answer] \in StoredRows
        BY <1>1, <3>1 DEF StoredRows, Answering, Verdicts
      <3>3. [row[line[c].row] EXCEPT !.told = line[c].answer].kind = row[line[c].row].kind
        BY <3>1 DEF StoredRows
      <3>4. row' = [row EXCEPT ![line[c].row] = [row[line[c].row] EXCEPT !.told = line[c].answer]]
        BY <2>1 DEF Tell
      <3> QED
        BY <1>1, <2>1, <3>2, <3>3, <3>4 DEF RowsInv, DeliveryTyped, RowTypes
    <2> QED
      BY <2>1 DEF Tell
  <1>4. About(c)' = {} /\ CallerInv(c)'
    BY <1>2 DEF About, CallerInv, InHand, Busy, Idle
  <1>5. \A d \in Callers : d # c => line'[d] = line[d] /\ About(d)' = About(d) /\ Of(d)' = Of(d)
    BY DEF Tell, RowsInv, DeliveryTyped, LineTypes, About, Of
  <1>6. ASSUME NEW d \in Callers, d # c PROVE CallerInv(d)'
    <2>1. Same(d)
      BY <1>5, <1>6 DEF Same
    <2>2. About(d) \subseteq Rows
      BY Abouts DEF RowsInv, DeliveryTyped
    <2>3. \A r \in About(d) : Kept(r)
      BY <1>3, <2>2 DEF Kept
    <2> QED
      BY <1>2, <1>4, <1>5, <2>1, <2>3, Frame
  <1>7. RowInv'
    <2> SUFFICES ASSUME NEW r \in Rows, Stored(r)', row'[r].kind \notin Channels, row'[r].told # "never"
                 PROVE  r \in dialled
      BY <1>2 DEF RowInv
    <2>1. CASE row'[r] = row[r]
      BY <2>1 DEF RowsInv, RowInv, Stored
    <2>2. CASE r = line[c].row /\ Stored(r) /\ row'[r].kind = row[r].kind
      <3>1. row[r] # Gone
        BY <2>2 DEF Stored, Gone, Kinds, Channels
      <3> QED
        BY <1>1, <2>2, <3>1 DEF RowsInv, CallersInv, CallerInv
    <2> QED
      BY <1>3, <2>1, <2>2
  <1> QED
    BY <1>4, <1>6, <1>7 DEF CallersInv

LEMMA WorldRows ==
  ASSUME RowsInv, DeliveryTyped',
         \/ World \/ UNCHANGED dvars
         \/ \E c \in Callers, name \in SelfNames : ResolveOwn(c, name)
  PROVE  RowInv' /\ CallersInv'
  <1>1. ASSUME \A c \in Callers : Same(c), dialled' = dialled,
               \A r \in Rows : Kept(r) /\ (row'[r] = row[r] \/ row'[r] = Gone)
        PROVE  RowInv' /\ CallersInv'
    <2>1. RowInv'
      BY <1>1 DEF RowsInv, RowInv, Stored, Gone, Kinds, Channels
    <2>2. ASSUME NEW c \in Callers PROVE CallerInv(c)'
      <3>1. About(c) \subseteq Rows
        BY Abouts DEF RowsInv, DeliveryTyped
      <3> QED
        BY <1>1, <3>1, Frame DEF Same
    <2> QED
      BY <2>1, <2>2 DEF CallersInv
  <1>2. ASSUME NEW r \in Rows, Remove(r) PROVE RowInv' /\ CallersInv'
    BY <1>1, <1>2 DEF Remove, Same, Of, About, Kept, RowsInv, DeliveryTyped, RowTypes
  <1>3. ASSUME UNCHANGED <<row, dialled, line>> PROVE RowInv' /\ CallersInv'
    BY <1>1, <1>3 DEF Same, Of, About, Kept
  <1>4. ASSUME NEW c \in Callers, NEW name \in SelfNames, ResolveOwn(c, name)
        PROVE  RowInv' /\ CallersInv'
    <2>1. /\ line[c].step = "lookup" /\ line'[c].step = "lookup" /\ line'[c].for = line[c].for
      <3>1. line[c] \in LookingUp
        BY <1>4, Resolves DEF RowsInv
      <3>2. line'[c] = [line[c] EXCEPT !.left = @ \ {name}, !.found = @ \cup own[name]]
        BY <1>4, Resolves DEF RowsInv
      <3> QED
        BY <3>1, <3>2 DEF LookingUp
    <2>2. ASSUME NEW d \in Callers PROVE Same(d)
      <3>1. CASE d = c
        BY <2>1, <3>1 DEF Same, Of, About
      <3>2. CASE d # c
        <4>1. line'[d] = line[d]
          BY <1>4, <3>2 DEF ResolveOwn, RowsInv, DeliveryTyped, LineTypes
        <4> QED
          BY <4>1 DEF Same, Of, About
      <3> QED
        BY <3>1, <3>2
    <2> QED
      BY <1>1, <1>4, <2>2 DEF ResolveOwn, Kept
  <1>5. CASE Reboot
    <2>1. row' = row /\ dialled' = dialled /\ \A c \in Callers : line'[c] = Idle
      BY <1>5 DEF Reboot
    <2> QED
      BY <2>1 DEF RowsInv, RowInv, Stored, CallersInv, CallerInv, InHand, Busy, Idle
  <1>6. CASE UNCHANGED dvars \/ (World /\ ~Reboot /\ ~\E r \in Rows : Remove(r))
    <2>1. UNCHANGED <<row, dialled, line>>
      BY <1>6 DEF dvars, World, JobDials, Tick, MoveService
    <2> QED
      BY <1>3, <2>1
  <1> QED
    BY <1>2, <1>4, <1>5, <1>6

LEMMA RowsStep == RowsInv /\ [DeliveryNext]_dvars => RowsInv'
  <1> SUFFICES ASSUME RowsInv, [DeliveryNext]_dvars PROVE RowsInv'
    OBVIOUS
  <1>1. DeliveryTyped'
    BY DeliveryTypeStep DEF RowsInv
  <1>2. RowInv' /\ CallersInv'
    BY <1>1, NextSteps, AskRows, LookRows, CallRows, ConnectRows, TellRows, WorldRows
  <1> QED
    BY <1>1, <1>2 DEF RowsInv

-----------------------------------------------------------------------------
(* The theorems.                                                           *)

DeliveryIInv == RowsInv /\ CacheInv /\ LookInv

LEMMA DeliveryInvariant == DeliverySpec => []DeliveryIInv
  <1>1. DeliveryInit => DeliveryIInv
    <2>1. DeliveryInit => RowInv /\ CallersInv
      BY DEF DeliveryInit, RowInv, CallersInv, CallerInv, InHand, Busy, Stored, Unborn, Idle, Kinds,
        Channels
    <2>2. DeliveryInit => CacheInv /\ LookInv
      BY DeliveryBounds DEF DeliveryInit, CacheInv, LookInv, Missed, Fresh, Unknown, Idle
    <2> QED
      BY <2>1, <2>2, DeliveryTypesInit DEF DeliveryIInv, RowsInv
  <1>2. DeliveryIInv /\ [DeliveryNext]_dvars => DeliveryIInv'
    BY RowsStep, CacheStep, LookStep DEF DeliveryIInv, RowsInv
  <1> QED
    BY <1>1, <1>2, PTL DEF DeliverySpec

(* Every variable of the deliveries keeps its type.                        *)
THEOREM DeliveryTypes == DeliverySpec => []DeliveryTypeOK
  <1>1. DeliveryTyped => DeliveryTypeOK
    <2> SUFFICES ASSUME DeliveryTyped PROVE DeliveryTypeOK
      OBVIOUS
    <2>1. \A c \in Callers : About(c) \subseteq Rows
      BY Abouts DEF DeliveryTyped
    <2>2. \A r \in Rows : Stored(r) => row[r].host \in Names /\ row[r].told \in Verdicts
      BY RowKinds DEF DeliveryTyped, StoredRows
    <2> QED
      BY <2>1, <2>2, DeliveryBounds DEF DeliveryTyped, CacheTypes, DeliveryTypeOK
  <1> QED
    BY <1>1, DeliveryInvariant, PTL DEF DeliveryIInv, RowsInv

(* No connection of those that ask the guard (requests, deliveries,        *)
(* buckets) is opened past it, at whatever hop, however old its cache and  *)
(* however long a resolution takes; and a target or a destination carries  *)
(* no verdict without such a connection.  A job's connections to its target*)
(* ask nobody.                                                             *)
THEOREM DialsAreGuarded == DeliverySpec => EveryDialIsGuarded
  <1>1. DeliveryIInv /\ [DeliveryNext]_dvars
          => [\A c \in Callers : Opens(c) => Innocent(c, line'[c].host)]_dvars
    BY DialStep DEF DeliveryIInv, RowsInv
  <1>2. DeliveryIInv => RowInv
    BY DEF DeliveryIInv, RowsInv
  <1> QED
    BY <1>1, <1>2, DeliveryInvariant, PTL DEF DeliverySpec, EveryDialIsGuarded, RowInv
===============================================================================
