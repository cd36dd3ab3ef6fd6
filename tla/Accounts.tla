------------------------------ MODULE Accounts ------------------------------
(***************************************************************************)
(* Who may administer a deployment: the bootstrap of every start           *)
(* (bootstrap/*.ts), the setup link (routes/setup.ts), the members of the  *)
(* organization (routes/members.ts and prismaMemberStore), the rotation of *)
(* a password someone else has seen (auth/auth.ts) and the gate in front   *)
(* of every route (auth/rbac.ts).                                          *)
(*                                                                         *)
(* Accounts are written by Better-Auth, memberships by this program: no    *)
(* transaction spans the two, and every await is a step of its own.        *)
(***************************************************************************)
EXTENDS Integers, FiniteSets

CONSTANTS
  Users,       \* e-mail addresses
  Requests,    \* HTTP requests in flight
  Boot,        \* the bootstrap of the process that is starting
  MaxTokens,   \* bound on setup tokens issued
  MaxTroubles  \* bound on crashes and failing calls

ASSUME AccountBounds ==
  /\ MaxTokens \in Nat \ {0} /\ MaxTroubles \in Nat /\ Users # {} /\ Boot \notin Requests

Roles     == {"admin", "operator", "viewer"}
NoRole    == "none"
Tokens    == 1..MaxTokens
Processes == Requests \cup {Boot}

VARIABLES
  fromEnv,   \* SCHRODUMP_ADMIN_EMAIL and _PASSWORD are set
  org,       \* the default organization exists
  password,  \* each account's password: "none" without an account, "shared" or "own"
  owes,      \* User.mustChangePassword
  role,      \* Membership.role
  linked,    \* accounts the setup link let off a rotation
  changed,   \* accounts whose new password is stored, the hook not yet run
  token,     \* SetupToken: "none", "valid", "spent" or "expired"
  server,    \* "down", "starting" or "up"
  at,        \* where each process is
  subject,   \* the account it is about
  grants,    \* the role it writes, "none" to remove the member
  saw,       \* the role it read
  holds,     \* the setup token it presented
  bTroubles

rows   == <<fromEnv, org, password, owes, role, linked, changed, token>>
args   == <<subject, grants, saw, holds>>
avars  == <<rows, server, at, args, bTroubles>>

AnyUser == CHOOSE u \in Users : TRUE
Init ==
  /\ fromEnv \in BOOLEAN /\ org = FALSE
  /\ password = [u \in Users |-> "none"] /\ owes = [u \in Users |-> FALSE]
  /\ role = [u \in Users |-> NoRole] /\ linked = {} /\ changed = {}
  /\ token = [t \in Tokens |-> "none"] /\ server = "down"
  /\ at = [p \in Processes |-> "idle"]
  /\ subject = [p \in Processes |-> AnyUser] /\ grants = [p \in Processes |-> NoRole]
  /\ saw = [p \in Processes |-> NoRole] /\ holds = [p \in Processes |-> 1]
  /\ bTroubles = 0

Goto(p, from, to) == at[p] = from /\ at' = [at EXCEPT ![p] = to]
Answer(p, from) ==
  /\ Goto(p, from, "idle")
  /\ subject' = [subject EXCEPT ![p] = AnyUser] /\ grants' = [grants EXCEPT ![p] = NoRole]
  /\ saw' = [saw EXCEPT ![p] = NoRole] /\ holds' = [holds EXCEPT ![p] = 1]
Trouble == bTroubles < MaxTroubles /\ bTroubles' = bTroubles + 1

Admins == {u \in Users : role[u] = "admin"}
Exists(u) == password[u] # "none"

(* authenticate and requireRole: a membership, read from the row at every  *)
(* request, no rotation owed, and the rank.                                *)
MayAdminister(u) == Exists(u) /\ role[u] = "admin" /\ ~owes[u]

-----------------------------------------------------------------------------
(* The bootstrap of every start.                                           *)

(* adminExists: nothing to do.  Credentials in the environment: create the *)
(* administrator.  Neither: a single-use token, and its URL in the log.    *)
Start ==
  /\ server = "down" /\ at[Boot] = "idle"
  /\ \/ Admins # {} /\ server' = "up" /\ UNCHANGED <<at, args, token>>
     \/ /\ Admins = {} /\ fromEnv
        /\ server' = "starting" /\ at' = [at EXCEPT ![Boot] = "org"]
        /\ UNCHANGED <<args, token>>
     \/ /\ Admins = {} /\ ~fromEnv
        /\ \E t \in Tokens :
             /\ token[t] = "none" /\ \A s \in Tokens : s < t => token[s] # "none"
             /\ token' = [token EXCEPT ![t] = "valid"]
        /\ server' = "up" /\ UNCHANGED <<at, args>>
  /\ UNCHANGED <<fromEnv, org, password, owes, role, linked, changed, bTroubles>>

(* POST /setup: no administrator yet and a usable token; an old token of a *)
(* start before this one will do.                                          *)
Setup(r) ==
  /\ server = "up" /\ Admins = {} /\ Goto(r, "idle", "org")
  /\ \E t \in Tokens, u \in Users :
       /\ token[t] = "valid"
       /\ holds' = [holds EXCEPT ![r] = t] /\ subject' = [subject EXCEPT ![r] = u]
  /\ UNCHANGED <<rows, server, grants, saw, bTroubles>>

(* Sixty minutes pass.                                                     *)
Expire(t) ==
  /\ token[t] = "valid" /\ token' = [token EXCEPT ![t] = "expired"]
  /\ UNCHANGED <<fromEnv, org, password, owes, role, linked, changed, server, at, args, bTroubles>>

(* createAdminUser, by the bootstrap or by the link: four writes, each one *)
(* idempotent, because a failure may fall between any two.                 *)

(* Mutant: the organization is created, not upserted.                      *)
CreateOrganization(p) ==
  /\ ~org /\ Goto(p, "org", "account") /\ org' = TRUE
  /\ UNCHANGED <<fromEnv, password, owes, role, linked, changed, token, server, args, bTroubles>>
UpsertOrganization(p) ==
  /\ Goto(p, "org", "account") /\ org' = TRUE
  /\ UNCHANGED <<fromEnv, password, owes, role, linked, changed, token, server, args, bTroubles>>

(* An account that is there already keeps its password.                    *)
SignUp(p) ==
  /\ Goto(p, "account", "owes")
  /\ password' = [password EXCEPT ![subject[p]] =
       IF @ # "none" THEN @ ELSE IF p = Boot THEN "shared" ELSE "own"]
  /\ UNCHANGED <<fromEnv, org, owes, role, linked, changed, token, server, args, bTroubles>>

(* The environment's password owes a rotation, the link's does not.        *)
SetOwes(p) ==
  /\ Goto(p, "owes", "admin")
  /\ owes' = [owes EXCEPT ![subject[p]] = p = Boot]
  /\ linked' = IF p = Boot THEN linked ELSE linked \cup {subject[p]}
  /\ UNCHANGED <<fromEnv, org, password, role, changed, token, server, args, bTroubles>>

UpsertAdmin(p) ==
  /\ role' = [role EXCEPT ![subject[p]] = "admin"]
  /\ IF p = Boot
     THEN Answer(p, "admin") /\ server' = "up"
     ELSE Goto(p, "admin", "spend") /\ UNCHANGED <<args, server>>
  /\ UNCHANGED <<fromEnv, org, password, owes, linked, changed, token, bTroubles>>

(* The token is spent last: a failure before this leaves it usable.        *)
SpendToken(r) ==
  /\ Answer(r, "spend") /\ token' = [token EXCEPT ![holds[r]] = "spent"]
  /\ UNCHANGED <<fromEnv, org, password, owes, role, linked, changed, server, bTroubles>>

(* A write throws: the request answers 500, the bootstrap ends the process.*)
WriteThrows(p) ==
  /\ at[p] \in {"org", "account", "owes", "admin", "spend", "invite", "flag", "join"}
  /\ Answer(p, at[p]) /\ Trouble
  /\ server' = IF p = Boot THEN "down" ELSE server
  /\ UNCHANGED rows

-----------------------------------------------------------------------------
(* Members.                                                                *)

ByAdmin(u) == server = "up" /\ MayAdminister(u)

(* POST /members: the address is free, or 409.                             *)
Invite(r) ==
  /\ Goto(r, "idle", "invite")
  /\ \E u \in Users, g \in Roles, by \in Users :
       /\ ByAdmin(by) /\ ~Exists(u)
       /\ subject' = [subject EXCEPT ![r] = u] /\ grants' = [grants EXCEPT ![r] = g]
  /\ UNCHANGED <<rows, server, saw, holds, bTroubles>>

(* signUpEmail, with the temporary password; a second one is a 409.        *)
InviteSignUp(r) ==
  /\ IF Exists(subject[r])
     THEN Answer(r, "invite") /\ UNCHANGED password
     ELSE /\ Goto(r, "invite", "flag") /\ UNCHANGED args
          /\ password' = [password EXCEPT ![subject[r]] = "shared"]
  /\ UNCHANGED <<fromEnv, org, owes, role, linked, changed, token, server, bTroubles>>

(* Mutant: the temporary password owes nothing.                            *)
InviteOwesNot(r) ==
  /\ Goto(r, "flag", "join")
  /\ UNCHANGED <<rows, server, args, bTroubles>>
InviteOwes(r) ==
  /\ Goto(r, "flag", "join")
  /\ owes' = [owes EXCEPT ![subject[r]] = TRUE]
  /\ UNCHANGED <<fromEnv, org, password, role, linked, changed, token, server, args, bTroubles>>
Join(r) ==
  /\ Answer(r, "join")
  /\ role' = [role EXCEPT ![subject[r]] = grants[r]]
  /\ UNCHANGED <<fromEnv, org, password, owes, linked, changed, token, server, bTroubles>>

(* PATCH and DELETE /members/:id: the member's role is read, ...           *)
AlterMember(r) ==
  /\ Goto(r, "idle", "count")
  /\ \E u \in Users, g \in Roles \cup {NoRole}, by \in Users :
       /\ ByAdmin(by) /\ role[u] # NoRole
       /\ g = NoRole => u # by
       /\ subject' = [subject EXCEPT ![r] = u] /\ grants' = [grants EXCEPT ![r] = g]
       /\ saw' = [saw EXCEPT ![r] = role[u]]
  /\ UNCHANGED <<rows, server, holds, bTroubles>>

(* ... the administrators are counted if it is one of them and would not   *)
(* stay one, ...                                                           *)
CountAdmins(r) ==
  /\ IF saw[r] = "admin" /\ grants[r] # "admin" /\ Cardinality(Admins) = 1
     THEN Answer(r, "count")
     ELSE Goto(r, "count", "write") /\ UNCHANGED args
  /\ UNCHANGED <<rows, server, bTroubles>>

(* ... and the membership is updated or deleted, if it is still there.     *)
WriteMember(r) ==
  /\ Answer(r, "write")
  /\ role' = IF role[subject[r]] = NoRole THEN role ELSE [role EXCEPT ![subject[r]] = grants[r]]
  /\ UNCHANGED <<fromEnv, org, password, owes, linked, changed, token, server, bTroubles>>

-----------------------------------------------------------------------------
(* The rotation: the password changes, then the hook clears the flag.      *)

ChangePassword(u) ==
  /\ server = "up" /\ Exists(u) /\ u \notin changed
  /\ owes[u] /\ password' = [password EXCEPT ![u] = "own"] /\ changed' = changed \cup {u}
  /\ UNCHANGED <<fromEnv, org, owes, role, linked, token, server, at, args, bTroubles>>
ClearFlag(u) ==
  /\ u \in changed /\ changed' = changed \ {u}
  /\ owes' = [owes EXCEPT ![u] = FALSE]
  /\ UNCHANGED <<fromEnv, org, password, role, linked, token, server, at, args, bTroubles>>

Crash ==
  /\ server # "down" /\ server' = "down" /\ Trouble /\ changed' = {}
  /\ at' = [p \in Processes |-> "idle"]
  /\ subject' = [p \in Processes |-> AnyUser] /\ grants' = [p \in Processes |-> NoRole]
  /\ saw' = [p \in Processes |-> NoRole] /\ holds' = [p \in Processes |-> 1]
  /\ UNCHANGED <<fromEnv, org, password, owes, role, linked, token>>

CreateAdmin(p) ==
  UpsertOrganization(p) \/ SignUp(p) \/ SetOwes(p) \/ UpsertAdmin(p)
Next ==
  \/ Start \/ Crash \/ (\E t \in Tokens : Expire(t))
  \/ \E p \in Processes : CreateAdmin(p) \/ WriteThrows(p)
  \/ \E r \in Requests :
       \/ Setup(r) \/ SpendToken(r)
       \/ Invite(r) \/ InviteSignUp(r) \/ InviteOwes(r) \/ Join(r)
       \/ AlterMember(r) \/ CountAdmins(r) \/ WriteMember(r)
  \/ \E u \in Users : ChangePassword(u) \/ ClearFlag(u)

(* The process is restarted when it ends, and its bootstrap runs on.       *)
Fairness == WF_avars(Start) /\ WF_avars(CreateAdmin(Boot))
Spec == Init /\ [][Next]_avars /\ Fairness

-----------------------------------------------------------------------------
(* Properties.                                                             *)

TypeOK ==
  /\ {fromEnv, org} \subseteq BOOLEAN
  /\ password \in [Users -> {"none", "shared", "own"}] /\ owes \in [Users -> BOOLEAN]
  /\ role \in [Users -> Roles \cup {NoRole}] /\ linked \subseteq Users /\ changed \subseteq Users
  /\ token \in [Tokens -> {"none", "valid", "spent", "expired"}]
  /\ server \in {"down", "starting", "up"}
  /\ at \in [Processes -> {"idle", "org", "account", "owes", "admin", "spend",
                           "invite", "flag", "join", "count", "write"}]
  /\ subject \in [Processes -> Users] /\ grants \in [Processes -> Roles \cup {NoRole}]
  /\ saw \in [Processes -> Roles \cup {NoRole}] /\ holds \in [Processes -> Tokens]
  /\ bTroubles \in 0..MaxTroubles

(* Whoever has a role and a password that someone else has seen (the       *)
(* environment's, or a temporary one) owes its rotation and is refused     *)
(* everything until then, wherever a write failed or the process died.     *)
(* The link's administrators are the exception the code makes.             *)
SharedPasswordsAreRotated ==
  \A u \in Users \ linked : role[u] # NoRole /\ password[u] = "shared" => owes[u]

(* "a half-finished bootstrap simply finishes on the next attempt": with   *)
(* the credentials in the environment, some start gets an administrator.   *)
BootstrapFinishes == fromEnv => <>(Admins # {})

=============================================================================
