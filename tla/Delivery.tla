------------------------------- MODULE Delivery -------------------------------
(***************************************************************************)
(* Connections to addresses an operator typed: a notification by webhook   *)
(* (notifications/webhook.ts) or mail (notifications/smtp.ts), a request's *)
(* probe of a database (probe/test-connection.ts), whatever opens a bucket *)
(* (jobs/destination-driver.ts); the guard they ask (egress/guard.ts), and *)
(* what the row says afterwards.  A job's connections to its target ask    *)
(* nobody: they are JobDials.                                              *)
(*                                                                         *)
(* What a foreign name answers does not change between the guard's check   *)
(* and the socket: the guard does not claim to see that.  What this        *)
(* deployment's own names answer does change, even between two of them in  *)
(* one resolution, and the guard reads it from a cache that every caller   *)
(* shares.  The clock does not go back.                                    *)
(***************************************************************************)
EXTENDS Integers, Sequences

CONSTANTS
  Rows,         \* channels, targets and destinations
  Callers,      \* requests, scheduler ticks and jobs in flight
  Lookers,      \* ... those of them that may look and keep no record
  Names,        \* what a form may call a host
  Answers,      \* the addresses of each name, as bytes; of the program's own, none here
  SelfNames,    \* the names of this deployment's services, none of them an address
  Places,       \* the addresses they may have, and ...
  SelfAddresses,\* ... those this process is bound to
  Configs,      \* what SCHRODUMP_EGRESS_DENY and _ALLOW may hold
  Ttl,          \* SELF_RESOLUTION_TTL_MS, in ticks
  MaxRedirects,
  MaxEvents     \* bound on ticks, moves and reboots

ASSUME DeliveryBounds == Ttl \in Nat \ {0} /\ MaxRedirects \in Nat /\ MaxEvents \in Nat

Channels == {"webhook", "smtp"}
Kinds    == Channels \cup {"target", "destination"}
Verdicts == {"never", "ok", "failed"}

VARIABLES
  row,     \* [kind, host, told]: its address and lastSuccess/-Failure, lastProbeOk, lastCanaryOk
  dialled, \* rows a connection was opened for that the guard had let through
  unasked, \* rows a job connected to
  egress,  \* [deny, allow] of this process
  own,     \* what each name of this deployment answers with
  since,   \* ... and the tick since which it does
  known,   \* selfResolved: [at, addresses]
  line,    \* each caller's connection
  clock, events

dvars == <<row, dialled, unasked, egress, own, since, known, line, clock, events>>

Unborn == [kind |-> "unborn"]
Gone   == [kind |-> "gone"]
Idle   == [step |-> "idle"]
Stored(r) == row[r].kind \in Kinds
Event  == events < MaxEvents /\ events' = events + 1

(* A caller's connection, at its first hop; one that looks and keeps no    *)
(* record is about no row.                                                 *)
Line(why, r, kind, name) ==
  [step |-> "ask", why |-> why, row |-> r, kind |-> kind, host |-> name, hop |-> 0]
Look(kind, name) == [step |-> "ask", why |-> "look", kind |-> kind, host |-> name]

-----------------------------------------------------------------------------
(* Addresses.                                                              *)

(* An IPv4 address in sixteen bytes is that address.                       *)
Unmap(a) ==
  IF Len(a) = 16 /\ (\A i \in 1..10 : a[i] = 0) /\ a[11] = 255 /\ a[12] = 255
  THEN SubSeq(a, 13, 16) ELSE a

(* The first bits of a byte, the others zero.                              *)
Masked(byte, bits) == byte - (byte % (2 ^ (8 - bits)))
(* How many bits of byte i a prefix covers.                                *)
Bits(prefix, i) ==
  LET left == prefix - 8 * (i - 1) IN IF left < 0 THEN 0 ELSE IF left > 8 THEN 8 ELSE left
InCidr(a, cidr) ==
  /\ Len(a) = Len(cidr.bytes)
  /\ \A i \in 1..Len(a) :
       LET bits == Bits(cidr.prefix, i) IN Masked(a[i], bits) = Masked(cidr.bytes[i], bits)
InSome(a, cidrs) == \E cidr \in cidrs : InCidr(a, cidr)

Zeros(n) == [i \in 1..n |-> 0]
AlwaysDenied == {
  [bytes |-> <<127, 0, 0, 0>>, prefix |-> 8],
  [bytes |-> [Zeros(16) EXCEPT ![16] = 1], prefix |-> 128],
  [bytes |-> <<169, 254, 0, 0>>, prefix |-> 16],
  [bytes |-> [Zeros(16) EXCEPT ![1] = 254, ![2] = 128], prefix |-> 10],
  [bytes |-> Zeros(4), prefix |-> 8],
  [bytes |-> Zeros(16), prefix |-> 128] }

(* What the socket will ask as well; empty when the name has no answer.    *)
Resolve(name) == IF name \in SelfNames THEN own[name] ELSE {Unmap(a) : a \in Answers[name]}

-----------------------------------------------------------------------------
(* The guard.                                                              *)

(* Nothing can connect to a name without an address, so there is nothing   *)
(* to refuse; and what the operator allows is allowed.                     *)
Waved(name) ==
  LET found == Resolve(name) IN found = {} \/ \E a \in found : InSome(a, egress.allow)
Barred(name) ==
  /\ ~Waved(name)
  /\ \/ name \in SelfNames
     \/ \E a \in Resolve(name) : InSome(a, egress.deny \cup AlwaysDenied)
(* Only then are the addresses of the own services asked for.              *)
AskOwn(name) == ~Waved(name) /\ ~Barred(name)

Fresh == clock - known.at < Ttl

(* The form is stored, the verdict on an edited row with it; or the socket *)
(* is opened.                                                              *)
Permit(c, l) ==
  IF l.why = "save"
  THEN /\ row' = IF row[l.row] = Gone THEN row ELSE [row EXCEPT ![l.row] =
            [kind |-> l.kind, host |-> l.host,
             told |-> IF row[l.row] = Unborn THEN "never" ELSE row[l.row].told]]
       /\ line' = [line EXCEPT ![c] = Idle] /\ UNCHANGED dialled
  ELSE /\ line' = [line EXCEPT ![c] = [l EXCEPT !.step = "talking"]]
       /\ dialled' = IF l.why = "dial" THEN dialled \cup {l.row} ELSE dialled
       /\ UNCHANGED row
(* A form or a discovery is answered 400; a probe or a canary records      *)
(* nothing; a channel that could not deliver is told so.                   *)
Refuse(c, l) ==
  /\ line' = [line EXCEPT ![c] =
       IF l.why = "dial" /\ l.kind \in Channels
       THEN [step |-> "answered", row |-> l.row, answer |-> "failed"] ELSE Idle]
  /\ UNCHANGED <<row, dialled>>

Judge(c, l, ours) == IF Resolve(l.host) \cap ours = {} THEN Permit(c, l) ELSE Refuse(c, l)

(* reasonFor, up to the addresses of the own services, which take a        *)
(* resolution of their own unless the cache is fresh.                      *)
Ask(c) ==
  /\ line[c].step = "ask"
  /\ LET l == line[c] IN
     \/ Waved(l.host) /\ Permit(c, l)
     \/ Barred(l.host) /\ Refuse(c, l)
     \/ AskOwn(l.host) /\ Fresh /\ Judge(c, l, known.addresses)
     \/ /\ AskOwn(l.host) /\ ~Fresh
        /\ line' = [line EXCEPT ![c] =
             [step |-> "lookup", at |-> clock, left |-> SelfNames,
              found |-> SelfAddresses, for |-> l]]
        /\ UNCHANGED <<row, dialled>>
  /\ UNCHANGED <<unasked, egress, own, since, known, clock, events>>
(* One name after another; a name that does not resolve adds nothing.      *)
ResolveOwn(c, name) ==
  /\ line[c].step = "lookup" /\ name \in line[c].left
  /\ line' = [line EXCEPT ![c].left = @ \ {name}, ![c].found = @ \cup own[name]]
  /\ UNCHANGED <<row, dialled, unasked, egress, own, since, known, clock, events>>
(* The cache is as old as the start of its resolution, and the last one    *)
(* to end is kept; who resolved judges by its own answers, however old.    *)
LookedUp(c) ==
  /\ line[c].step = "lookup" /\ line[c].left = {}
  /\ known' = [at |-> line[c].at, addresses |-> line[c].found]
  /\ Judge(c, line[c].for, line[c].found)
  /\ UNCHANGED <<unasked, egress, own, since, clock, events>>

-----------------------------------------------------------------------------
(* The callers.                                                            *)

RowOf(l) == IF l.why = "look" THEN {} ELSE {l.row}
About(c) == CASE line[c].step = "idle" -> {} [] line[c].step = "lookup" -> RowOf(line[c].for)
              [] line[c].step = "answered" -> {line[c].row} [] OTHER -> RowOf(line[c])

(* POST of any of them, PATCH of a target or a destination.                *)
Form(c, r) ==
  /\ line[c] = Idle
  /\ \E kind \in Kinds, name \in Names :
       /\ \/ row[r] = Unborn /\ \A d \in Callers : r \notin About(d)
          \/ Stored(r) /\ kind = row[r].kind /\ kind \notin Channels
       /\ line' = [line EXCEPT ![c] = Line("save", r, kind, name)]
  /\ UNCHANGED <<row, dialled, unasked, egress, own, since, known, clock, events>>

(* A test or a delivery reads the row, and asks about its address.         *)
Dial(c, r) ==
  /\ line[c] = Idle
  /\ line' = [line EXCEPT ![c] = Line("dial", r, row[r].kind, row[r].host)]
  /\ UNCHANGED <<row, dialled, unasked, egress, own, since, known, clock, events>>
(* POST /notification-channels/:id/test and the scheduler's deliveries: one*)
(* function serves both.                                                   *)
Notify(c, r)     == row[r].kind \in Channels /\ Dial(c, r)
(* POST /targets/:id/test-connection.                                      *)
ProbeRow(c, r)   == row[r].kind = "target" /\ Dial(c, r)
(* POST /destinations/:id/canary; the endpoint is asked about before the   *)
(* credential is decrypted.                                                *)
OpenBucket(c, r) == row[r].kind = "destination" /\ Dial(c, r)

(* POST /targets/discover, of an address no row has; and a job's bucket,   *)
(* by the function the canary uses.                                        *)
LookAt(c, kind, name) ==
  /\ c \in Lookers /\ line[c] = Idle
  /\ line' = [line EXCEPT ![c] = Look(kind, name)]
  /\ UNCHANGED <<row, dialled, unasked, egress, own, since, known, clock, events>>
Discover(c)     == \E name \in Names : LookAt(c, "target", name)
JobBucket(c, r) == row[r].kind = "destination" /\ LookAt(c, "destination", row[r].host)

Talking(c, kinds)  == line[c].step = "talking" /\ line[c].why = "dial" /\ line[c].kind \in kinds
Connects(c)        == Resolve(line[c].host) # {}
Answered(c, found) ==
  /\ line' = [line EXCEPT ![c] = [step |-> "answered", row |-> line[c].row, answer |-> found]]
  /\ UNCHANGED <<row, dialled, unasked, egress, own, since, known, clock, events>>
Outcome(c) == (Connects(c) /\ Answered(c, "ok")) \/ Answered(c, "failed")

(* A receiver redirects.  Mutant: followed by the client, past the guard.  *)
FollowBlindly(c) ==
  /\ Talking(c, {"webhook"}) /\ Connects(c) /\ line[c].hop < MaxRedirects
  /\ \E name \in Names : line' = [line EXCEPT ![c].host = name, ![c].hop = @ + 1]
  /\ UNCHANGED <<row, dialled, unasked, egress, own, since, known, clock, events>>
(* The guard is asked about every hop; MaxRedirects of them are followed,  *)
(* and one more is a failure.                                              *)
Follow(c) ==
  /\ Talking(c, {"webhook"}) /\ Connects(c) /\ line[c].hop < MaxRedirects
  /\ \E name \in Names :
       line' = [line EXCEPT ![c].step = "ask", ![c].host = name, ![c].hop = @ + 1]
  /\ UNCHANGED <<row, dialled, unasked, egress, own, since, known, clock, events>>
(* A final status, an error, or the one timeout over the whole chain; a    *)
(* mail relay at its three stages; a database; a bucket.                   *)
Posted(c)  == Talking(c, {"webhook"}) /\ Outcome(c)
Mailed(c)  == Talking(c, {"smtp"}) /\ Outcome(c)
Probed(c)  == Talking(c, {"target"}) /\ Outcome(c)
Canaried(c) == Talking(c, {"destination"}) /\ Outcome(c)

(* What a discovery found goes to its request, what a bucket said to its   *)
(* job.                                                                    *)
Looked(c) ==
  /\ line[c].step = "talking" /\ line[c].why = "look" /\ line' = [line EXCEPT ![c] = Idle]
  /\ UNCHANGED <<row, dialled, unasked, egress, own, since, known, clock, events>>

(* The verdict goes on the row, whatever its address by now; no row, no    *)
(* record.                                                                 *)
Tell(c, kinds) ==
  LET l == line[c] IN
  /\ l.step = "answered" /\ row[l.row].kind \in kinds \cup {"gone"}
  /\ row' = IF Stored(l.row) THEN [row EXCEPT ![l.row].told = l.answer] ELSE row
  /\ line' = [line EXCEPT ![c] = Idle]
  /\ UNCHANGED <<dialled, unasked, egress, own, since, known, clock, events>>
RecordDelivery(c) == Tell(c, Channels)
RecordProbe(c)    == Tell(c, {"target"})
RecordCanary(c)   == Tell(c, {"destination"})

Remove(r) ==
  /\ Stored(r) /\ row' = [row EXCEPT ![r] = Gone]
  /\ UNCHANGED <<dialled, unasked, egress, own, since, known, line, clock, events>>

(* A job probes its target, then dumps or restores it.  Nothing asks the   *)
(* guard on this way, and nothing is told.                                 *)
JobDials(r) ==
  /\ row[r].kind = "target" /\ unasked' = unasked \cup {r}
  /\ UNCHANGED <<row, dialled, egress, own, since, known, line, clock, events>>

-----------------------------------------------------------------------------
(* The deployment.                                                         *)

Tick ==
  /\ Event /\ clock' = clock + 1
  /\ UNCHANGED <<row, dialled, unasked, egress, own, since, known, line>>

(* No answer, or an address.                                               *)
Bindings == {{}} \cup {{a} : a \in Places}
(* A service restarts with another address, or its name stops answering.   *)
MoveService(name) ==
  /\ Event
  /\ \E place \in Bindings \ {own[name]} :
       /\ own' = [own EXCEPT ![name] = place]
       /\ since' = [since EXCEPT ![name] =
            [a \in Places |-> IF a \in place \ own[name] THEN clock ELSE @[a]]]
  /\ UNCHANGED <<row, dialled, unasked, egress, known, line, clock>>

Unknown == [at |-> 0 - Ttl, addresses |-> {}]
(* The server comes back, perhaps with another egress configuration.       *)
Reboot ==
  /\ Event
  /\ egress' \in Configs /\ known' = Unknown /\ line' = [c \in Callers |-> Idle]
  /\ UNCHANGED <<row, dialled, unasked, own, since, clock>>

DeliveryInit ==
  /\ row = [r \in Rows |-> Unborn] /\ dialled = {} /\ unasked = {} /\ egress \in Configs
  /\ own \in [SelfNames -> Bindings]
  /\ since = [name \in SelfNames |-> [a \in Places |-> 0 - Ttl]]
  /\ known = Unknown /\ line = [c \in Callers |-> Idle] /\ clock = 0 /\ events = 0

Connect(c) == Follow(c) \/ Posted(c) \/ Mailed(c) \/ Probed(c) \/ Canaried(c)
Called(c, r) == Form(c, r) \/ Notify(c, r) \/ ProbeRow(c, r) \/ OpenBucket(c, r) \/ JobBucket(c, r)
DeliveryNext ==
  \/ \E c \in Callers :
       \/ Ask(c) \/ (\E name \in SelfNames : ResolveOwn(c, name)) \/ LookedUp(c)
       \/ Connect(c) \/ Looked(c) \/ Discover(c) \/ \E r \in Rows : Called(c, r)
       \/ RecordDelivery(c) \/ RecordProbe(c) \/ RecordCanary(c)
  \/ (\E r \in Rows : Remove(r) \/ JobDials(r))
  \/ Tick \/ (\E name \in SelfNames : MoveService(name)) \/ Reboot
DeliverySpec == DeliveryInit /\ [][DeliveryNext]_dvars

-----------------------------------------------------------------------------
(* Properties.                                                             *)

DeliveryTypeOK ==
  /\ dialled \subseteq Rows /\ unasked \subseteq Rows /\ egress \in Configs
  /\ own \in [SelfNames -> SUBSET Places] /\ clock \in 0..MaxEvents
  /\ since \in [SelfNames -> [Places -> -Ttl..MaxEvents]] /\ known.at \in -Ttl..MaxEvents
  /\ known.addresses \subseteq Places \cup SelfAddresses
  /\ \A r \in Rows : Stored(r) => row[r].host \in Names /\ row[r].told \in Verdicts
  /\ \A c \in Callers : About(c) \subseteq Rows
  /\ events \in 0..MaxEvents

(* What can never be a destination, by the numbers its addresses have: the *)
(* unspecified, the loopback and the link-local ones, with the metadata    *)
(* service of a cloud among them (guard.ts, at ALWAYS_DENIED).             *)
Byte == 0..255
ReservedV4 == {a \in [1..4 -> Byte] : a[1] \in {0, 127} \/ (a[1] = 169 /\ a[2] = 254)}
ReservedV6 ==
  {a \in [1..16 -> Byte] :
     \/ a[1] = 254 /\ a[2] \in 128..191
     \/ (\A i \in 1..15 : a[i] = 0) /\ a[16] \in {0, 1}}
Reserved == ReservedV4 \cup ReservedV6

(* A service had not answered with an address for the lifetime of the      *)
(* cache, or not yet when the caller's own resolution began.               *)
Unseen(c, name, a) ==
  clock - since[name][a] < Ttl \/ (line[c].step = "lookup" /\ since[name][a] >= line[c].at)
(* A socket is opened, at whatever hop, only to a name the operator allows *)
(* or to one that is no service of this deployment and has no address that *)
(* is never a destination, that the configuration denies, or that a service*)
(* has answered with for so long.                                          *)
Innocent(c, name) ==
  \/ \E a \in Resolve(name) : InSome(a, egress.allow)
  \/ \A a \in Resolve(name) :
       /\ name \notin SelfNames /\ a \notin Reserved /\ a \notin SelfAddresses
       /\ ~InSome(a, egress.deny)
       /\ \A service \in SelfNames : a \in own[service] => Unseen(c, service, a)
Opens(c) == line'[c].step = "talking" /\ line'[c] # line[c]

(* What asks the guard (requests, deliveries, whatever opens a bucket) does*)
(* not dial the control plane; and "we did not look" is not "we looked and *)
(* it is bad": a target or a destination carries a verdict only if a       *)
(* guarded connection was opened for it, however the guard ruled since and *)
(* whatever jobs found, who ask nobody.                                    *)
EveryDialIsGuarded ==
  /\ [][\A c \in Callers : Opens(c) => Innocent(c, line'[c].host)]_dvars
  /\ [](\A r \in Rows : Stored(r) /\ row[r].kind \notin Channels /\ row[r].told # "never"
                         => r \in dialled)
=============================================================================
