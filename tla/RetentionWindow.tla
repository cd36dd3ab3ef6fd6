--------------------------- MODULE RetentionWindow ---------------------------
(***************************************************************************)
(* Which copies of a policy a retention cycle keeps: resolveRetention and  *)
(* addPeriodic of packages/core/src/retention.ts, a pure function of the   *)
(* manifests, the policy, the clock and the copies to keep whatever the    *)
(* counters say.                                                           *)
(*                                                                         *)
(* A copy is the instant its manifest was created, so a set of copies is a *)
(* set of times.  A calendar gives each rule (day, ISO week, month, year)  *)
(* the bucket of every time.  dependsOn is empty in every manifest this    *)
(* version writes, so the orphan check has nothing to find and is left out.*)
(***************************************************************************)
EXTENDS Integers, FiniteSets

CONSTANTS
  Times,     \* the instants at which backups are taken
  Rules,     \* the periodic rules
  Calendar   \* the bucket of each time under each rule

(* Bucket keys are computed in UTC and never run backwards.                *)
ASSUME CalendarRunsForward ==
  /\ Times \subseteq Nat
  /\ Calendar \in [Rules -> [Times -> Nat]]
  /\ \A r \in Rules : \A s, t \in Times : s <= t => Calendar[r][s] <= Calendar[r][t]

(* A policy: keepLast, the periodic counters, minAgeBeforeDelete.          *)
IsPolicy(p) == p.last \in Nat /\ p.every \in [Rules -> Nat] /\ p.minAge \in Nat

(* Every counter defaults to 0; the age floor is no request to retain.     *)
IsConfigured(p) == p.last > 0 \/ \E r \in Rules : p.every[r] > 0

(* The copies in falling order.                                            *)
NewestFirst(copies) ==
  CHOOSE s \in [1..Cardinality(copies) -> copies] : \A i, j \in DOMAIN s : i < j => s[i] > s[j]

KeepLast(copies, n) ==
  LET sorted == NewestFirst(copies)
  IN  {sorted[i] : i \in {j \in DOMAIN sorted : j <= n}}

(* Mutant: it counts copies, not periods.                                  *)
VisitCopies(acc, t, rule, count) ==
  IF t \in acc.seen \/ Cardinality(acc.seen) >= count THEN acc
  ELSE [seen |-> acc.seen \cup {t}, keep |-> acc.keep \cup {t}]

(* One turn of the loop: skip a bucket already covered, stop when full.    *)
Visit(acc, t, rule, count) ==
  IF Calendar[rule][t] \in acc.seen \/ Cardinality(acc.seen) >= count THEN acc
  ELSE [seen |-> acc.seen \cup {Calendar[rule][t]}, keep |-> acc.keep \cup {t}]

(* The loop over the sorted copies, after each number of them.             *)
Loop(copies, rule, count) ==
  LET sorted == NewestFirst(copies)
      after[i \in 0..Cardinality(copies)] ==
        IF i = 0 THEN [seen |-> {}, keep |-> {}] ELSE Visit(after[i - 1], sorted[i], rule, count)
  IN  after

(* The newest copy of each of the newest `count` buckets.                  *)
AddPeriodic(copies, rule, count) == Loop(copies, rule, count)[Cardinality(copies)].keep

TooYoung(copies, p, now) == {t \in copies : now - t < p.minAge}

(* resolveRetention: what stays.                                           *)
Kept(copies, p, now, alwaysKeep) ==
  KeepLast(copies, p.last)
    \cup (UNION {AddPeriodic(copies, r, p.every[r]) : r \in Rules})
    \cup TooYoung(copies, p, now)
    \cup (alwaysKeep \cap copies)

-----------------------------------------------------------------------------
(* The reference: what grandfather-father-son retention promises, said     *)
(* without sorting.                                                        *)
Newer(copies, t) == {u \in copies : u > t}
BucketsNewer(copies, rule, t) == {Calendar[rule][u] : u \in Newer(copies, t)}

Promised(copies, p, now) ==
  {t \in copies :
     \/ Cardinality(Newer(copies, t)) < p.last
     \/ \E r \in Rules :
          /\ Calendar[r][t] \notin BucketsNewer(copies, r, t)
          /\ Cardinality(BucketsNewer(copies, r, t)) < p.every[r]
     \/ now - t < p.minAge}
=============================================================================
