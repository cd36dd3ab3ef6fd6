---------------------------- MODULE CatalogProofs ----------------------------
(***************************************************************************)
(* Proofs about Catalog: for any number of backups, any set of retention   *)
(* settings, any calendar and any number of disturbances, a rebuild that   *)
(* comes to its end covers the bucket it saw, rows and objects agree where *)
(* nothing failed, and the newest proven copy survives every cycle.        *)
(*                                                                         *)
(* The retention window itself is proved first: the single pass over the   *)
(* sorted copies keeps what the reference promises, and a cycle that only  *)
(* sees what earlier cycles left keeps what the policy wants of all the    *)
(* backups that ever got their row.                                        *)
(***************************************************************************)
EXTENDS Catalog, FiniteSetTheorems, WellFoundedInduction, TLAPS

(* A backup that may yet chain its retention.                              *)
InLanding == pc \in {"manifest", "persist", "succeed", "chain"}

(* Nothing is there of a backup that has not been taken, and nobody has    *)
(* one in hand.                                                            *)
ClockInv ==
  /\ \A t \in Times : t > now => objs[t] = {} /\ row[t] = "none" /\ job[t] = "none"
  /\ reb.todo \subseteq reb.seen /\ \A t \in reb.seen : t <= now
  /\ api.pc # "idle" => api.t \in Times /\ api.t <= now
  /\ todo \subseteq 1..now
  /\ prunes <= now /\ (InLanding => prunes < now)
  /\ pc \in {"manifest", "persist", "discard"} => cur = now /\ cur \in Times
  /\ pc = "record" => cur \in Times
  /\ pc = "row" => cur \in todo
  /\ pc = "objects" => todo # {}

(* Until its manifest is written, nobody else knows of a backup; of an     *)
(* artifact whose row is about to go, nothing is in the bucket.            *)
HandInv ==
  /\ pc = "manifest" => /\ row[cur] = "none" /\ objs[cur] = {"data"} /\ cur \notin reb.seen
                        /\ api.pc # "idle" => api.t # cur
  /\ pc = "row" => objs[cur] = {}
  /\ api.pc = "row" => objs[api.t] = {}

(* What a rebuild has seen and need not import, or has imported, has a row.*)
RebuildInv ==
  /\ reb.pc = "scanned" => reb.todo = reb.seen
  /\ reb.pc = "import" => \A t \in reb.seen \ reb.todo : "manifest" \in objs[t] => row[t] # "none"

(* Row and objects agree, but of the artifact somebody has in hand.        *)
InDeletion(t) == (pc = "row" /\ t = cur) \/ (api.pc = "row" /\ t = api.t)
InBackup(t) == pc \in {"manifest", "persist"} /\ t = cur
MatchInv ==
  Undisturbed /\ Never({"rebuild", "loss"}) =>
    /\ pc \notin {"discard", "down"} /\ reb.pc = "idle"
    /\ pc \in {"manifest", "persist"} => row[cur] = "none" /\ (api.pc # "idle" => api.t # cur)
    /\ pc = "persist" => objs[cur] = Objects
    /\ \A t \in Times :
         \/ row[t] = "none" /\ objs[t] = {}
         \/ row[t] # "none" /\ objs[t] = Objects
         \/ row[t] # "none" /\ objs[t] = {} /\ InDeletion(t)
         \/ InBackup(t)

(* Without a partial delete, a manifest is there with its data.            *)
WholeInv ==
  /\ Never({"fault"}) => \A t \in Times : objs[t] \in {{}, {"data"}, Objects}
  /\ Never({"delete"}) => api.pc = "idle"
  /\ Never({"rebuild"}) => reb.pc = "idle" /\ \A t, u \in Rowed : t < u => rowAt[t] < rowAt[u]

(* From the listing of a cycle on: what it lists is the policy's, and all  *)
(* that is proven is listed; what it is about to delete, another proven    *)
(* copy outlives.                                                          *)
Outlives(u, t) == /\ row[u] = "VERIFIED" /\ objs[u] = Objects
                  /\ spent["rebuild"] = 0 => u > t
Outlived(t) == \E u \in Rowed \ todo : Outlives(u, t)
CycleInv ==
  Never({"delete", "fault"}) =>
    /\ pc \in {"read", "resolve"} =>
         /\ \A t \in todo : row[t] # "none" /\ job[t] = "linked"
         /\ \A t \in Rowed : job[t] = "linked" /\ row[t] = "VERIFIED" => t \in todo
    /\ pc = "resolve" => \A t \in todo : objs[t] = Objects
    /\ pc \in {"objects", "row"} => \A t \in todo : row[t] = "VERIFIED" => Outlived(t)

(* What the policy wants is in the bucket and in the catalog, and a cycle  *)
(* works on what landed and has none of it among what it deletes.          *)
Untouched == Never({"edit", "delete", "rebuild", "loss"})
PromiseInv ==
  /\ landed \subseteq 1..now
  /\ pc \in {"manifest", "persist", "discard"} => cur \notin landed
  /\ Untouched =>
       /\ Rowed \subseteq landed
       /\ pc = "persist" => objs[cur] = Objects
       /\ pc \in {"list", "read", "resolve", "objects", "row"} => asked = policy
       /\ pc \in {"read", "resolve", "objects", "row"} => IsConfigured(policy)
       /\ pc \in {"read", "resolve"} => todo \subseteq landed
       /\ pc \in {"objects", "row"} => todo \cap Wanted = {}
       /\ \A t \in Wanted : row[t] # "none" /\ objs[t] = Objects

IInv == /\ TypeOK /\ ClockInv /\ HandInv /\ RebuildInv /\ MatchInv /\ WholeInv
        /\ CycleInv /\ PromiseInv

-----------------------------------------------------------------------------
(* Least and greatest members, and bounds of finite ranges: the induction  *)
(* of these proofs is here, in the well-foundedness of the naturals.       *)

LEMMA Smallest ==
  ASSUME NEW S \in SUBSET Nat, S # {}
  PROVE  \E m \in S : \A k \in S : m <= k
  <1> DEFINE Below == OpToRel(<, Nat)
  <1>0. IsWellFoundedOn(Below, Nat)
    BY NatLessThanWellFounded
  <1> HIDE DEF Below
  <1>1. PICK m \in S : \A k \in S : <<k, m>> \notin Below
    BY <1>0, WFMin, Zenon
  <1>2. \A k \in Nat : k < m => <<k, m>> \in Below
    BY Zenon DEF OpToRel, Below
  <1>3. \A k \in S : ~(k < m)
    BY <1>1, <1>2
  <1> QED
    BY <1>3

LEMMA Largest ==
  ASSUME NEW S \in SUBSET Nat, S # {}, NEW b \in Nat, \A k \in S : k <= b
  PROVE  \E m \in S : \A k \in S : k <= m
  <1> DEFINE D == {b - k : k \in S}
  <1>0. \A k \in S : b - k \in Nat
    OBVIOUS
  <1>1. D \in SUBSET Nat /\ D # {}
    BY <1>0
  <1>2. PICK d \in D : \A e \in D : d <= e
    BY <1>1, Smallest
  <1>3. PICK m \in S : d = b - m
    OBVIOUS
  <1>4. ASSUME NEW k \in S PROVE k <= m
    <2>1. b - m <= b - k
      BY <1>2, <1>3
    <2> QED
      BY <2>1
  <1> QED
    BY <1>4

LEMMA FiniteRange ==
  ASSUME NEW N \in Nat, NEW f \in [1..N -> Nat]
  PROVE  \E b \in Nat : \A t \in 1..N : f[t] <= b
  <1> DEFINE Bounded(n) == \E b \in Nat : \A t \in 1..n : f[t] <= b
  <1> DEFINE B == {n \in 0..N : ~Bounded(n)}
  <1>1. CASE B = {}
    <2>1. N \in 0..N
      OBVIOUS
    <2> QED
      BY <1>1, <2>1
  <1>2. CASE B # {}
    <2>1. B \in SUBSET Nat
      OBVIOUS
    <2>2. PICK n \in B : \A k \in B : n <= k
      BY <1>2, <2>1, Smallest
    <2>3. n \in 0..N /\ ~Bounded(n)
      OBVIOUS
    <2>4. n # 0
      <3>1. \A t \in 1..0 : f[t] <= 0
        OBVIOUS
      <3> QED
        BY <2>3, <3>1
    <2>5. n - 1 \in 0..N /\ n \in 1..N /\ ~(n <= n - 1)
      BY <2>3, <2>4
    <2>6. Bounded(n - 1)
      BY <2>2, <2>5
    <2>7. PICK b \in Nat : \A t \in 1..(n - 1) : f[t] <= b
      BY <2>6
    <2>8. f[n] \in Nat
      BY <2>5
    <2>9. PICK c \in Nat : b <= c /\ f[n] <= c
      <3>1. CASE b <= f[n]
        BY <2>8, <3>1
      <3>2. CASE f[n] <= b
        BY <2>8, <3>2
      <3> QED
        BY <2>8, <3>1, <3>2
    <2>10. \A t \in 1..n : f[t] <= c
      <3> SUFFICES ASSUME NEW t \in 1..n PROVE f[t] <= c
        OBVIOUS
      <3>1. CASE t = n
        BY <2>9, <3>1
      <3>2. CASE t # n
        <4>1. t \in 1..(n - 1) /\ t \in 1..N
          BY <2>5, <3>2
        <4>2. f[t] \in Nat /\ f[t] <= b
          BY <2>7, <4>1
        <4> QED
          BY <2>9, <4>2
      <3> QED
        BY <3>1, <3>2
    <2> QED
      BY <2>3, <2>10
  <1> QED
    BY <1>1, <1>2

(* The newest and the oldest of a set of backups, and a later createdAt.   *)
LEMMA TimesAreNumbers ==
  Cardinality(Times) \in Nat /\ Times = 1..Cardinality(Times) /\ Times \subseteq Nat
  BY CatalogBounds, FS_CardinalityType

LEMMA LatestIsLast ==
  ASSUME NEW S \in SUBSET Times, S # {}
  PROVE  Latest(S) \in S /\ \A u \in S : u <= Latest(S)
  <1>0. S \in SUBSET Nat /\ \A k \in S : k <= Cardinality(Times)
    BY TimesAreNumbers
  <1>1. \E t \in S : \A u \in S : u <= t
    BY <1>0, TimesAreNumbers, Largest
  <1> QED
    BY <1>1 DEF Latest

LEMMA NextImportIsFirst ==
  ASSUME reb.todo \in SUBSET Times, reb.todo # {}
  PROVE  NextImport \in reb.todo
  <1>1. \E t \in reb.todo : \A u \in reb.todo : t <= u
    BY TimesAreNumbers, Smallest
  <1> QED
    BY <1>1 DEF NextImport

LEMMA LaterIsLater ==
  ASSUME rowAt \in [Times -> Nat], Times # {}
  PROVE  LaterThanAll \in Nat /\ \A t \in Times : rowAt[t] < LaterThanAll
  <1> DEFINE R == {rowAt[t] : t \in Times}
  <1>1. R \in SUBSET Nat /\ R # {}
    OBVIOUS
  <1>2. PICK b \in Nat : \A t \in Times : rowAt[t] <= b
    BY TimesAreNumbers, FiniteRange
  <1>3. \A n \in R : n <= b
    BY <1>2
  <1>4. PICK m \in R : \A n \in R : n <= m
    BY <1>1, <1>3, Largest
  <1>5. \A t \in Times : rowAt[t] <= m
    BY <1>4
  <1> DEFINE c == CHOOSE n \in R : \A t \in Times : rowAt[t] <= n
  <1>6. c \in R /\ \A t \in Times : rowAt[t] <= c
    BY <1>5
  <1>7. LaterThanAll = 1 + c
    BY DEF LaterThanAll
  <1> HIDE DEF c
  <1>8. c \in Nat
    BY <1>1, <1>6
  <1> HIDE DEF R
  <1> QED
    BY <1>6, <1>7, <1>8

(* A policy with a backup taken has an instant, so a createdAt is a number.*)
LEMMA CreatedAtIsNumber ==
  ASSUME TypeOK, NEW t \in Times
  PROVE  LaterThanAll \in Nat /\ \A u \in Times : rowAt[u] < LaterThanAll
  BY LaterIsLater DEF TypeOK

-----------------------------------------------------------------------------
(* The retention window, for every calendar and policy: the sorted pass    *)
(* keeps exactly what the reference says.                                  *)

(* A loop that runs N turns has a value after each of them.                *)
Runs(f, n, base, step) == f[0] = base /\ \A i \in 1..n : f[i] = step[i][f[i - 1]]
LEMMA Iterated ==
  ASSUME NEW N \in Nat, NEW X, NEW base \in X,
         NEW step, \A i \in 1..N : \A x \in X : step[i][x] \in X
  PROVE  \E f \in [0..N -> X] : Runs(f, N, base, step)
  <1> DEFINE Stuck == {n \in 0..N : ~ \E f \in [0..n -> X] : Runs(f, n, base, step)}
  <1>1. CASE Stuck = {}
    <2>1. N \in 0..N
      OBVIOUS
    <2> QED
      BY <1>1, <2>1
  <1>2. CASE Stuck # {}
    <2>1. Stuck \in SUBSET Nat
      OBVIOUS
    <2>2. PICK n \in Stuck : \A k \in Stuck : n <= k
      BY <1>2, <2>1, Smallest
    <2>3. n \in 0..N /\ ~ \E f \in [0..n -> X] : Runs(f, n, base, step)
      OBVIOUS
    <2>4. n # 0
      <3> DEFINE f == [i \in 0..0 |-> base]
      <3>1. f \in [0..0 -> X] /\ Runs(f, 0, base, step)
        BY DEF Runs
      <3> QED
        BY <2>3, <3>1
    <2>5. n - 1 \in 0..N /\ n \in 1..N /\ ~(n <= n - 1)
      BY <2>3, <2>4
    <2>6. PICK f \in [0..(n - 1) -> X] : Runs(f, n - 1, base, step)
      BY <2>2, <2>5
    <2> DEFINE g == [i \in 0..n |-> IF i = n THEN step[n][f[n - 1]] ELSE f[i]]
    <2>7. step[n][f[n - 1]] \in X
      <3>1. n - 1 \in 0..(n - 1) /\ f[n - 1] \in X
        BY <2>5, <2>6
      <3> QED
        BY <2>5, <3>1
    <2>8. g \in [0..n -> X]
      <3>1. \A i \in 0..n : i # n => i \in 0..(n - 1)
        BY <2>5
      <3> QED
        BY <2>7, <3>1
    <2>9. Runs(g, n, base, step)
      <3>1. g[0] = base
        BY <2>5, <2>6 DEF Runs
      <3>2. ASSUME NEW i \in 1..n PROVE g[i] = step[i][g[i - 1]]
        <4>1. CASE i = n
          <5>1. g[n - 1] = f[n - 1] /\ g[n] = step[n][f[n - 1]]
            BY <2>5
          <5> QED
            BY <4>1, <5>1
        <4>2. CASE i # n
          <5>1. i \in 1..(n - 1) /\ i - 1 # n /\ i \in 0..n /\ i - 1 \in 0..n
            BY <2>5, <4>2
          <5>2. g[i] = f[i] /\ g[i - 1] = f[i - 1]
            BY <4>2, <5>1
          <5> QED
            BY <2>6, <5>1, <5>2 DEF Runs
        <4> QED
          BY <4>1, <4>2
      <3> QED
        BY <3>1, <3>2 DEF Runs
    <2> QED
      BY <2>3, <2>8, <2>9
  <1> QED
    BY <1>1, <1>2

(* Any set of copies can be put in falling order.                          *)
LEMMA CopiesSort ==
  ASSUME NEW copies \in SUBSET Times
  PROVE  \E s \in [1..Cardinality(copies) -> copies] :
           \A i, j \in DOMAIN s : i < j => s[i] > s[j]
  <1> DEFINE Falls(s) == \A i, j \in DOMAIN s : i < j => s[i] > s[j]
             Unsorted == {S \in SUBSET Times : ~ \E s \in [1..Cardinality(S) -> S] : Falls(s)}
             Sizes == {Cardinality(S) : S \in Unsorted}
  <1>1. \A S \in SUBSET Times : IsFiniteSet(S) /\ Cardinality(S) \in Nat
    BY CatalogBounds, FS_Subset, FS_CardinalityType
  <1>2. CASE Unsorted = {}
    BY <1>2
  <1>3. CASE Unsorted # {}
    <2>1. Sizes \in SUBSET Nat /\ Sizes # {}
      BY <1>1, <1>3
    <2> HIDE DEF Sizes
    <2>2. PICK n \in Sizes : \A k \in Sizes : n <= k
      BY <2>1, Smallest
    <2>3. PICK S \in Unsorted : n = Cardinality(S)
      BY DEF Sizes
    <2>4. S \in SUBSET Times /\ ~ \E s \in [1..n -> S] : Falls(s)
      BY <2>3
    <2>5. S # {}
      <3> SUFFICES ASSUME S = {} PROVE FALSE
        OBVIOUS
      <3> DEFINE s == [i \in {} |-> 0]
      <3>1. n = 0 /\ 1..n = {}
        BY <2>3, FS_EmptySet
      <3>2. s \in [{} -> {}] /\ Falls(s)
        OBVIOUS
      <3> HIDE DEF s, Falls
      <3>3. s \in [1..n -> S]
        BY <3>1, <3>2
      <3> QED
        BY <2>4, <3>2, <3>3
    <2>6. PICK m \in S : \A t \in S : m <= t
      BY <2>4, <2>5, Smallest, TimesAreNumbers
    <2> DEFINE R == S \ {m}
    <2>7. R \in SUBSET Times /\ Cardinality(R) = n - 1 /\ n \in Nat /\ n - 1 \in Nat
      <3>1. R \in SUBSET Times /\ IsFiniteSet(S) /\ Cardinality(R) \in Nat
        BY <1>1, <2>4
      <3>2. Cardinality(R) = Cardinality(S) - 1
        BY <2>6, <3>1, FS_RemoveElement
      <3> QED
        BY <1>1, <2>3, <2>4, <3>1, <3>2
    <2>8. R \notin Unsorted
      <3>1. n - 1 \notin Sizes
        BY <2>1, <2>2, <2>7
      <3> HIDE DEF Unsorted
      <3> QED
        BY <2>7, <3>1 DEF Sizes
    <2>9. PICK s \in [1..(n - 1) -> R] : Falls(s)
      BY <2>7, <2>8
    <2> DEFINE g == [i \in 1..n |-> IF i = n THEN m ELSE s[i]]
    <2>10. \A i \in 1..n : i # n => i \in 1..(n - 1) /\ s[i] \in R
      BY <2>7, <2>9
    <2>11. g \in [1..n -> S]
      BY <2>6, <2>10
    <2>12. Falls(g)
      <3> SUFFICES ASSUME NEW i \in 1..n, NEW j \in 1..n, i < j PROVE g[i] > g[j]
        OBVIOUS
      <3>1. i # n /\ i \in 1..(n - 1) /\ g[i] = s[i] /\ s[i] \in R
        BY <2>7, <2>10
      <3>2. CASE j = n
        <4>1. g[j] = m /\ m <= s[i] /\ s[i] # m /\ m \in Nat /\ s[i] \in Nat
          BY <2>4, <2>6, <3>1, <3>2, TimesAreNumbers
        <4> QED
          BY <3>1, <4>1
      <3>3. CASE j # n
        <4>1. j \in 1..(n - 1) /\ g[j] = s[j]
          BY <2>10, <3>3
        <4> QED
          BY <2>9, <3>1, <4>1
      <3> QED
        BY <3>2, <3>3
    <2> QED
      BY <2>4, <2>11, <2>12
  <1> QED
    BY <1>2, <1>3

(* The sorted copies: each one once, and those before it are the newer.    *)
LEMMA SortedCopies ==
  ASSUME NEW copies \in SUBSET Times
  PROVE  LET s == NewestFirst(copies)
             N == Cardinality(copies)
         IN  /\ IsFiniteSet(copies) /\ N \in Nat
             /\ s \in [1..N -> copies]
             /\ \A t \in copies : \E i \in 1..N : t = s[i]
             /\ \A i \in 1..N : /\ Newer(copies, s[i]) = {s[j] : j \in 1..(i - 1)}
                                /\ Cardinality(Newer(copies, s[i])) = i - 1
             /\ \A i, j \in 1..N : i # j => s[i] # s[j]
  <1> DEFINE s == NewestFirst(copies)
             N == Cardinality(copies)
  <1>1. IsFiniteSet(copies) /\ N \in Nat
    BY CatalogBounds, FS_Subset, FS_CardinalityType
  <1>2. s \in [1..N -> copies] /\ \A i, j \in 1..N : i < j => s[i] > s[j]
    <2>1. s \in [1..N -> copies] /\ \A i, j \in DOMAIN s : i < j => s[i] > s[j]
      BY CopiesSort DEF NewestFirst
    <2> QED
      BY <2>1
  <1> HIDE DEF s, N
  <1>3. \A i \in 1..N : s[i] \in Nat /\ s[i] \in copies
    BY <1>2, TimesAreNumbers
  <1>4. \A i, j \in 1..N : i # j => s[i] # s[j]
    <2> SUFFICES ASSUME NEW i \in 1..N, NEW j \in 1..N, i # j PROVE s[i] # s[j]
      OBVIOUS
    <2>1. i < j \/ j < i
      BY <1>1
    <2>2. s[i] > s[j] \/ s[j] > s[i]
      BY <1>2, <2>1
    <2> QED
      BY <1>3, <2>2
  <1>5. \A t \in copies : \E i \in 1..N : t = s[i]
    <2>1. s \in Injection(1..N, copies)
      BY <1>2, <1>4 DEF Injection, IsInjective
    <2>2. IsFiniteSet(1..N) /\ Cardinality(1..N) = N
      BY <1>1, FS_Interval
    <2>3. s \in Surjection(1..N, copies)
      BY <1>1, <2>1, <2>2, FS_Injection DEF N
    <2> QED
      BY <2>3 DEF Surjection
  <1>6. ASSUME NEW i \in 1..N
        PROVE  /\ Newer(copies, s[i]) = {s[j] : j \in 1..(i - 1)}
               /\ Cardinality(Newer(copies, s[i])) = i - 1
    <2>0. i - 1 \in Nat /\ \A j \in 1..(i - 1) : j \in 1..N /\ j < i
      BY <1>1
    <2>1. ASSUME NEW j \in 1..(i - 1) PROVE s[j] \in Newer(copies, s[i])
      BY <1>2, <1>3, <2>0 DEF Newer
    <2>2. ASSUME NEW t \in Newer(copies, s[i]) PROVE t \in {s[j] : j \in 1..(i - 1)}
      <3>1. t \in copies /\ t > s[i]
        BY DEF Newer
      <3>2. PICK j \in 1..N : t = s[j]
        BY <1>5, <3>1
      <3>3. ~(s[i] > s[j]) /\ s[j] # s[i]
        BY <1>3, <3>1, <3>2
      <3>4. j < i
        BY <1>1, <1>2, <3>3
      <3>5. j \in 1..(i - 1)
        BY <1>1, <3>4
      <3> QED
        BY <3>2, <3>5
    <2>3. Newer(copies, s[i]) = {s[j] : j \in 1..(i - 1)}
      BY <2>1, <2>2
    <2> DEFINE f == [j \in 1..(i - 1) |-> s[j]]
    <2>4. f \in Bijection(1..(i - 1), Newer(copies, s[i]))
      <3>1. f \in [1..(i - 1) -> Newer(copies, s[i])]
        BY <2>1
      <3>2. \A a, b \in 1..(i - 1) : f[a] = f[b] => a = b
        BY <1>4, <2>0
      <3>3. \A t \in Newer(copies, s[i]) : \E j \in 1..(i - 1) : f[j] = t
        BY <2>2
      <3> HIDE DEF f
      <3> QED
        BY <3>1, <3>2, <3>3 DEF Bijection, Injection, IsInjective, Surjection
    <2>5. ExistsBijection(1..(i - 1), Newer(copies, s[i]))
      BY <2>4 DEF ExistsBijection
    <2> QED
      BY <2>0, <2>3, <2>5, FS_CountingElements
  <1> QED
    BY <1>1, <1>2, <1>4, <1>5, <1>6 DEF s, N

(* KeepLast: the copies that few enough are newer than.                    *)
LEMMA KeepLastCounts ==
  ASSUME NEW copies \in SUBSET Times, NEW n \in Nat
  PROVE  KeepLast(copies, n) = {t \in copies : Cardinality(Newer(copies, t)) < n}
  <1> DEFINE s == NewestFirst(copies)
             N == Cardinality(copies)
  <1>1. /\ N \in Nat /\ s \in [1..N -> copies]
        /\ \A t \in copies : \E i \in 1..N : t = s[i]
        /\ \A i \in 1..N : Cardinality(Newer(copies, s[i])) = i - 1
    BY SortedCopies
  <1>2. KeepLast(copies, n) = {s[i] : i \in {j \in DOMAIN s : j <= n}}
    BY DEF KeepLast
  <1> HIDE DEF s, N
  <1>3. DOMAIN s = 1..N /\ \A i \in 1..N : i - 1 < n <=> i <= n
    BY <1>1
  <1> QED
    BY <1>1, <1>2, <1>3

(* What the loop is when it has run i turns.                               *)
LEMMA LoopRuns ==
  ASSUME NEW copies \in SUBSET Times, NEW rule \in Rules, NEW count \in Nat
  PROVE  LET s == NewestFirst(copies)
             L == Loop(copies, rule, count)
         IN  /\ \A i \in 0..Cardinality(copies) :
                  L[i] \in [seen : SUBSET Nat, keep : SUBSET copies]
             /\ L[0] = [seen |-> {}, keep |-> {}]
             /\ \A i \in 1..Cardinality(copies) : L[i] = Visit(L[i - 1], s[i], rule, count)
  <1> DEFINE s == NewestFirst(copies)
             N == Cardinality(copies)
             X == [seen : SUBSET Nat, keep : SUBSET copies]
             base == [seen |-> {}, keep |-> {}]
             step == [i \in 1..N |-> [acc \in X |-> Visit(acc, s[i], rule, count)]]
             Turns(f) == [i \in 0..N |-> IF i = 0 THEN base ELSE Visit(f[i - 1], s[i], rule, count)]
             L == CHOOSE f : f = Turns(f)
  <1>0. Loop(copies, rule, count) = L
    BY Zenon DEF Loop
  <1>1. N \in Nat /\ s \in [1..N -> copies]
    BY SortedCopies
  <1> HIDE DEF s, N
  <1>2. base \in X
    OBVIOUS
  <1>3. ASSUME NEW acc \in X, NEW i \in 1..N PROVE Visit(acc, s[i], rule, count) \in X
    <2>1. s[i] \in copies /\ Calendar[rule][s[i]] \in Nat
      <3>1. s[i] \in copies /\ s[i] \in Times
        BY <1>1
      <3>2. Calendar[rule] \in [Times -> Nat]
        BY CalendarRunsForward
      <3> QED
        BY <3>1, <3>2
    <2> QED
      BY <2>1 DEF Visit
  <1>4. \A i \in 1..N : \A x \in X : step[i][x] \in X
    BY <1>3
  <1> HIDE DEF X, base
  <1>5. PICK f \in [0..N -> X] : Runs(f, N, base, step)
    <2> HIDE DEF step
    <2> QED
      BY <1>1, <1>2, <1>4, Iterated
  <1>6. \A i \in 1..N : i - 1 \in 0..N /\ i # 0 /\ f[i - 1] \in X
    BY <1>1, <1>5
  <1>7. \A i \in 1..N : f[i] = Visit(f[i - 1], s[i], rule, count)
    BY <1>5, <1>6 DEF Runs
  <1>8. f = Turns(f)
    <2>1. \A i \in 0..N : f[i] = IF i = 0 THEN base ELSE Visit(f[i - 1], s[i], rule, count)
      <3>1. \A i \in 0..N : i = 0 \/ i \in 1..N
        BY <1>1
      <3> QED
        BY <1>5, <1>7, <3>1 DEF Runs
    <2> QED
      BY <1>5, <2>1
  <1>9. L = Turns(L)
    <2> HIDE DEF Turns
    <2> QED
      BY <1>8
  <1> HIDE DEF L
  <1>10. L[0] = base /\ \A i \in 1..N : L[i] = Visit(L[i - 1], s[i], rule, count)
    <2>1. 0 \in 0..N /\ \A i \in 1..N : i \in 0..N /\ i # 0
      BY <1>1
    <2> QED
      BY <1>9, <2>1
  <1>11. \A i \in 0..N : L[i] \in X
    <2> DEFINE Bad == {i \in 0..N : L[i] \notin X}
    <2> SUFFICES ASSUME Bad # {} PROVE FALSE
      OBVIOUS
    <2>1. PICK i \in Bad : \A k \in Bad : i <= k
      <3>1. Bad \in SUBSET Nat
        BY <1>1
      <3> HIDE DEF Bad
      <3> QED
        BY <3>1, Smallest
    <2>2. i \in 1..N
      BY <1>1, <1>2, <1>10
    <2>3. L[i - 1] \in X
      BY <1>1, <2>1, <2>2
    <2> QED
      BY <1>3, <1>10, <2>2, <2>3
  <1> QED
    BY <1>0, <1>10, <1>11 DEF s, N, X, base

(* The buckets of the newest copies are finitely many.                     *)
LEMMA BucketsAreFinite ==
  ASSUME NEW copies \in SUBSET Times, NEW rule \in Rules, NEW S \in SUBSET copies
  PROVE  LET B == {Calendar[rule][u] : u \in S}
         IN  IsFiniteSet(B) /\ Cardinality(B) \in Nat
  <1> DEFINE B == {Calendar[rule][u] : u \in S}
             f == [u \in S |-> Calendar[rule][u]]
  <1>1. IsFiniteSet(S)
    BY CatalogBounds, FS_Subset
  <1>2. f \in Surjection(S, B)
    BY DEF Surjection
  <1> HIDE DEF f, B
  <1>3. IsFiniteSet(B)
    BY <1>1, <1>2, FS_Surjection
  <1> QED
    BY <1>3, FS_CardinalityType DEF B

(* addPeriodic: the newest copy of each of the newest `count` buckets.     *)
LEMMA PeriodicKeeps ==
  ASSUME NEW copies \in SUBSET Times, NEW rule \in Rules, NEW count \in Nat
  PROVE  AddPeriodic(copies, rule, count) =
           {t \in copies : /\ Calendar[rule][t] \notin BucketsNewer(copies, rule, t)
                           /\ Cardinality(BucketsNewer(copies, rule, t)) < count}
  <1> DEFINE s == NewestFirst(copies)
             N == Cardinality(copies)
             L == Loop(copies, rule, count)
             C == Calendar[rule]
             B(i) == {C[s[j]] : j \in 1..i}
             Good(t) == /\ C[t] \notin BucketsNewer(copies, rule, t)
                        /\ Cardinality(BucketsNewer(copies, rule, t)) < count
             Fits(i) == /\ L[i].keep = {t \in {s[j] : j \in 1..i} : Good(t)}
                        /\ L[i].seen \subseteq B(i)
                        /\ Cardinality(L[i].seen) < count => L[i].seen = B(i)
  <1>1. /\ N \in Nat /\ s \in [1..N -> copies]
        /\ \A t \in copies : \E i \in 1..N : t = s[i]
        /\ \A i \in 1..N : Newer(copies, s[i]) = {s[j] : j \in 1..(i - 1)}
    BY SortedCopies
  <1>2. /\ \A i \in 0..N : L[i] \in [seen : SUBSET Nat, keep : SUBSET copies]
        /\ L[0] = [seen |-> {}, keep |-> {}]
        /\ \A i \in 1..N : L[i] = Visit(L[i - 1], s[i], rule, count)
    BY LoopRuns
  <1>3. AddPeriodic(copies, rule, count) = L[N].keep
    BY DEF AddPeriodic
  <1> HIDE DEF s, N, L
  <1>4. \A i \in 0..N : IsFiniteSet(B(i)) /\ Cardinality(B(i)) \in Nat
    <2> SUFFICES ASSUME NEW i \in 0..N PROVE IsFiniteSet(B(i)) /\ Cardinality(B(i)) \in Nat
      OBVIOUS
    <2> DEFINE S == {s[j] : j \in 1..i}
    <2>1. S \in SUBSET copies
      BY <1>1
    <2>2. B(i) = {Calendar[rule][u] : u \in S}
      OBVIOUS
    <2> HIDE DEF S, B
    <2> QED
      BY <2>1, <2>2, BucketsAreFinite
  <1>5. \A i \in 1..N : BucketsNewer(copies, rule, s[i]) = B(i - 1)
    BY <1>1 DEF BucketsNewer
  <1>6. \A i \in 1..N : /\ i - 1 \in 0..N /\ i \in 0..N /\ s[i] \in copies
                       /\ 1..i = (1..(i - 1)) \cup {i}
    BY <1>1
  <1>7. \A i \in 1..N : B(i) = B(i - 1) \cup {C[s[i]]}
    BY <1>6
  <1>8. ASSUME NEW i \in 1..N, Fits(i - 1) PROVE Fits(i)
    <2> DEFINE acc == L[i - 1]
               t == s[i]
    <2>1. /\ acc.keep = {u \in {s[j] : j \in 1..(i - 1)} : Good(u)}
          /\ acc.seen \subseteq B(i - 1)
          /\ Cardinality(acc.seen) < count => acc.seen = B(i - 1)
      BY <1>8
    <2>2. L[i] = Visit(acc, t, rule, count)
      BY <1>2
    <2>3. Good(t) <=> C[t] \notin B(i - 1) /\ Cardinality(B(i - 1)) < count
      BY <1>5
    <2>4. {u \in {s[j] : j \in 1..i} : Good(u)} =
            acc.keep \cup (IF Good(t) THEN {t} ELSE {})
      <3> HIDE DEF Good, acc
      <3> QED
        BY <1>6, <2>1
    <2>5. Cardinality(acc.seen) \in Nat /\ Cardinality(acc.seen) <= Cardinality(B(i - 1))
      BY <1>4, <1>6, <2>1, FS_Subset, FS_CardinalityType
    <2> HIDE DEF Good, B
    <2>6. CASE C[t] \in acc.seen
      <3>1. L[i] = acc
        BY <2>2, <2>6 DEF Visit
      <3>2. ~Good(t) /\ B(i) = B(i - 1)
        BY <1>7, <2>1, <2>3, <2>6
      <3> QED
        BY <2>1, <2>4, <3>1, <3>2
    <2>7. CASE Cardinality(acc.seen) >= count
      <3>1. L[i] = acc
        BY <2>2, <2>7 DEF Visit
      <3>2. ~Good(t) /\ B(i - 1) \subseteq B(i)
        BY <1>4, <1>6, <1>7, <2>3, <2>5, <2>7
      <3>3. ~(Cardinality(acc.seen) < count)
        BY <2>5, <2>7
      <3> QED
        BY <2>1, <2>4, <3>1, <3>2, <3>3
    <2>8. CASE C[t] \notin acc.seen /\ ~(Cardinality(acc.seen) >= count)
      <3>1. L[i] = [seen |-> acc.seen \cup {C[t]}, keep |-> acc.keep \cup {t}]
        BY <2>2, <2>8 DEF Visit
      <3>2. acc.seen = B(i - 1) /\ Cardinality(acc.seen) < count
        BY <2>1, <2>5, <2>8
      <3>3. Good(t)
        BY <2>3, <2>8, <3>2
      <3>4. L[i].keep = acc.keep \cup {t} /\ L[i].seen = B(i)
        BY <1>7, <3>1, <3>2
      <3> QED
        BY <2>4, <3>3, <3>4
    <2> QED
      BY <2>6, <2>7, <2>8
  <1>9. Fits(0)
    <2>1. 1..0 = {} /\ L[0].seen = {} /\ L[0].keep = {}
      BY <1>2
    <2> QED
      BY <2>1
  <1> HIDE DEF Fits
  <1>10. \A i \in 0..N : Fits(i)
    <2> DEFINE Bad == {i \in 0..N : ~Fits(i)}
    <2> SUFFICES ASSUME Bad # {} PROVE FALSE
      OBVIOUS
    <2>1. PICK i \in Bad : \A k \in Bad : i <= k
      <3>1. Bad \in SUBSET Nat
        BY <1>1
      <3> HIDE DEF Bad
      <3> QED
        BY <3>1, Smallest
    <2>2. i \in 1..N
      BY <1>1, <1>9
    <2>3. Fits(i - 1)
      BY <1>1, <2>1, <2>2
    <2> QED
      BY <1>8, <2>2, <2>3
  <1>11. L[N].keep = {t \in {s[j] : j \in 1..N} : Good(t)}
    BY <1>1, <1>10 DEF Fits
  <1>12. {s[j] : j \in 1..N} = copies
    BY <1>1
  <1> QED
    BY <1>3, <1>11, <1>12 DEF Good

(***************************************************************************)
(* The single pass over the sorted copies (resolveRetention of             *)
(* retention.ts) keeps what grandfather-father-son retention promises over *)
(* those copies and the copies it is told to keep, and nothing else: for   *)
(* every set of copies, calendar, policy and clock.                        *)
(***************************************************************************)
THEOREM KeptIsPromised ==
  ASSUME NEW copies \in SUBSET Times, NEW p, IsPolicy(p), NEW time \in Nat, NEW alwaysKeep
  PROVE  Kept(copies, p, time, alwaysKeep) =
           Promised(copies, p, time) \cup (alwaysKeep \cap copies)
  <1> DEFINE Good(r, t) == /\ Calendar[r][t] \notin BucketsNewer(copies, r, t)
                           /\ Cardinality(BucketsNewer(copies, r, t)) < p.every[r]
  <1>1. p.last \in Nat /\ \A r \in Rules : p.every[r] \in Nat
    BY DEF IsPolicy
  <1>2. KeepLast(copies, p.last) = {t \in copies : Cardinality(Newer(copies, t)) < p.last}
    BY <1>1, KeepLastCounts
  <1>3. \A r \in Rules : AddPeriodic(copies, r, p.every[r]) = {t \in copies : Good(r, t)}
    BY <1>1, PeriodicKeeps
  <1>4. Promised(copies, p, time) =
          {t \in copies : \/ Cardinality(Newer(copies, t)) < p.last
                          \/ \E r \in Rules : Good(r, t)
                          \/ time - t < p.minAge}
    BY DEF Promised
  <1>5. TooYoung(copies, p, time) = {t \in copies : time - t < p.minAge}
    BY DEF TooYoung
  <1> HIDE DEF Good
  <1>6. UNION {AddPeriodic(copies, r, p.every[r]) : r \in Rules}
          = {t \in copies : \E r \in Rules : Good(r, t)}
    BY <1>3
  <1> QED
    BY <1>2, <1>4, <1>5, <1>6 DEF Kept

(* A copy promised among many is promised among fewer, and earlier.        *)
LEMMA PromiseGrowsWeaker ==
  ASSUME NEW T \in SUBSET Times, NEW S \in SUBSET T, NEW p, IsPolicy(p),
         NEW early \in Nat, NEW late \in Nat, early <= late,
         NEW t \in S, t \in Promised(T, p, late)
  PROVE  t \in Promised(S, p, early)
  <1>1. /\ p.last \in Nat /\ p.minAge \in Nat /\ t \in Nat
        /\ \A r \in Rules : p.every[r] \in Nat
    BY TimesAreNumbers DEF IsPolicy
  <1>2. Newer(S, t) \subseteq Newer(T, t) /\ Newer(T, t) \in SUBSET T /\ Newer(S, t) \in SUBSET T
    BY DEF Newer
  <1>3. /\ IsFiniteSet(Newer(T, t)) /\ Cardinality(Newer(T, t)) \in Nat
        /\ Cardinality(Newer(S, t)) \in Nat
        /\ Cardinality(Newer(S, t)) <= Cardinality(Newer(T, t))
    BY <1>2, CatalogBounds, FS_Subset, FS_CardinalityType
  <1>4. ASSUME NEW r \in Rules
        PROVE  /\ BucketsNewer(S, r, t) \subseteq BucketsNewer(T, r, t)
               /\ Cardinality(BucketsNewer(S, r, t)) \in Nat
               /\ Cardinality(BucketsNewer(T, r, t)) \in Nat
               /\ Cardinality(BucketsNewer(S, r, t)) <= Cardinality(BucketsNewer(T, r, t))
    <2>1. BucketsNewer(S, r, t) \subseteq BucketsNewer(T, r, t)
      BY <1>2 DEF BucketsNewer
    <2>2. IsFiniteSet(BucketsNewer(T, r, t)) /\ Cardinality(BucketsNewer(T, r, t)) \in Nat
      BY <1>2, BucketsAreFinite DEF BucketsNewer
    <2> QED
      BY <2>1, <2>2, FS_Subset, FS_CardinalityType
  <1>5. CASE Cardinality(Newer(T, t)) < p.last
    BY <1>1, <1>3, <1>5 DEF Promised
  <1>6. ASSUME NEW r \in Rules, Calendar[r][t] \notin BucketsNewer(T, r, t),
               Cardinality(BucketsNewer(T, r, t)) < p.every[r]
        PROVE  t \in Promised(S, p, early)
    <2>1. Calendar[r][t] \notin BucketsNewer(S, r, t)
          /\ Cardinality(BucketsNewer(S, r, t)) < p.every[r]
      BY <1>1, <1>4, <1>6
    <2> QED
      BY <2>1 DEF Promised
  <1>7. CASE late - t < p.minAge
    <2>1. early - t < p.minAge
      BY <1>1, <1>7
    <2> QED
      BY <2>1 DEF Promised
  <1> QED
    BY <1>5, <1>6, <1>7 DEF Promised

-----------------------------------------------------------------------------
(* What a step does to each variable, and which action it is.              *)

(* Disturbances are only ever counted up, one at a time.                   *)
LEMMA SpentMoves ==
  ASSUME TypeOK, Next
  PROVE  \/ spent' = spent
         \/ \E k \in Kinds : spent[k] < Allowed[k] /\ spent' = [spent EXCEPT ![k] = @ + 1]
  BY DEF Next, Backup, Verify, Retention, Delete, Rebuild, Upload, WriteManifest, Persist,
    PersistThrows, Succeed, Chain, Discard, Judge, Record, StartRetention, RefuseUnconfigured,
    ListArtifacts, RefuseIncompleteView, LoadManifests, Resolve, PruneObjects, PruneRow,
    ApiDelete, ApiDeleteObjects, ApiDeleteRow, Scan, SkipExisting, Import, ImportThrows,
    RebuildDone, EditPolicy, LoseCatalog, Crash, Boot, DeleteObjectsThrows, Fault, Spend, Kinds

LEMMA NeverBefore ==
  ASSUME TypeOK, [Next]_vars, NEW K \in SUBSET Kinds, Never(K)'
  PROVE  Never(K) /\ \A k \in K : ~Spend(k)
  <1>1. spent \in [Kinds -> Nat]
    BY DEF TypeOK
  <1>2. \A k \in K : spent'[k] = 0
    BY DEF Never
  <1>3. \A k \in K : spent[k] = 0
    <2>1. CASE Next
      <3>1. CASE spent' = spent
        BY <1>2, <3>1
      <3>2. CASE \E k \in Kinds : spent' = [spent EXCEPT ![k] = @ + 1]
        BY <1>1, <1>2, <3>2
      <3> QED
        BY <2>1, <3>1, <3>2, SpentMoves
    <2>2. CASE UNCHANGED vars
      BY <1>2, <2>2 DEF vars
    <2> QED
      BY <2>1, <2>2
  <1>4. ASSUME NEW k \in K, Spend(k) PROVE FALSE
    BY <1>1, <1>2, <1>3, <1>4 DEF Spend
  <1> QED
    BY <1>3, <1>4 DEF Never

(* The bucket: uploads, manifests and deletions.                           *)
LEMMA BucketMoves ==
  ASSUME TypeOK, ClockInv, Next, NEW t \in Times
  PROVE  \/ objs'[t] = objs[t]
         \/ Upload /\ t = now + 1 /\ objs'[t] = {"data"}
         \/ WriteManifest /\ t = cur /\ objs'[t] = objs[t] \cup {"manifest"}
         \/ /\ \/ Discard /\ t = cur
               \/ PruneObjects /\ t = Latest(todo)
               \/ ApiDeleteObjects /\ t = api.t
            /\ objs'[t] \subseteq objs[t]
            /\ objs'[t] = {} \/ Spend("fault")
  <1>1. objs \in [Times -> SUBSET Objects]
    BY DEF TypeOK
  <1>2. \A u : DeleteObjects(u) => objs'[t] = objs[t] \/ (t = u /\ objs'[t] = {})
    BY <1>1 DEF DeleteObjects
  <1>3. \A u : DeleteObjectsThrows(u) =>
                 /\ Spend("fault")
                 /\ objs'[t] = objs[t] \/ (t = u /\ objs'[t] \subseteq objs[t])
    BY <1>1 DEF DeleteObjectsThrows, Fault
  <1>4. CASE Upload
    BY <1>1, <1>4 DEF Upload
  <1>5. CASE WriteManifest
    BY <1>1, <1>5 DEF WriteManifest
  <1>6. CASE Discard
    BY <1>2, <1>3, <1>6 DEF Discard
  <1>7. CASE PruneObjects
    BY <1>2, <1>3, <1>7 DEF PruneObjects
  <1>8. CASE ApiDeleteObjects
    BY <1>2, <1>3, <1>8 DEF ApiDeleteObjects
  <1>9. Upload \/ WriteManifest \/ Discard \/ PruneObjects \/ ApiDeleteObjects \/ objs' = objs
    BY DEF Next, Backup, Verify, Retention, Delete, Rebuild, Persist, PersistThrows, Succeed,
      Chain, Judge, Record, StartRetention, RefuseUnconfigured, ListArtifacts,
      RefuseIncompleteView, LoadManifests, Resolve, PruneRow, ApiDelete, ApiDeleteRow, Scan,
      SkipExisting, Import, ImportThrows, RebuildDone, EditPolicy, LoseCatalog, Crash, Boot,
      bucket
  <1> QED
    BY <1>4, <1>5, <1>6, <1>7, <1>8, <1>9

(* The artifact rows: inserts, verdicts and removals.                      *)
LEMMA RowMoves ==
  ASSUME TypeOK, ClockInv, Next, NEW t \in Times
  PROVE  \/ row'[t] = row[t] /\ rowAt'[t] = rowAt[t]
         \/ /\ (Persist /\ t = cur) \/ (Import /\ t = NextImport)
            /\ row[t] = "none" /\ row'[t] = "unproven" /\ rowAt'[t] = LaterThanAll
         \/ /\ Record /\ t = cur
            /\ row[t] # "none" /\ verdict # "INCONCLUSIVE"
            /\ row'[t] = verdict /\ rowAt'[t] = rowAt[t]
         \/ /\ LoseCatalog \/ (PruneRow /\ t = cur) \/ (ApiDeleteRow /\ t = api.t)
            /\ row'[t] = "none" /\ rowAt'[t] = 0
  <1>1. row \in [Times -> States] /\ rowAt \in [Times -> Nat]
    BY DEF TypeOK
  <1>2. \A u : InsertRow(u) => IF t = u THEN row'[t] = "unproven" /\ rowAt'[t] = LaterThanAll
                                        ELSE row'[t] = row[t] /\ rowAt'[t] = rowAt[t]
    BY <1>1 DEF InsertRow
  <1>3. \A u : RemoveRow(u) => IF t = u THEN row'[t] = "none" /\ rowAt'[t] = 0
                                        ELSE row'[t] = row[t] /\ rowAt'[t] = rowAt[t]
    BY <1>1 DEF RemoveRow
  <1>4. CASE Persist
    BY <1>2, <1>4 DEF Persist
  <1>5. CASE Import
    BY <1>2, <1>5 DEF Import
  <1>6. CASE Record
    BY <1>1, <1>6 DEF Record, Hands, bucket
  <1>7. CASE LoseCatalog
    BY <1>7 DEF LoseCatalog
  <1>8. CASE PruneRow
    BY <1>3, <1>8 DEF PruneRow
  <1>9. CASE ApiDeleteRow
    BY <1>3, <1>9 DEF ApiDeleteRow
  <1>10. \/ Persist \/ Import \/ Record \/ LoseCatalog \/ PruneRow \/ ApiDeleteRow
         \/ row' = row /\ rowAt' = rowAt
    BY DEF Next, Backup, Verify, Retention, Delete, Rebuild, Upload, WriteManifest,
      PersistThrows, Succeed, Chain, Discard, Judge, StartRetention, RefuseUnconfigured,
      ListArtifacts, RefuseIncompleteView, LoadManifests, Resolve, PruneObjects, ApiDelete,
      ApiDeleteObjects, Scan, SkipExisting, ImportThrows, RebuildDone, EditPolicy, Crash, Boot,
      rows
  <1> QED
    BY <1>4, <1>5, <1>6, <1>7, <1>8, <1>9, <1>10

(* The rebuild: scan, drop what has a row, import one by one, end.         *)
LEMMA RebuildMoves ==
  ASSUME TypeOK, Next
  PROVE  \/ reb' = reb
         \/ reb' = RebIdle
         \/ LET found == {t \in Times : "manifest" \in objs[t]}
            IN  Scan /\ reb' = [pc |-> "scanned", seen |-> found, todo |-> found]
         \/ /\ SkipExisting /\ reb.pc = "scanned"
            /\ reb' = [pc |-> "import", seen |-> reb.seen, todo |-> reb.todo \ Rowed]
         \/ /\ Import /\ reb.pc = "import" /\ reb.todo # {}
            /\ reb' = [pc |-> "import", seen |-> reb.seen, todo |-> reb.todo \ {NextImport}]
  <1>1. reb = [pc |-> reb.pc, seen |-> reb.seen, todo |-> reb.todo]
    BY DEF TypeOK
  <1>2. CASE Scan
    BY <1>2 DEF Scan
  <1>3. CASE SkipExisting
    BY <1>1, <1>3 DEF SkipExisting
  <1>4. CASE Import
    BY <1>1, <1>4 DEF Import
  <1>5. Scan \/ SkipExisting \/ Import \/ reb' = reb \/ reb' = RebIdle
    BY DEF Next, Backup, Verify, Retention, Delete, Rebuild, Upload, WriteManifest, Persist,
      PersistThrows, Succeed, Chain, Discard, Judge, Record, StartRetention,
      RefuseUnconfigured, ListArtifacts, RefuseIncompleteView, LoadManifests, Resolve,
      PruneObjects, PruneRow, ApiDelete, ApiDeleteObjects, ApiDeleteRow, ImportThrows,
      RebuildDone, EditPolicy, LoseCatalog, Crash, Boot, Hands
  <1> QED
    BY <1>2, <1>3, <1>4, <1>5

(* The job rows.                                                           *)
LEMMA JobMoves ==
  ASSUME TypeOK, Next, NEW t \in Times
  PROVE  \/ job'[t] = job[t]
         \/ Upload /\ t = now + 1 /\ job'[t] = "linked"
         \/ Import /\ t = NextImport /\ job[t] = "none" /\ job'[t] = "loose"
         \/ LoseCatalog /\ job'[t] = "none"
  <1>1. job \in [Times -> {"none", "linked", "loose"}]
    BY DEF TypeOK
  <1>2. CASE Upload
    BY <1>1, <1>2 DEF Upload
  <1>3. CASE Import
    BY <1>1, <1>3 DEF Import
  <1>4. CASE LoseCatalog
    BY <1>1, <1>4 DEF LoseCatalog
  <1>5. Upload \/ Import \/ LoseCatalog \/ job' = job
    BY DEF Next, Backup, Verify, Retention, Delete, Rebuild, WriteManifest, Persist,
      PersistThrows, Succeed, Chain, Discard, Judge, Record, StartRetention,
      RefuseUnconfigured, ListArtifacts, RefuseIncompleteView, LoadManifests, Resolve,
      PruneObjects, PruneRow, ApiDelete, ApiDeleteObjects, ApiDeleteRow, Scan, SkipExisting,
      ImportThrows, RebuildDone, EditPolicy, Crash, Boot, rows
  <1> QED
    BY <1>2, <1>3, <1>4, <1>5

-----------------------------------------------------------------------------
(* The invariant, part by part.                                            *)

LEMMA CatalogInit == Init => IInv
  <1> SUFFICES ASSUME Init PROVE IInv
    OBVIOUS
  <1>0. Times \subseteq Nat /\ \A t \in Times : t # 0
    BY TimesAreNumbers
  <1>1. TypeOK
    BY <1>0, CatalogBounds, TimesAreNumbers
    DEF Init, TypeOK, WorkerPcs, ApiIdle, RebIdle, Kinds, Objects, States
  <1>2. ClockInv /\ HandInv /\ RebuildInv
    BY <1>0 DEF Init, ClockInv, InLanding, HandInv, RebuildInv, ApiIdle, RebIdle
  <1>3. MatchInv /\ WholeInv /\ CycleInv
    BY <1>0 DEF Init, MatchInv, WholeInv, CycleInv, ApiIdle, RebIdle, Rowed
  <1>4. PromiseInv
    BY DEF Init, PromiseInv, Wanted, Promised, Rowed
  <1> QED
    BY <1>1, <1>2, <1>3, <1>4 DEF IInv

(* One artifact is in hand: the backup's own, or the first to delete.      *)
LEMMA InHand ==
  ASSUME TypeOK, ClockInv
  PROVE  /\ now \in Nat /\ \A t \in Times : t \in Nat /\ t >= 1
         /\ pc \in {"manifest", "persist", "discard"} => cur = now /\ cur \in Times
         /\ pc = "record" => cur \in Times
         /\ pc = "row" => cur \in todo /\ cur \in Times
         /\ pc = "objects" => Latest(todo) \in todo /\ Latest(todo) \in Times
         /\ reb.todo # {} => NextImport \in reb.todo /\ NextImport \in Times
         /\ api.pc # "idle" => api.t \in Times
  <1>1. todo \in SUBSET Times /\ reb.todo \in SUBSET Times /\ now \in Times \cup {0}
    BY DEF TypeOK
  <1>2. now \in Nat /\ \A t \in Times : t \in Nat /\ t >= 1
    BY <1>1, TimesAreNumbers
  <1>3. pc = "objects" => Latest(todo) \in todo
    BY <1>1, LatestIsLast DEF ClockInv
  <1>4. reb.todo # {} => NextImport \in reb.todo
    BY <1>1, NextImportIsFirst
  <1> QED
    BY <1>1, <1>2, <1>3, <1>4 DEF ClockInv

LEMMA TypeStep == IInv /\ Next => TypeOK'
  <1> SUFFICES ASSUME IInv, Next PROVE TypeOK'
    OBVIOUS
  <1>0. TypeOK /\ ClockInv
    BY DEF IInv
  <1>1. objs' \in [Times -> SUBSET Objects]
    <2>1. objs \in [Times -> SUBSET Objects]
      BY <1>0 DEF TypeOK
    <2>2. \A u : DeleteObjects(u) \/ DeleteObjectsThrows(u) => objs' \in [Times -> SUBSET Objects]
      BY <2>1 DEF DeleteObjects, DeleteObjectsThrows
    <2>3. Upload \/ WriteManifest => objs' \in [Times -> SUBSET Objects]
      BY <2>1 DEF Upload, WriteManifest, Objects
    <2> QED
      BY <2>1, <2>2, <2>3 DEF Next, Backup, Verify, Retention, Delete, Rebuild, Persist,
        PersistThrows, Succeed, Chain, Discard, Judge, Record, StartRetention,
        RefuseUnconfigured, ListArtifacts, RefuseIncompleteView, LoadManifests, Resolve,
        PruneObjects, PruneRow, ApiDelete, ApiDeleteObjects, ApiDeleteRow, Scan, SkipExisting,
        Import, ImportThrows, RebuildDone, EditPolicy, LoseCatalog, Crash, Boot, bucket
  <1>2. row' \in [Times -> States] /\ rowAt' \in [Times -> Nat]
    <2>1. /\ row \in [Times -> States] /\ rowAt \in [Times -> Nat]
          /\ verdict \in States \cup {"INCONCLUSIVE"}
      BY <1>0 DEF TypeOK, States
    <2>2. \A u : InsertRow(u) \/ RemoveRow(u) =>
             row' \in [Times -> States] /\ rowAt' \in [Times -> Nat]
      <3>1. Times = {} \/ LaterThanAll \in Nat
        BY <1>0, CreatedAtIsNumber
      <3>2. Times = {} => \A u : InsertRow(u) => rowAt' \in [Times -> Nat]
        BY <2>1 DEF InsertRow
      <3> QED
        BY <2>1, <3>1, <3>2 DEF InsertRow, RemoveRow, States
    <2>3. Record \/ LoseCatalog => row' \in [Times -> States] /\ rowAt' \in [Times -> Nat]
      BY <2>1 DEF Record, LoseCatalog, States, rows
    <2> QED
      BY <2>1, <2>2, <2>3 DEF Next, Backup, Verify, Retention, Delete, Rebuild, Upload,
        WriteManifest, Persist, PersistThrows, Succeed, Chain, Discard, Judge, StartRetention,
        RefuseUnconfigured, ListArtifacts, RefuseIncompleteView, LoadManifests, Resolve,
        PruneObjects, PruneRow, ApiDelete, ApiDeleteObjects, ApiDeleteRow, Scan, SkipExisting,
        Import, ImportThrows, RebuildDone, EditPolicy, Crash, Boot, rows
  <1>3. spent' \in [Kinds -> Nat] /\ \A k \in Kinds : spent'[k] <= Allowed[k]
    <2>1. spent \in [Kinds -> Nat] /\ \A k \in Kinds : spent[k] <= Allowed[k]
      BY <1>0 DEF TypeOK
    <2>2. CASE spent' = spent
      BY <2>1, <2>2
    <2>3. ASSUME NEW k \in Kinds, spent[k] < Allowed[k], spent' = [spent EXCEPT ![k] = @ + 1]
          PROVE  spent' \in [Kinds -> Nat] /\ \A l \in Kinds : spent'[l] <= Allowed[l]
      <3>1. Allowed[k] \in Nat /\ spent[k] \in Nat
        BY <2>1, CatalogBounds
      <3>2. spent[k] + 1 \in Nat /\ spent[k] + 1 <= Allowed[k]
        BY <2>3, <3>1
      <3> QED
        BY <2>1, <2>3, <3>2
    <2> QED
      BY <1>0, <2>2, <2>3, SpentMoves
  <1> USE DEF Next, Backup, Verify, Retention, Delete, Rebuild, Upload, WriteManifest, Persist,
        PersistThrows, Succeed, Chain, Discard, Judge, Record, StartRetention, RefuseUnconfigured,
        ListArtifacts, RefuseIncompleteView, LoadManifests, Resolve, NextDoomed, PruneObjects,
        PruneRow, ApiDelete, ApiDeleteObjects, ApiDeleteRow, Scan, SkipExisting, Import,
        ImportThrows, RebuildDone, EditPolicy, LoseCatalog, Crash, Boot, Goto, Done, Forget, Hands,
        bucket, rows, worker, ApiIdle, RebIdle
  <1>4. now' \in Times \cup {0} /\ policy' \in Policies
    BY <1>0 DEF TypeOK
  <1>5. job' \in [Times -> {"none", "linked", "loose"}]
    BY <1>0 DEF TypeOK
  <1>6. landed' \in SUBSET Times
    BY <1>0, InHand DEF TypeOK
  <1>7. prunes' \in 0..Cardinality(Times)
    <2>1. /\ prunes \in Nat /\ prunes <= Cardinality(Times) /\ Cardinality(Times) \in Nat
          /\ pc = "chain" => prunes + 1 <= Cardinality(Times)
      BY <1>0, TimesAreNumbers DEF TypeOK, ClockInv, InLanding
    <2>2. \/ prunes' = prunes \/ prunes' = 0
          \/ pc = "chain" /\ prunes' = prunes + 1
          \/ prunes > 0 /\ prunes' = prunes - 1
      BY <2>1
    <2> HIDE DEF Next
    <2> QED
      BY <2>1, <2>2
  <1>8. pc' \in WorkerPcs
    BY <1>0 DEF TypeOK, WorkerPcs
  <1>9. todo' \in SUBSET Times
    BY <1>0 DEF TypeOK, Rowed
  <1>10. cur' \in Times \cup {0}
    BY <1>0, InHand DEF TypeOK, Rowed
  <1>11. /\ verdict' \in {"VERIFIED", "unproven", "INCONCLUSIVE"}
         /\ asked' \in Policies \cup {NoPolicy}
    BY <1>0 DEF TypeOK
  <1>12. api' \in [pc : {"idle", "objects", "row"}, t : Times \cup {0}]
    BY <1>0 DEF TypeOK
  <1>13. reb' \in [pc : {"idle", "scanned", "import"}, seen : SUBSET Times, todo : SUBSET Times]
    <2> HIDE DEF Next
    <2> QED
      BY <1>0, RebuildMoves DEF TypeOK
  <1> HIDE DEF Next
  <1> QED
    BY <1>1, <1>2, <1>3, <1>4, <1>5, <1>6, <1>7, <1>8, <1>9, <1>10, <1>11, <1>12, <1>13
    DEF TypeOK

LEMMA ClockStep == IInv /\ Next => ClockInv'
  <1> SUFFICES ASSUME IInv, Next PROVE ClockInv'
    OBVIOUS
  <1>0. TypeOK /\ ClockInv /\ TypeOK'
    BY TypeStep DEF IInv
  <1>1. now \in Nat /\ now' \in Nat /\ now <= now'
    <2>1. now' = now \/ now' = now + 1
      BY DEF Next, Backup, Verify, Retention, Delete, Rebuild, Upload, WriteManifest, Persist,
        PersistThrows, Succeed, Chain, Discard, Judge, Record, StartRetention, RefuseUnconfigured,
        ListArtifacts, RefuseIncompleteView, LoadManifests, Resolve, PruneObjects,
        PruneRow, ApiDelete, ApiDeleteObjects, ApiDeleteRow, Scan, SkipExisting, Import,
        ImportThrows, RebuildDone, EditPolicy, LoseCatalog, Crash, Boot, Hands
    <2> QED
      BY <1>0, <2>1, InHand
  <1>2. ASSUME NEW t \in Times, t > now' PROVE objs'[t] = {} /\ row'[t] = "none" /\ job'[t] = "none"
    <2>1. t > now /\ objs[t] = {} /\ row[t] = "none" /\ job[t] = "none"
      BY <1>0, <1>1, <1>2, InHand DEF ClockInv
    <2>2. ~(Upload /\ t = now + 1)
      BY <1>1, <1>2 DEF Upload
    <2>3. ~(Persist /\ t = cur) /\ ~(WriteManifest /\ t = cur)
      BY <1>0, <1>1, <2>1, InHand DEF Persist, WriteManifest, Goto
    <2>4. ~(Import /\ t = NextImport)
      <3>1. Import => NextImport <= now
        BY <1>0, InHand DEF Import, ClockInv
      <3> QED
        BY <1>1, <2>1, <3>1, InHand, <1>0
    <2>5. objs'[t] = {}
      BY <1>0, <2>1, <2>2, <2>3, BucketMoves
    <2>6. row'[t] = "none"
      BY <1>0, <2>1, <2>3, <2>4, RowMoves
    <2>7. job'[t] = "none"
      BY <1>0, <2>1, <2>2, <2>4, JobMoves
    <2> QED
      BY <2>5, <2>6, <2>7
  <1>3. \A t \in Rowed : t <= now
    BY <1>0, InHand DEF ClockInv, Rowed
  <1>4. \A t \in Times : "manifest" \in objs[t] => t <= now
    BY <1>0, InHand DEF ClockInv
  <1> USE DEF Next, Backup, Verify, Retention, Delete, Rebuild, Upload, WriteManifest, Persist,
        PersistThrows, Succeed, Chain, Discard, Judge, Record, StartRetention, RefuseUnconfigured,
        ListArtifacts, RefuseIncompleteView, LoadManifests, Resolve, NextDoomed, PruneObjects,
        PruneRow, ApiDelete, ApiDeleteObjects, ApiDeleteRow, Scan, SkipExisting, Import,
        ImportThrows, RebuildDone, EditPolicy, LoseCatalog, Crash, Boot, Goto, Done, Forget, Hands,
        bucket, rows, worker, ApiIdle, RebIdle
  <1>5. reb'.todo \subseteq reb'.seen
    <2> HIDE DEF Next
    <2> QED
      BY <1>0, RebuildMoves DEF ClockInv
  <1>6. \A t \in reb'.seen : t <= now'
    <2>1. \A t \in reb'.seen : t <= now
      <3> HIDE DEF Next
      <3> QED
        BY <1>0, <1>4, RebuildMoves DEF ClockInv
    <2> HIDE DEF Next
    <2> QED
      BY <1>0, <1>1, <2>1, TimesAreNumbers DEF TypeOK
  <1>7. api'.pc # "idle" => api'.t \in Times /\ api'.t <= now'
    <2>1. api'.pc # "idle" => api'.t \in Times /\ api'.t <= now
      BY <1>0, <1>3 DEF ClockInv, TypeOK
    <2> HIDE DEF Next
    <2> QED
      BY <1>0, <1>1, <2>1, TimesAreNumbers
  <1>8. todo' \subseteq 1..now'
    <2>1. todo' \subseteq todo \/ todo' \subseteq Rowed
      BY <1>0
    <2>2. todo' \subseteq 1..now
      <3> HIDE DEF Next
      <3>1. Rowed \subseteq 1..now
        BY <1>0, <1>3, InHand DEF Rowed
      <3> QED
        BY <1>0, <2>1, <3>1 DEF ClockInv
    <2> HIDE DEF Next
    <2> QED
      BY <1>1, <2>2
  <1>9. prunes' <= now' /\ (InLanding' => prunes' < now')
    <2>1. /\ prunes \in Nat /\ prunes <= now
          /\ InLanding => prunes + 1 <= now
      BY <1>0, <1>1 DEF ClockInv, TypeOK
    <2>2. \/ prunes' = prunes \/ prunes' = 0
          \/ pc = "chain" /\ pc' = "idle" /\ prunes' = prunes + 1
          \/ prunes > 0 /\ prunes' = prunes - 1
      BY <2>1
    <2>3. InLanding' => now' = now + 1 \/ InLanding
      BY DEF InLanding
    <2>4. prunes' = 0 => prunes' = prunes \/ pc' = "idle" \/ pc = "list" \/ pc' = "list"
      BY <2>1
    <2> HIDE DEF Next
    <2>5. 0 <= now' /\ now + 1 \in Nat
      BY <1>1
    <2> QED
      BY <1>1, <2>1, <2>2, <2>3, <2>4, <2>5 DEF InLanding
  <1>10. pc' \in {"manifest", "persist", "discard"} => cur' = now' /\ cur' \in Times
    BY <1>0 DEF ClockInv
  <1>11. pc' = "record" => cur' \in Times
    BY <1>0 DEF ClockInv, Rowed
  <1>12. pc' = "row" => cur' \in todo'
    BY <1>0, InHand DEF ClockInv
  <1>13. pc' = "objects" => todo' # {}
    BY <1>0, InHand DEF ClockInv
  <1> HIDE DEF Next
  <1> QED
    BY <1>2, <1>5, <1>6, <1>7, <1>8, <1>9, <1>10, <1>11, <1>12, <1>13 DEF ClockInv

(* Whose turn it is: the worker's hand and the deletion's move as their    *)
(* actions say, and one actor at a time.                                   *)
LEMMA HandMoves ==
  ASSUME TypeOK, Next
  PROVE  /\ pc' = "manifest" => Upload \/ (pc = "manifest" /\ cur' = cur)
         /\ pc' = "persist" => WriteManifest \/ (pc = "persist" /\ cur' = cur)
         /\ pc' = "discard" => PersistThrows \/ pc = "discard"
         /\ pc' = "down" => Crash \/ pc = "down"
         /\ pc' = "list" => StartRetention \/ (pc = "list" /\ asked' = asked)
         /\ pc' = "read" => ListArtifacts \/ (pc = "read" /\ todo' = todo)
         /\ pc' \in {"read", "resolve", "objects", "row"} =>
               asked' = asked /\ pc \in {"list", "read", "resolve", "objects", "row"}
         /\ pc' = "resolve" => LoadManifests \/ (pc = "resolve" /\ todo' = todo)
         /\ pc' = "objects" => \/ Resolve
                               \/ PruneRow /\ todo' = todo \ {cur}
                               \/ pc = "objects" /\ todo' = todo
         /\ pc' = "row" => \/ PruneObjects /\ cur' = Latest(todo) /\ todo' = todo
                           \/ pc = "row" /\ cur' = cur /\ todo' = todo
         /\ api'.pc # "idle" => (\E t \in Times : ApiDelete(t) /\ api'.t = t)
                                \/ (api.pc # "idle" /\ api'.t = api.t)
         /\ api'.pc = "row" => ApiDeleteObjects \/ api.pc = "row"
  <1> USE DEF Next, Backup, Verify, Retention, Delete, Rebuild, Upload, WriteManifest, Persist,
        PersistThrows, Succeed, Chain, Discard, Judge, Record, StartRetention, RefuseUnconfigured,
        ListArtifacts, RefuseIncompleteView, LoadManifests, Resolve, NextDoomed, PruneObjects,
        PruneRow, ApiDelete, ApiDeleteObjects, ApiDeleteRow, Scan, SkipExisting, Import,
        ImportThrows, RebuildDone, EditPolicy, LoseCatalog, Crash, Boot, Goto, Done, Forget, Hands,
        bucket, rows, worker, ApiIdle, RebIdle
  <1>1. /\ pc' = "manifest" => Upload \/ (pc = "manifest" /\ cur' = cur)
        /\ pc' = "persist" => WriteManifest \/ (pc = "persist" /\ cur' = cur)
        /\ pc' = "discard" => PersistThrows \/ pc = "discard"
        /\ pc' = "down" => Crash \/ pc = "down"
    OBVIOUS
  <1>7. /\ pc' = "list" => StartRetention \/ (pc = "list" /\ asked' = asked)
        /\ pc' \in {"read", "resolve", "objects", "row"} =>
              asked' = asked /\ pc \in {"list", "read", "resolve", "objects", "row"}
    OBVIOUS
  <1>2. /\ pc' = "read" => ListArtifacts \/ (pc = "read" /\ todo' = todo)
        /\ pc' = "resolve" => LoadManifests \/ (pc = "resolve" /\ todo' = todo)
    OBVIOUS
  <1>3. pc' = "objects" => \/ Resolve
                           \/ PruneRow /\ todo' = todo \ {cur}
                           \/ pc = "objects" /\ todo' = todo
    OBVIOUS
  <1>4. pc' = "row" => \/ PruneObjects /\ cur' = Latest(todo) /\ todo' = todo
                       \/ pc = "row" /\ cur' = cur /\ todo' = todo
    OBVIOUS
  <1>5. api'.pc # "idle" => (\E t \in Times : ApiDelete(t) /\ api'.t = t)
                            \/ (api.pc # "idle" /\ api'.t = api.t)
    BY DEF TypeOK
  <1>6. api'.pc = "row" => ApiDeleteObjects \/ api.pc = "row"
    OBVIOUS
  <1> HIDE DEF Next
  <1> QED
    BY <1>1, <1>2, <1>3, <1>4, <1>5, <1>6, <1>7

LEMMA HandStep == IInv /\ Next => HandInv'
  <1> SUFFICES ASSUME IInv, Next PROVE HandInv'
    OBVIOUS
  <1>0. TypeOK /\ ClockInv /\ HandInv /\ TypeOK' /\ ClockInv'
    BY TypeStep, ClockStep DEF IInv
  <1>1. CASE Upload
    <2>1. /\ pc' = "manifest" /\ cur' = now + 1 /\ api' = api /\ reb' = reb /\ row' = row
          /\ now + 1 \in Times
      BY <1>1 DEF Upload, Goto
    <2>2. now + 1 > now /\ ~(now + 1 <= now)
      BY <1>0, InHand
    <2>3. objs'[now + 1] = {"data"} /\ row'[now + 1] = "none" /\ now + 1 \notin reb.seen
      BY <1>0, <1>1, <2>1, <2>2 DEF ClockInv, Upload, TypeOK
    <2>4. api.pc # "idle" => api.t # now + 1 /\ api.t \in Times
      BY <1>0, <2>2 DEF ClockInv
    <2>5. api.pc = "row" => objs'[api.t] = objs[api.t]
      BY <1>0, <1>1, <2>4 DEF Upload, TypeOK
    <2> QED
      BY <1>0, <2>1, <2>3, <2>4, <2>5 DEF HandInv
  <1>2. CASE ~Upload
    <2>1. ASSUME pc' = "manifest"
          PROVE  /\ row'[cur'] = "none" /\ objs'[cur'] = {"data"} /\ cur' \notin reb'.seen
                 /\ api'.pc # "idle" => api'.t # cur'
      <3>1. /\ pc = "manifest" /\ cur' = cur /\ cur \in Times
            /\ row[cur] = "none" /\ objs[cur] = {"data"} /\ cur \notin reb.seen
            /\ api.pc # "idle" => api.t # cur
        BY <1>0, <1>2, <2>1, HandMoves, InHand DEF HandInv
      <3>2. ~PruneObjects /\ ~PruneRow /\ ~Discard /\ ~WriteManifest /\ ~LoseCatalog /\ ~Persist
        BY <2>1, <3>1 DEF PruneObjects, PruneRow, Discard, WriteManifest, LoseCatalog, Goto,
          Persist
      <3>3. ApiDeleteObjects \/ ApiDeleteRow => api.pc # "idle"
        BY DEF ApiDeleteObjects, ApiDeleteRow
      <3>4. Import => NextImport # cur
        BY <1>0, <3>1, InHand DEF Import, ClockInv
      <3>5. objs'[cur] = {"data"}
        BY <1>0, <1>2, <3>1, <3>2, <3>3, BucketMoves
      <3>6. row'[cur] = "none"
        BY <1>0, <3>1, <3>2, <3>3, <3>4, RowMoves
      <3>7. cur \notin reb'.seen
        BY <1>0, <3>1, RebuildMoves DEF RebIdle
      <3>8. api'.pc # "idle" => api'.t # cur
        <4>1. \A t : ApiDelete(t) => t # cur
          BY <3>1 DEF ApiDelete, Rowed
        <4> QED
          BY <1>0, <3>1, <4>1, HandMoves
      <3> QED
        BY <3>1, <3>5, <3>6, <3>7, <3>8
    <2>2. ASSUME pc' = "row" PROVE objs'[cur'] = {}
      <3>1. CASE PruneObjects
        <4>1. cur' = Latest(todo) /\ Latest(todo) \in Times /\ DeleteObjects(Latest(todo))
          BY <1>0, <2>2, <3>1, InHand DEF PruneObjects, Done, Forget
        <4> QED
          BY <1>0, <4>1 DEF DeleteObjects, TypeOK
      <3>2. CASE ~PruneObjects
        <4>1. pc = "row" /\ cur' = cur /\ cur \in Times /\ objs[cur] = {}
          BY <1>0, <2>2, <3>2, HandMoves, InHand DEF HandInv
        <4>2. ~WriteManifest
          BY <4>1 DEF WriteManifest, Goto
        <4> QED
          BY <1>0, <1>2, <4>1, <4>2, BucketMoves
      <3> QED
        BY <3>1, <3>2
    <2>3. ASSUME api'.pc = "row" PROVE objs'[api'.t] = {}
      <3>1. CASE ApiDeleteObjects
        <4>1. api'.t = api.t /\ api.t \in Times /\ DeleteObjects(api.t)
          BY <1>0, <2>3, <3>1, InHand DEF ApiDeleteObjects, ApiIdle, TypeOK
        <4> QED
          BY <1>0, <4>1 DEF DeleteObjects, TypeOK
      <3>2. CASE ~ApiDeleteObjects
        <4>0. api.pc = "row"
          BY <1>0, <2>3, <3>2, HandMoves
        <4>1. api.pc = "row" /\ api'.t = api.t /\ api.t \in Times /\ objs[api.t] = {}
          <5>1. \A t : ~ApiDelete(t)
            BY <4>0 DEF ApiDelete
          <5> QED
            BY <1>0, <2>3, <4>0, <5>1, HandMoves, InHand DEF HandInv
        <4>2. ~(WriteManifest /\ api.t = cur)
          BY <1>0, <4>1 DEF WriteManifest, Goto, HandInv
        <4> QED
          BY <1>0, <1>2, <4>1, <4>2, BucketMoves
      <3> QED
        BY <3>1, <3>2
    <2> QED
      BY <2>1, <2>2, <2>3 DEF HandInv
  <1> QED
    BY <1>1, <1>2

LEMMA RebuildStep == IInv /\ Next => RebuildInv'
  <1> SUFFICES ASSUME IInv, Next PROVE RebuildInv'
    OBVIOUS
  <1>0. TypeOK /\ ClockInv /\ HandInv /\ RebuildInv
    BY DEF IInv
  <1>1. reb'.pc = "scanned" => reb'.todo = reb'.seen
    BY <1>0, RebuildMoves DEF RebuildInv, RebIdle
  <1>2. ASSUME reb'.pc = "import", NEW t \in reb'.seen, t \notin reb'.todo,
               "manifest" \in objs'[t]
        PROVE  row'[t] # "none"
    <2>0. /\ reb.pc # "idle" /\ reb'.seen = reb.seen /\ t \in reb.seen /\ t \in Times
          /\ \/ reb' = reb \/ (SkipExisting /\ reb'.todo = reb.todo \ Rowed)
             \/ (Import /\ reb'.todo = reb.todo \ {NextImport})
      BY <1>0, <1>2, RebuildMoves DEF RebIdle, TypeOK
    <2>1. ~LoseCatalog
      BY <2>0 DEF LoseCatalog
    <2>2. CASE "manifest" \in objs[t]
      <3>1. ~(PruneRow /\ t = cur) /\ ~(ApiDeleteRow /\ t = api.t)
        BY <1>0, <2>2 DEF PruneRow, ApiDeleteRow, HandInv
      <3>2. row[t] # "none" => row'[t] # "none"
        <4>1. verdict # "none"
          BY <1>0 DEF TypeOK
        <4> QED
          BY <1>0, <2>0, <2>1, <3>1, <4>1, RowMoves
      <3>3. CASE reb.pc = "scanned" /\ reb' # reb
        <4>1. t \in Rowed
          BY <1>0, <1>2, <2>0, <3>3 DEF RebuildInv, Import
        <4> QED
          BY <3>2, <4>1 DEF Rowed
      <3>4. CASE reb.pc = "import" /\ t \notin reb.todo
        BY <1>0, <2>0, <2>2, <3>2, <3>4 DEF RebuildInv
      <3>5. CASE reb.pc = "import" /\ t \in reb.todo
        <4>1. Import /\ t = NextImport
          BY <1>2, <2>0, <3>5 DEF SkipExisting
        <4> QED
          BY <1>0, <2>0, <4>1 DEF Import, InsertRow, TypeOK
      <3> QED
        BY <1>0, <1>2, <2>0, <3>3, <3>4, <3>5 DEF TypeOK
    <2>3. CASE "manifest" \notin objs[t]
      <3>1. (Upload /\ t = now + 1) \/ (WriteManifest /\ t = cur)
        BY <1>0, <1>2, <2>0, <2>3, BucketMoves
      <3>2. ~(Upload /\ t = now + 1)
        <4>1. t <= now /\ now \in Nat
          BY <1>0, <2>0, InHand DEF ClockInv
        <4> QED
          BY <4>1
      <3>3. ~(WriteManifest /\ t = cur)
        BY <1>0, <2>0 DEF WriteManifest, Goto, HandInv
      <3> QED
        BY <3>1, <3>2, <3>3
    <2> QED
      BY <2>2, <2>3
  <1> QED
    BY <1>1, <1>2 DEF RebuildInv

LEMMA MatchStep == IInv /\ Next => MatchInv'
  <1> SUFFICES ASSUME IInv, Next, Undisturbed', Never({"rebuild", "loss"})'
               PROVE  /\ pc' \notin {"discard", "down"} /\ reb'.pc = "idle"
                      /\ pc' \in {"manifest", "persist"} =>
                            row'[cur'] = "none" /\ (api'.pc # "idle" => api'.t # cur')
                      /\ pc' = "persist" => objs'[cur'] = Objects
                      /\ \A t \in Times :
                           \/ row'[t] = "none" /\ objs'[t] = {}
                           \/ row'[t] # "none" /\ objs'[t] = Objects
                           \/ row'[t] # "none" /\ objs'[t] = {} /\ InDeletion(t)'
                           \/ InBackup(t)'
    BY DEF MatchInv, InDeletion, InBackup
  <1>0. TypeOK /\ ClockInv /\ HandInv /\ MatchInv /\ TypeOK' /\ ClockInv'
    BY TypeStep, ClockStep DEF IInv
  <1>1. /\ Undisturbed /\ Never({"rebuild", "loss"})
        /\ ~Spend("crash") /\ ~Spend("fault") /\ ~Spend("rebuild") /\ ~Spend("loss")
    <2>1. {"crash", "fault"} \in SUBSET Kinds /\ {"rebuild", "loss"} \in SUBSET Kinds
      BY DEF Kinds
    <2>2. Never({"crash", "fault"})'
      BY DEF Undisturbed
    <2> QED
      BY <1>0, <2>1, <2>2, NeverBefore DEF Undisturbed
  <1>2. ~Crash /\ ~Scan /\ ~LoseCatalog
    BY <1>1 DEF Crash, Scan, LoseCatalog
  <1>3. /\ pc \notin {"discard", "down"} /\ reb.pc = "idle"
        /\ pc \in {"manifest", "persist"} => row[cur] = "none" /\ (api.pc # "idle" => api.t # cur)
        /\ pc = "persist" => objs[cur] = Objects
    BY <1>0, <1>1 DEF MatchInv
  <1>4. \A t \in Times :
          \/ row[t] = "none" /\ objs[t] = {}
          \/ row[t] # "none" /\ objs[t] = Objects
          \/ row[t] # "none" /\ objs[t] = {} /\ InDeletion(t)
          \/ InBackup(t)
    BY <1>0, <1>1 DEF MatchInv
  <1>5. ~PersistThrows /\ ~Discard /\ ~Import /\ ~SkipExisting
    BY <1>1, <1>3 DEF PersistThrows, Succeed, Chain, Discard, Import, SkipExisting, Goto, Fault
  <1>6. pc' \notin {"discard", "down"} /\ reb'.pc = "idle"
    BY <1>0, <1>2, <1>3, <1>5, HandMoves, RebuildMoves DEF RebIdle
  <1>7. ASSUME pc' \in {"manifest", "persist"}
        PROVE  row'[cur'] = "none" /\ (api'.pc # "idle" => api'.t # cur')
    <2>1. CASE Upload
      <3>1. cur' = now + 1 /\ api' = api /\ row' = row /\ now + 1 \in Times /\ now + 1 > now
        BY <1>0, <2>1, InHand DEF Upload
      <3>2. api.pc # "idle" => api.t # now + 1
        BY <1>0, InHand DEF ClockInv
      <3> QED
        BY <1>0, <3>1, <3>2 DEF ClockInv
    <2>2. CASE ~Upload
      <3>1. pc \in {"manifest", "persist"} /\ cur' = cur /\ cur \in Times
        <4>1. WriteManifest => cur' = cur /\ pc = "manifest"
          BY DEF WriteManifest, Goto
        <4> QED
          BY <1>0, <1>7, <2>2, <4>1, HandMoves, InHand
      <3>2. row[cur] = "none" /\ (api.pc # "idle" => api.t # cur)
        BY <1>3, <3>1
      <3>3. ~Persist
        BY <1>7 DEF Persist, Goto
      <3>4. row'[cur] = "none"
        BY <1>0, <1>5, <3>1, <3>2, <3>3, RowMoves
      <3>5. \A t : ApiDelete(t) => t # cur
        BY <3>2 DEF ApiDelete, Rowed
      <3> QED
        BY <1>0, <3>1, <3>2, <3>4, <3>5, HandMoves
    <2> QED
      BY <2>1, <2>2
  <1>8. ASSUME pc' = "persist" PROVE objs'[cur'] = Objects
    <2>1. CASE WriteManifest
      BY <1>0, <2>1, InHand DEF WriteManifest, Goto, HandInv, TypeOK, Objects
    <2>2. CASE ~WriteManifest
      <3>1. /\ pc = "persist" /\ cur' = cur /\ cur \in Times /\ objs[cur] = Objects
            /\ api.pc # "idle" => api.t # cur
        BY <1>0, <1>3, <1>8, <2>2, HandMoves, InHand
      <3>2. ~Upload /\ ~PruneObjects
        BY <3>1 DEF Upload, PruneObjects, Goto
      <3>3. ~(ApiDeleteObjects /\ api.t = cur)
        BY <3>1 DEF ApiDeleteObjects
      <3> QED
        BY <1>0, <1>5, <2>2, <3>1, <3>2, <3>3, BucketMoves
    <2> QED
      BY <2>1, <2>2
  <1>9. ASSUME NEW t \in Times
        PROVE  \/ row'[t] = "none" /\ objs'[t] = {}
               \/ row'[t] # "none" /\ objs'[t] = Objects
               \/ row'[t] # "none" /\ objs'[t] = {} /\ InDeletion(t)'
               \/ InBackup(t)'
    <2>1. CASE Upload /\ t = now + 1
      BY <2>1 DEF Upload, InBackup, Goto
    <2>2. CASE WriteManifest /\ t = cur
      BY <2>2 DEF WriteManifest, InBackup, Goto
    <2>3. CASE Persist /\ t = cur
      <3>1. objs[t] = Objects /\ objs' = objs /\ row'[t] = "unproven"
        BY <1>0, <1>3, <2>3 DEF Persist, Goto, InsertRow, TypeOK
      <3> QED
        BY <3>1
    <2>4. CASE PruneObjects /\ t = Latest(todo)
      <3>1. /\ objs'[t] = {} /\ row'[t] = row[t] /\ pc' = "row" /\ cur' = t
            /\ ~InBackup(t)
        BY <1>0, <1>1, <2>4
        DEF PruneObjects, DeleteObjects, DeleteObjectsThrows, Fault, InBackup, TypeOK, rows
      <3> QED
        BY <3>1 DEF InDeletion
    <2>5. CASE ApiDeleteObjects /\ t = api.t
      <3>1. /\ objs'[t] = {} /\ row'[t] = row[t] /\ api'.pc = "row" /\ api'.t = t
        BY <1>0, <1>1, <2>5
        DEF ApiDeleteObjects, DeleteObjects, DeleteObjectsThrows, Fault, TypeOK, rows
      <3> QED
        BY <3>1 DEF InDeletion
    <2>6. CASE PruneRow /\ t = cur
      <3>1. objs'[t] = {} /\ row'[t] = "none"
        BY <1>0, <1>1, <2>6 DEF PruneRow, RemoveRow, Fault, HandInv, TypeOK, bucket
      <3> QED
        BY <3>1
    <2>7. CASE ApiDeleteRow /\ t = api.t
      <3>1. objs'[t] = {} /\ row'[t] = "none"
        BY <1>0, <1>1, <2>7 DEF ApiDeleteRow, RemoveRow, Fault, HandInv, TypeOK, bucket
      <3> QED
        BY <3>1
    <2>8. CASE /\ ~(Upload /\ t = now + 1) /\ ~(WriteManifest /\ t = cur)
               /\ ~(Persist /\ t = cur) /\ ~(PruneObjects /\ t = Latest(todo))
               /\ ~(ApiDeleteObjects /\ t = api.t) /\ ~(PruneRow /\ t = cur)
               /\ ~(ApiDeleteRow /\ t = api.t)
      <3>1. objs'[t] = objs[t]
        BY <1>0, <1>5, <2>8, BucketMoves
      <3>2. row'[t] = row[t] \/ (row[t] # "none" /\ row'[t] # "none")
        <4>1. verdict # "none"
          BY <1>0 DEF TypeOK
        <4> QED
          BY <1>0, <1>2, <1>5, <2>8, <4>1, RowMoves
      <3>3. InDeletion(t) => InDeletion(t)'
        <4>1. pc = "row" /\ t = cur => pc' = "row" /\ cur' = cur
          BY <1>2, <1>5, <2>8 DEF Next, Backup, Verify, Retention, Delete, Rebuild, Upload,
            WriteManifest, Persist, Succeed, Chain, Judge, Record, StartRetention,
            RefuseUnconfigured, ListArtifacts, RefuseIncompleteView, LoadManifests, Resolve,
            PruneObjects, ApiDelete, ApiDeleteObjects, ApiDeleteRow, ImportThrows, RebuildDone,
            EditPolicy, Boot, Goto, worker
        <4>2. api.pc = "row" /\ t = api.t => api'.pc = "row" /\ api'.t = api.t
          BY <1>2, <1>5, <2>8 DEF Next, Backup, Verify, Retention, Delete, Rebuild, Upload,
            WriteManifest, Persist, Succeed, Chain, Judge, Record, StartRetention,
            RefuseUnconfigured, ListArtifacts, RefuseIncompleteView, LoadManifests, Resolve,
            PruneObjects, PruneRow, ApiDelete, ApiDeleteObjects, ImportThrows, RebuildDone,
            EditPolicy, Boot, Hands
        <4> QED
          BY <4>1, <4>2 DEF InDeletion
      <3>4. InBackup(t) => InBackup(t)'
        BY <1>2, <1>5, <2>8 DEF InBackup, Next, Backup, Verify, Retention, Delete, Rebuild,
          Upload, WriteManifest, Persist, Succeed, Chain, Judge, Record, StartRetention,
          RefuseUnconfigured, ListArtifacts, RefuseIncompleteView, LoadManifests, Resolve,
          PruneObjects, PruneRow, ApiDelete, ApiDeleteObjects, ApiDeleteRow, ImportThrows,
          RebuildDone, EditPolicy, Boot, Goto, worker
      <3> QED
        BY <1>4, <3>1, <3>2, <3>3, <3>4
    <2> QED
      BY <2>1, <2>2, <2>3, <2>4, <2>5, <2>6, <2>7, <2>8
  <1> QED
    BY <1>6, <1>7, <1>8, <1>9

LEMMA WholeStep == IInv /\ Next => WholeInv'
  <1> SUFFICES ASSUME IInv, Next PROVE WholeInv'
    OBVIOUS
  <1>0. /\ TypeOK /\ ClockInv /\ HandInv /\ WholeInv /\ ClockInv'
        /\ {"fault"} \in SUBSET Kinds /\ {"delete"} \in SUBSET Kinds
        /\ {"rebuild"} \in SUBSET Kinds
    BY ClockStep DEF IInv, Kinds
  <1>1. ASSUME Never({"fault"})', NEW t \in Times PROVE objs'[t] \in {{}, {"data"}, Objects}
    <2>1. objs[t] \in {{}, {"data"}, Objects} /\ ~Spend("fault")
      BY <1>0, <1>1, NeverBefore DEF WholeInv
    <2>2. WriteManifest /\ t = cur => objs[t] = {"data"}
      BY <1>0 DEF WriteManifest, Goto, HandInv
    <2>3. {"data"} \cup {"manifest"} = Objects
      BY DEF Objects
    <2> QED
      BY <1>0, <2>1, <2>2, <2>3, BucketMoves
  <1>2. ASSUME Never({"delete"})' PROVE api'.pc = "idle"
    <2>1. api.pc = "idle" /\ \A t : ~ApiDelete(t)
      BY <1>0, <1>2, NeverBefore DEF WholeInv, ApiDelete
    <2> QED
      BY <1>0, <2>1, HandMoves
  <1>3. ASSUME Never({"rebuild"})'
        PROVE  reb'.pc = "idle" /\ \A t, u \in Rowed' : t < u => rowAt'[t] < rowAt'[u]
    <2>1. /\ reb.pc = "idle" /\ ~Scan /\ ~Import
          /\ \A t, u \in Rowed : t < u => rowAt[t] < rowAt[u]
      BY <1>0, <1>3, NeverBefore DEF WholeInv, Scan, Import
    <2>2. reb'.pc = "idle"
      BY <1>0, <2>1, RebuildMoves DEF RebIdle, SkipExisting
    <2>3. ASSUME NEW t \in Rowed', NEW u \in Rowed', t < u PROVE rowAt'[t] < rowAt'[u]
      <3>0. /\ t \in Times /\ u \in Times /\ row'[t] # "none" /\ row'[u] # "none"
            /\ t \in Nat /\ u \in Nat /\ t <= now' /\ u <= now' /\ now' \in Nat
        <4>1. t \in Times /\ u \in Times /\ row'[t] # "none" /\ row'[u] # "none"
          BY DEF Rowed
        <4>2. now' \in Nat
          BY TypeStep, TimesAreNumbers DEF TypeOK
        <4> QED
          BY <1>0, <4>1, <4>2, TimesAreNumbers DEF ClockInv
      <3>1. CASE Persist
        <4>1. /\ cur = now /\ now' = now /\ cur \in Times /\ LaterThanAll \in Nat
              /\ \A v \in Times : rowAt[v] < LaterThanAll /\ rowAt[v] \in Nat
          BY <1>0, <3>1, InHand, CreatedAtIsNumber DEF Persist, Goto, TypeOK
        <4>2. \A v \in Times : IF v = cur THEN rowAt'[v] = LaterThanAll
                                          ELSE rowAt'[v] = rowAt[v] /\ row'[v] = row[v]
          BY <1>0, <3>1 DEF Persist, InsertRow, TypeOK
        <4>3. t # cur
          BY <2>3, <3>0, <4>1
        <4>4. CASE u = cur
          BY <3>0, <4>1, <4>2, <4>3, <4>4
        <4>5. CASE u # cur
          BY <2>1, <2>3, <3>0, <4>2, <4>3, <4>5 DEF Rowed
        <4> QED
          BY <4>4, <4>5
      <3>2. CASE ~Persist
        <4>1. /\ row[t] # "none" /\ rowAt'[t] = rowAt[t]
              /\ row[u] # "none" /\ rowAt'[u] = rowAt[u]
          BY <1>0, <2>1, <3>0, <3>2, RowMoves
        <4> QED
          BY <2>1, <2>3, <3>0, <4>1 DEF Rowed
      <3> QED
        BY <3>1, <3>2
    <2> QED
      BY <2>2, <2>3
  <1>4. Never({"fault"})' => \A t \in Times : objs'[t] \in {{}, {"data"}, Objects}
    BY <1>1
  <1>5. Never({"delete"})' => api'.pc = "idle"
    BY <1>2
  <1>6. Never({"rebuild"})' =>
          reb'.pc = "idle" /\ \A t, u \in Rowed' : t < u => rowAt'[t] < rowAt'[u]
    BY <1>3
  <1> QED
    BY <1>4, <1>5, <1>6 DEF WholeInv

(* What a cycle is told to keep stays, whatever the counters say.          *)
LEMMA KeptKeeps ==
  ASSUME NEW copies, NEW p, NEW time, NEW alwaysKeep, NEW t \in copies, t \in alwaysKeep
  PROVE  t \in Kept(copies, p, time, alwaysKeep)
  <1> DEFINE counted == KeepLast(copies, p.last)
                        \cup (UNION {AddPeriodic(copies, r, p.every[r]) : r \in Rules})
             young == TooYoung(copies, p, time)
  <1>1. Kept(copies, p, time, alwaysKeep) = counted \cup young \cup (alwaysKeep \cap copies)
    BY Zenon DEF Kept
  <1> HIDE DEF counted, young
  <1> QED
    BY <1>1

(* The copy that outlives what a cycle deletes: the newest proven one is   *)
(* among those the cycle is told to keep.                                  *)
LEMMA ResolveSpares ==
  ASSUME IInv, Resolve, Never({"delete", "fault"}), pc' = "objects",
         NEW t \in todo', row[t] = "VERIFIED"
  PROVE  \E u \in Rowed \ todo' : Outlives(u, t)
  <1>0. TypeOK /\ ClockInv /\ WholeInv /\ CycleInv /\ pc = "resolve"
    BY DEF IInv, Resolve
  <1> DEFINE proven == {v \in Rowed : job[v] = "linked" /\ row[v] = "VERIFIED"}
             at == {rowAt[v] : v \in proven}
  <1>1. todo' = todo \ Kept(todo, asked, now, NewestVerified)
    BY DEF Resolve, Done, Forget
  <1>2. t \in proven /\ t \in Times
    BY <1>0, <1>1 DEF CycleInv, Rowed, TypeOK
  <1>3. PICK b \in Nat : \A v \in Times : rowAt[v] <= b
    BY <1>0, TimesAreNumbers, FiniteRange DEF TypeOK
  <1>4. PICK n \in at : \A m \in at : m <= n
    <2>1. at \in SUBSET Nat /\ at # {}
      BY <1>0, <1>2 DEF TypeOK, Rowed
    <2>2. \A m \in at : m <= b
      BY <1>3 DEF Rowed
    <2> HIDE DEF at
    <2> QED
      BY <2>1, <2>2, Largest
  <1>5. PICK u \in proven : rowAt[u] = n
    OBVIOUS
  <1>6. u \in NewestVerified
    BY <1>4, <1>5 DEF NewestVerified
  <1>7. u \in todo /\ u \in Rowed /\ u \in Times /\ row[u] = "VERIFIED"
    BY <1>0, <1>5 DEF CycleInv, Rowed
  <1>8. u \notin todo' /\ u # t
    <2>1. u \in Kept(todo, asked, now, NewestVerified)
      BY <1>6, <1>7, KeptKeeps
    <2> QED
      BY <1>1, <1>7, <2>1
  <1>9. objs[u] = Objects
    BY <1>0, <1>7 DEF CycleInv
  <1>10. ASSUME spent["rebuild"] = 0 PROVE u > t
    <2>1. Never({"rebuild"})
      BY <1>10 DEF Never
    <2>2. u < t => rowAt[u] < rowAt[t]
      BY <1>0, <1>2, <1>7, <2>1 DEF WholeInv
    <2>3. rowAt[t] <= rowAt[u] /\ rowAt[t] \in Nat /\ rowAt[u] \in Nat
      BY <1>0, <1>2, <1>4, <1>5, <1>7 DEF TypeOK
    <2>4. t \in Nat /\ u \in Nat
      BY <1>2, <1>7, TimesAreNumbers
    <2> QED
      BY <1>8, <2>2, <2>3, <2>4
  <1> QED
    BY <1>7, <1>8, <1>9, <1>10 DEF Outlives

LEMMA CycleStep == IInv /\ Next => CycleInv'
  <1> SUFFICES ASSUME IInv, Next, Never({"delete", "fault"})'
               PROVE  /\ pc' \in {"read", "resolve"} =>
                           /\ \A t \in todo' : row'[t] # "none" /\ job'[t] = "linked"
                           /\ \A t \in Rowed' :
                                job'[t] = "linked" /\ row'[t] = "VERIFIED" => t \in todo'
                      /\ pc' = "resolve" => \A t \in todo' : objs'[t] = Objects
                      /\ pc' \in {"objects", "row"} =>
                           \A t \in todo' : row'[t] = "VERIFIED" => Outlived(t)'
    BY DEF CycleInv, Outlived, Outlives
  <1>0. TypeOK /\ ClockInv /\ HandInv /\ WholeInv /\ CycleInv /\ TypeOK'
    BY TypeStep DEF IInv
  <1>1. Never({"delete", "fault"}) /\ ~Spend("delete") /\ ~Spend("fault") /\ api.pc = "idle"
    <2>1. {"delete", "fault"} \in SUBSET Kinds
      BY DEF Kinds
    <2>2. Never({"delete", "fault"}) /\ ~Spend("delete") /\ ~Spend("fault")
      BY <1>0, <2>1, NeverBefore
    <2> QED
      BY <1>0, <2>2 DEF WholeInv, Never
  <1>2. ~ApiDeleteObjects /\ ~ApiDeleteRow
    BY <1>1 DEF ApiDeleteObjects, ApiDeleteRow
  <1>3. spent'["rebuild"] = 0 => spent["rebuild"] = 0
    <2>1. {"rebuild"} \in SUBSET Kinds /\ (spent'["rebuild"] = 0 => Never({"rebuild"})')
      BY DEF Kinds, Never
    <2>2. spent'["rebuild"] = 0 => Never({"rebuild"})
      BY <1>0, <2>1, NeverBefore
    <2> QED
      BY <2>2 DEF Never
  <1>4. ASSUME pc \in {"read", "resolve", "objects", "row"}, NEW t \in Times
        PROVE  /\ objs'[t] = objs[t] \/ (PruneObjects /\ t = Latest(todo))
               /\ \/ row'[t] = row[t]
                  \/ row[t] = "none" /\ row'[t] = "unproven"
                  \/ PruneRow /\ t = cur /\ row'[t] = "none"
               /\ \/ job'[t] = job[t]
                  \/ Import /\ t = NextImport /\ job[t] = "none" /\ job'[t] = "loose"
    <2>1. /\ ~Upload /\ ~WriteManifest /\ ~Discard /\ ~Persist /\ ~Record /\ ~LoseCatalog
      BY <1>4 DEF Upload, WriteManifest, Discard, Persist, Record, LoseCatalog, Goto
    <2> QED
      BY <1>0, <1>2, <2>1, BucketMoves, RowMoves, JobMoves
  <1>5. \A t \in Times : Import /\ t = NextImport => row[t] = "none"
    BY DEF Import
  <1>6. todo \subseteq Times /\ todo' \subseteq Times
    BY <1>0 DEF TypeOK
  <1>7. ASSUME pc' \in {"read", "resolve"}
        PROVE  /\ \A t \in todo' : row'[t] # "none" /\ job'[t] = "linked"
               /\ \A t \in Rowed' : job'[t] = "linked" /\ row'[t] = "VERIFIED" => t \in todo'
    <2>1. CASE ListArtifacts
      BY <2>1 DEF ListArtifacts, rows, Rowed
    <2>2. CASE ~ListArtifacts
      <3>1. pc \in {"read", "resolve"} /\ todo' = todo
        BY <1>0, <1>7, <2>2, HandMoves DEF LoadManifests, Goto
      <3>2. ~PruneObjects /\ ~PruneRow
        BY <3>1 DEF PruneObjects, PruneRow
      <3>3. /\ \A t \in todo : row[t] # "none" /\ job[t] = "linked"
            /\ \A t \in Rowed : job[t] = "linked" /\ row[t] = "VERIFIED" => t \in todo
        BY <1>0, <1>1, <3>1 DEF CycleInv
      <3>4. \A t \in todo : row'[t] # "none" /\ job'[t] = "linked"
        BY <1>4, <1>6, <3>1, <3>2, <3>3
      <3>5. \A t \in Rowed' : job'[t] = "linked" /\ row'[t] = "VERIFIED" => t \in todo
        BY <1>4, <3>1, <3>2, <3>3 DEF Rowed
      <3> QED
        BY <3>1, <3>4, <3>5
    <2> QED
      BY <2>1, <2>2
  <1>8. ASSUME pc' = "resolve", NEW t \in todo' PROVE objs'[t] = Objects
    <2>1. CASE LoadManifests
      <3>1. t \in Times /\ objs' = objs /\ "manifest" \in objs[t]
        BY <1>6, <1>8, <2>1 DEF LoadManifests, Unreadable, bucket
      <3>2. objs[t] \in {{}, {"data"}, Objects}
        BY <1>0, <1>1, <3>1 DEF WholeInv, Never
      <3> QED
        BY <3>1, <3>2
    <2>2. CASE ~LoadManifests
      <3>1. pc = "resolve" /\ todo' = todo /\ objs[t] = Objects
        BY <1>0, <1>1, <1>8, <2>2, HandMoves DEF CycleInv
      <3> QED
        BY <1>4, <1>6, <3>1 DEF PruneObjects
    <2> QED
      BY <2>1, <2>2
  <1>9. ASSUME pc' \in {"objects", "row"}, NEW t \in todo', row'[t] = "VERIFIED"
        PROVE  Outlived(t)'
    <2>1. CASE Resolve
      <3>1. objs' = objs /\ row' = row /\ spent' = spent /\ pc' = "objects"
        BY <1>9, <2>1 DEF Resolve, bucket, rows, Done, Forget
      <3>2. PICK u \in Rowed \ todo' : Outlives(u, t)
        <4>1. row[t] = "VERIFIED" /\ Never({"delete", "fault"})
          BY <1>1, <1>9, <3>1
        <4>2. t \in todo' /\ Resolve /\ pc' = "objects" /\ IInv
          BY <2>1, <3>1
        <4> QED
          BY <4>1, <4>2, ResolveSpares
      <3>3. u \in Rowed' \ todo'
        BY <3>1, <3>2 DEF Rowed
      <3> QED
        BY <3>1, <3>2, <3>3 DEF Outlived, Outlives
    <2>2. CASE ~Resolve
      <3>1. pc \in {"objects", "row"} /\ todo' \subseteq todo
        BY <1>0, <1>9, <2>2, HandMoves DEF PruneObjects, PruneRow
      <3>2. t \in Times /\ t \in todo /\ row[t] = "VERIFIED"
        BY <1>4, <1>6, <1>9, <3>1
      <3>3. PICK u \in Rowed \ todo :
              /\ row[u] = "VERIFIED" /\ objs[u] = Objects
              /\ spent["rebuild"] = 0 => u > t
        BY <1>0, <1>1, <3>1, <3>2 DEF CycleInv, Outlived, Outlives
      <3>4. u \in Times /\ u \notin todo'
        BY <3>1, <3>3 DEF Rowed
      <3>5. row'[u] = "VERIFIED"
        <4>1. PruneRow => cur \in todo
          BY <1>0, InHand DEF PruneRow
        <4> QED
          BY <1>4, <3>1, <3>3, <3>4, <4>1
      <3>6. objs'[u] = Objects
        <4>1. PruneObjects => Latest(todo) \in todo
          BY <1>0, InHand DEF PruneObjects
        <4> QED
          BY <1>4, <3>1, <3>3, <3>4, <4>1
      <3> QED
        BY <1>3, <3>3, <3>4, <3>5, <3>6 DEF Outlived, Outlives, Rowed
    <2> QED
      BY <2>1, <2>2
  <1> QED
    BY <1>7, <1>8, <1>9

(* The window is computed once more over fewer copies, later: what is      *)
(* wanted now and had landed before was wanted before, so no cycle and no  *)
(* failure can have taken it.                                              *)
LEMMA PromiseStep == IInv /\ Next => PromiseInv'
  <1> SUFFICES ASSUME IInv, Next PROVE PromiseInv'
    OBVIOUS
  <1>0. /\ TypeOK /\ ClockInv /\ HandInv /\ WholeInv /\ PromiseInv
        /\ TypeOK' /\ ClockInv'
    BY TypeStep, ClockStep DEF IInv
  <1>1. /\ landed' = landed \/ (Persist /\ landed' = landed \cup {cur})
        /\ now' = now \/ (Upload /\ now' = now + 1)
        /\ policy' = policy \/ EditPolicy
    <2>1. landed' = landed \/ (Persist /\ landed' = landed \cup {cur})
      BY DEF Next, Backup, Verify, Retention, Delete, Rebuild, Upload, WriteManifest, Persist,
        PersistThrows, Succeed, Chain, Discard, Judge, Record, StartRetention, RefuseUnconfigured,
        ListArtifacts, RefuseIncompleteView, LoadManifests, Resolve, PruneObjects, PruneRow,
        ApiDelete, ApiDeleteObjects, ApiDeleteRow, Scan, SkipExisting, Import, ImportThrows,
        RebuildDone, EditPolicy, LoseCatalog, Crash, Boot, Hands
    <2>2. (now' = now \/ (Upload /\ now' = now + 1)) /\ (policy' = policy \/ EditPolicy)
      BY DEF Next, Backup, Verify, Retention, Delete, Rebuild, Upload, WriteManifest, Persist,
        PersistThrows, Succeed, Chain, Discard, Judge, Record, StartRetention, RefuseUnconfigured,
        ListArtifacts, RefuseIncompleteView, LoadManifests, Resolve, PruneObjects, PruneRow,
        ApiDelete, ApiDeleteObjects, ApiDeleteRow, Scan, SkipExisting, Import, ImportThrows,
        RebuildDone, EditPolicy, LoseCatalog, Crash, Boot, Hands
    <2> QED
      BY <2>1, <2>2
  <1>2. /\ now \in Nat /\ landed \subseteq 1..now /\ landed \subseteq Times
        /\ pc \in {"manifest", "persist", "discard"} =>
             cur \notin landed /\ cur = now /\ cur \in Times
    BY <1>0, InHand DEF PromiseInv, TypeOK
  <1>3. landed' \subseteq 1..now'
    <2>1. CASE landed' = landed
      BY <1>1, <1>2, <2>1
    <2>2. CASE Persist /\ landed' = landed \cup {cur}
      <3>1. cur = now /\ now \in Times /\ now' = now
        BY <1>2, <2>2 DEF Persist, Goto
      <3> QED
        BY <1>0, <1>2, <2>2, <3>1, InHand
    <2> QED
      BY <1>1, <2>1, <2>2
  <1>4. pc' \in {"manifest", "persist", "discard"} => cur' \notin landed'
    <2> SUFFICES ASSUME pc' \in {"manifest", "persist", "discard"} PROVE cur' \notin landed'
      OBVIOUS
    <2>1. landed' = landed
      BY <1>1 DEF Persist, Goto
    <2>2. CASE Upload
      BY <1>2, <2>1, <2>2 DEF Upload
    <2>3. CASE ~Upload
      <3>1. pc \in {"manifest", "persist", "discard"}
        BY <1>0, <2>3, HandMoves DEF WriteManifest, PersistThrows, Succeed, Chain, Goto
      <3>2. cur' = now'
        BY <1>0 DEF ClockInv
      <3> QED
        BY <1>1, <1>2, <2>1, <2>3, <3>1, <3>2
    <2> QED
      BY <2>2, <2>3
  <1>5. ASSUME Untouched'
        PROVE  /\ Rowed' \subseteq landed'
               /\ pc' = "persist" => objs'[cur'] = Objects
               /\ pc' \in {"list", "read", "resolve", "objects", "row"} => asked' = policy'
               /\ pc' \in {"read", "resolve", "objects", "row"} => IsConfigured(policy')
               /\ pc' \in {"read", "resolve"} => todo' \subseteq landed'
               /\ pc' \in {"objects", "row"} => todo' \cap Wanted' = {}
               /\ \A t \in Wanted' : row'[t] # "none" /\ objs'[t] = Objects
    <2>1. /\ Untouched /\ ~Spend("edit") /\ ~Spend("loss")
          /\ api.pc = "idle" /\ reb.pc = "idle"
      <3> DEFINE K == {"edit", "delete", "rebuild", "loss"}
      <3>1. K \in SUBSET Kinds /\ Never(K)'
        BY <1>5 DEF Kinds, Untouched
      <3>2. Never(K) /\ \A k \in K : ~Spend(k)
        <4> HIDE DEF K
        <4> QED
          BY <1>0, <3>1, NeverBefore
      <3>3. Never({"delete"}) /\ Never({"rebuild"})
        BY <3>2 DEF Never
      <3> QED
        BY <1>0, <3>2, <3>3 DEF WholeInv, Untouched
    <2>2. policy' = policy /\ ~LoseCatalog /\ ~Import /\ ~ApiDeleteObjects /\ ~ApiDeleteRow
      BY <1>1, <2>1 DEF EditPolicy, LoseCatalog, Import, ApiDeleteObjects, ApiDeleteRow
    <2>3. /\ Rowed \subseteq landed
          /\ pc = "persist" => objs[cur] = Objects
          /\ pc \in {"list", "read", "resolve", "objects", "row"} => asked = policy
          /\ pc \in {"read", "resolve", "objects", "row"} => IsConfigured(policy)
          /\ pc \in {"read", "resolve"} => todo \subseteq landed
          /\ pc \in {"objects", "row"} => todo \cap Wanted = {}
          /\ \A t \in Wanted : row[t] # "none" /\ objs[t] = Objects
      BY <1>0, <2>1 DEF PromiseInv
    <2>4. Rowed' \subseteq landed'
      <3> SUFFICES ASSUME NEW t \in Rowed' PROVE t \in landed'
        OBVIOUS
      <3>1. t \in Times /\ row'[t] # "none"
        BY DEF Rowed
      <3>2. CASE Persist /\ t = cur
        BY <3>2 DEF Persist
      <3>3. CASE ~(Persist /\ t = cur)
        <4>1. row[t] # "none"
          BY <1>0, <2>2, <3>1, <3>3, RowMoves
        <4> QED
          BY <1>1, <2>3, <3>1, <4>1 DEF Rowed
      <3> QED
        BY <3>2, <3>3
    <2>5. pc' = "persist" => objs'[cur'] = Objects
      <3>1. CASE WriteManifest
        <4>1. objs[cur] = {"data"} /\ cur' = cur /\ cur \in Times
          BY <1>0, <1>2, <3>1 DEF WriteManifest, Goto, HandInv
        <4>2. objs'[cur] = objs[cur] \cup {"manifest"}
          BY <1>0, <3>1, <4>1 DEF WriteManifest, TypeOK
        <4> QED
          BY <4>1, <4>2 DEF Objects
      <3>2. CASE pc = "persist" /\ cur' = cur
        <4>1. ~Upload /\ ~WriteManifest /\ ~Discard /\ ~PruneObjects
          BY <3>2 DEF Upload, WriteManifest, Discard, PruneObjects, Goto
        <4>2. objs'[cur] = objs[cur]
          BY <1>0, <1>2, <2>2, <3>2, <4>1, BucketMoves
        <4> QED
          BY <2>3, <3>2, <4>2
      <3> QED
        BY <1>0, <3>1, <3>2, HandMoves
    <2>6. pc' \in {"read", "resolve", "objects", "row"} => IsConfigured(policy')
      BY <1>0, <2>2, <2>3, HandMoves
      DEF ListArtifacts, LoadManifests, Resolve, PruneObjects, PruneRow, Goto
    <2>7. pc' \in {"read", "resolve"} => todo' \subseteq landed'
      BY <1>0, <1>1, <2>3, HandMoves DEF ListArtifacts, LoadManifests, Goto
    <2>8. ASSUME NEW t \in landed, t \in Wanted' PROVE t \in Wanted
      <3>1. landed' \in SUBSET Times /\ landed \in SUBSET landed' /\ IsPolicy(policy)
        BY <1>0, <1>1, CatalogBounds DEF TypeOK
      <3>2. now' \in Nat /\ now <= now'
        BY <1>1, <1>2
      <3>3. CASE IsConfigured(policy)
        <4>1. t \in Promised(landed', policy, now')
          BY <2>2, <2>8, <3>3 DEF Wanted
        <4>2. t \in Promised(landed, policy, now)
          BY <1>2, <3>1, <3>2, <4>1, PromiseGrowsWeaker
        <4> QED
          BY <3>3, <4>2 DEF Wanted
      <3>4. CASE ~IsConfigured(policy)
        BY <3>4 DEF Wanted
      <3> QED
        BY <3>3, <3>4
    <2>9. \A t \in Wanted' : t \in landed'
      BY DEF Wanted, Promised
    <2>10. pc' \in {"objects", "row"} => todo' \cap Wanted' = {}
      <3> SUFFICES ASSUME pc' \in {"objects", "row"}, NEW t \in todo', t \in Wanted' PROVE FALSE
        OBVIOUS
      <3>1. landed' = landed
        BY <1>1 DEF Persist, Goto
      <3>2. t \in landed /\ t \in Wanted
        BY <2>8, <2>9, <3>1
      <3>3. CASE Resolve
        <4>0. pc = "resolve" /\ todo' = todo \ Kept(todo, asked, now, NewestVerified)
          BY <3>3 DEF Resolve, Done, Forget
        <4>1. todo' = todo \ Kept(todo, policy, now, NewestVerified)
          BY <2>3, <4>0
        <4>2. todo \in SUBSET landed /\ t \in Promised(landed, policy, now) /\ IsPolicy(policy)
          BY <1>0, <2>3, <3>2, <4>0, CatalogBounds DEF Wanted, TypeOK
        <4>3. t \in Promised(todo, policy, now)
          BY <1>2, <4>1, <4>2, PromiseGrowsWeaker
        <4>4. t \in Kept(todo, policy, now, NewestVerified)
          BY <1>2, <4>2, <4>3, KeptIsPromised
        <4> QED
          BY <4>1, <4>4
      <3>4. CASE ~Resolve
        <4>1. pc \in {"objects", "row"} /\ todo' \subseteq todo
          BY <1>0, <3>4, HandMoves DEF PruneObjects, PruneRow
        <4> QED
          BY <2>3, <3>2, <4>1
      <3> QED
        BY <3>3, <3>4
    <2>11. ASSUME NEW t \in Wanted' PROVE row'[t] # "none" /\ objs'[t] = Objects
      <3>1. t \in Times /\ t \in landed'
        BY <1>0, <2>9 DEF TypeOK
      <3>2. CASE Persist /\ t = cur
        <4>1. pc = "persist" /\ objs' = objs /\ InsertRow(cur)
          BY <3>2 DEF Persist, Goto
        <4>2. row'[t] = "unproven"
          BY <1>0, <3>1, <3>2, <4>1 DEF InsertRow, TypeOK
        <4> QED
          BY <2>3, <3>2, <4>1, <4>2
      <3>3. CASE ~(Persist /\ t = cur)
        <4>1. t \in landed /\ t \in Wanted
          BY <1>1, <2>8, <3>1, <3>3
        <4>2. row[t] # "none" /\ objs[t] = Objects
          BY <2>3, <4>1
        <4>3. t # now + 1 /\ (pc \in {"manifest", "persist", "discard"} => t # cur)
          BY <1>2, <4>1
        <4>4. /\ Upload => t # now + 1
              /\ WriteManifest \/ Discard => t # cur
          BY <4>3 DEF WriteManifest, Discard, Goto
        <4>5. /\ PruneObjects => t # Latest(todo)
              /\ PruneRow => t # cur
          BY <1>0, <2>3, <4>1, InHand DEF PruneObjects, PruneRow
        <4>6. objs'[t] = objs[t]
          BY <1>0, <2>2, <3>1, <4>4, <4>5, BucketMoves
        <4>7. row'[t] # "none"
          BY <1>0, <2>2, <3>1, <4>2, <4>5, RowMoves DEF TypeOK, States
        <4> QED
          BY <4>2, <4>6, <4>7
      <3> QED
        BY <3>2, <3>3
    <2>12. pc' \in {"list", "read", "resolve", "objects", "row"} => asked' = policy'
      <3>1. StartRetention => asked' = policy
        BY DEF StartRetention
      <3> QED
        BY <1>0, <2>2, <2>3, <3>1, HandMoves
    <2> QED
      BY <2>4, <2>5, <2>6, <2>7, <2>10, <2>11, <2>12
  <1> QED
    BY <1>3, <1>4, <1>5 DEF PromiseInv, Untouched, Never, Rowed, Wanted

-----------------------------------------------------------------------------
(* The theorems.                                                           *)

LEMMA Invariant == Spec => []IInv
  <1>1. Init => IInv
    BY CatalogInit
  <1>2. IInv /\ [Next]_vars => IInv'
    <2> SUFFICES ASSUME IInv, [Next]_vars PROVE IInv'
      OBVIOUS
    <2>1. CASE Next
      BY <2>1, TypeStep, ClockStep, HandStep, RebuildStep, MatchStep, WholeStep, CycleStep,
        PromiseStep
      DEF IInv
    <2>2. CASE UNCHANGED vars
      BY <2>2 DEF vars, rows, worker, IInv, TypeOK, ClockInv, InLanding, HandInv, RebuildInv,
        MatchInv, WholeInv, CycleInv, PromiseInv, InDeletion, InBackup, Outlived, Outlives,
        Rowed, Never, Undisturbed, Untouched, Wanted
    <2> QED
      BY <2>1, <2>2
  <1> QED
    BY <1>1, <1>2, PTL DEF Spec

(***************************************************************************)
(* The rows, the objects and whoever has them in hand are what they are    *)
(* declared to be, createdAt is always a number, and no kind of            *)
(* disturbance exceeds its bound.                                          *)
(***************************************************************************)
THEOREM CatalogTypes == Spec => []TypeOK
  BY Invariant, PTL DEF IInv

(***************************************************************************)
(* A rebuild that comes to its end has a row for every manifest it saw     *)
(* that is still there, whatever backups, cycles, deletions, faults and    *)
(* other rebuilds went on beside it (catalog-rebuild-wiring.ts).           *)
(***************************************************************************)
THEOREM RebuildCovers == Spec => []RebuildCoversBucket
  <1>1. IInv => RebuildCoversBucket
    BY DEF IInv, RebuildInv, RebuildCoversBucket
  <1> QED
    BY <1>1, Invariant, PTL

(***************************************************************************)
(* Where nothing failed and no catalog was lost, rows and objects agree    *)
(* whenever nothing is in progress, although retention, the API and a      *)
(* verification may hold one artifact at once.                             *)
(***************************************************************************)
THEOREM CatalogMatches == Spec => []CatalogMatchesBucket
  <1>1. IInv => CatalogMatchesBucket
    BY DEF IInv, MatchInv, CatalogMatchesBucket, Quiet, InDeletion, InBackup
  <1> QED
    BY <1>1, Invariant, PTL

(***************************************************************************)
(* Every backup the policy wants - of ALL that ever got their row, those   *)
(* of jobs that failed after it among them - is in the catalog and whole   *)
(* in the bucket, although each cycle only sees what the earlier ones left,*)
(* and whatever crashes, failing calls and verdicts come in between: for   *)
(* every calendar and policy, as long as nobody edits the policy, deletes, *)
(* or loses or rebuilds the catalog.                                       *)
(***************************************************************************)
THEOREM PromisesAreKept == Spec => []PromiseKept
  <1>1. IInv => PromiseKept
    BY DEF IInv, PromiseInv, Untouched, PromiseKept
  <1> QED
    BY <1>1, Invariant, PTL

(***************************************************************************)
(* A cycle deletes the bytes of a VERIFIED artifact only while another     *)
(* VERIFIED one keeps row and bytes (retention.ts: the newest copy a       *)
(* verify has proven survives the cycle), for every policy and calendar.   *)
(***************************************************************************)
THEOREM ProvenCopyStays == Spec => ProvenCopySurvives
  <1> DEFINE Spares ==
        \A t \in todo :
          /\ pc = "objects" /\ pc' = "row" /\ Never({"delete", "fault"})
          /\ row[t] = "VERIFIED" /\ objs'[t] # objs[t]
          => \E u \in Rowed \ todo :
               /\ row[u] = "VERIFIED" /\ "data" \in objs'[u]
               /\ (spent["rebuild"] = 0 => u > t)
  <1>1. IInv /\ [Next]_vars => [Spares]_vars
    <2> SUFFICES ASSUME IInv, Next, NEW t \in todo, pc = "objects", pc' = "row",
                        Never({"delete", "fault"}), row[t] = "VERIFIED"
                 PROVE  \E u \in Rowed \ todo :
                          /\ row[u] = "VERIFIED" /\ "data" \in objs'[u]
                          /\ (spent["rebuild"] = 0 => u > t)
      OBVIOUS
    <2>0. TypeOK /\ ClockInv /\ CycleInv
      BY DEF IInv
    <2>1. PICK u \in Rowed \ todo :
            /\ row[u] = "VERIFIED" /\ objs[u] = Objects
            /\ spent["rebuild"] = 0 => u > t
      BY <2>0 DEF CycleInv, Outlived, Outlives
    <2>2. PruneObjects
      BY <2>0, HandMoves
    <2>3. DeleteObjects(Latest(todo)) /\ Latest(todo) \in todo /\ u \in Times
      BY <2>0, <2>2, InHand DEF PruneObjects, Done, Forget, Rowed
    <2>4. objs'[u] = Objects
      BY <2>0, <2>1, <2>3 DEF DeleteObjects, TypeOK
    <2> QED
      BY <2>1, <2>4 DEF Objects
  <1> QED
    BY <1>1, Invariant, PTL DEF Spec, ProvenCopySurvives
=============================================================================
