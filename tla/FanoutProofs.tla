----------------------------- MODULE FanoutProofs -----------------------------
(***************************************************************************)
(* Proofs about module Fanout, for any actors, domains, jobs, page size,   *)
(* threshold and number of attempts.                                       *)
(***************************************************************************)
EXTENDS Fanout, FiniteSetTheorems, WellFoundedInduction, TLAPS

\* The walk will not come to a any more.
Covered(r, a) == a \in r.delivered \/ follower[a] <= r.cursor

\* a has its delivery, or gets it with the page.
Given(r, a) == r.enqueued[a] > 0 \/ a \in r.batch

\* One delivery, or as many as accts the post mentions a by.
Accts(a) == {m \in Mentioned : ActorOf[m] = a}

Few(r, a) ==
  \/ r.enqueued[a] <= 1
  \/ r.kind \in {"deliver_post", "update_post"} /\ r.enqueued[a] <= Cardinality(Accts(a))

Excused(r, a) == DomainOf[a] \in r.wasDead \/ a \in r.lost

\* What the walk has learnt of domains, and which are dead now.
DeadIsKnown(r) == \A d \in Domains : r.deadCache[d] = "dead" \/ IsDomainDead(d) => d \in r.wasDead

\* Whom the walk has passed it has given a delivery, and nobody else; it gives
\* none to those who have one.
WalkOK(r) ==
  \A a \in r.stayed :
    /\ a \in r.batch => r.enqueued[a] = 0
    /\ Given(r, a) => Covered(r, a)
    /\ Covered(r, a) => Given(r, a) \/ Excused(r, a)

FanOK(r) ==
  /\ r \in Fan
  /\ r.pc \in {"idle", "waiting"} => r.attempts < MaxAttempts
  /\ Walking(r) => r.attempts > 0
  /\ r.stayed \subseteq Followers /\ \A a \in r.stayed : Few(r, a)
  /\ Walking(r) => DeadIsKnown(r) /\ WalkOK(r)
  /\ r.pc = "reading" => r.batch = {}
  /\ r.pc = "writing" /\ ~r.more => \A a \in r.stayed : Covered(r, a)
  /\ r.pc = "done" => \A a \in r.stayed : r.enqueued[a] > 0 \/ Excused(r, a)

IdsOK ==
  /\ follower \in [Actors -> 0..MaxId] /\ lastId \in 0..MaxId
  /\ \A a \in Actors : follower[a] <= lastId
  /\ \A a, b \in Followers : follower[a] = follower[b] => a = b

RestOK ==
  /\ post \in {"live", "gone"} /\ mentions \subseteq Mentioned
  /\ out \subseteq Delivery /\ \A x \in out : x.tries < MaxAttempts
  /\ failures \in [Domains -> 0..DeadThreshold]
  /\ recent \in [Domains -> BOOLEAN]

FansOK == fan \in [Jobs -> Fan] /\ \A j \in Jobs : FanOK(fan[j])

FanoutInv == FansOK /\ IdsOK /\ RestOK

-----------------------------------------------------------------------------
(* Least and greatest numbers.                                             *)

Less == {ss \in Nat \X Nat : ss[1] < ss[2]}

LEMMA LessIsWellFounded == IsWellFoundedOn(Less, Nat)
BY NatLessThanWellFounded, Zenon DEF Less, OpToRel

LEMMA LeastNumber == ASSUME NEW T \in SUBSET Nat, T # {} PROVE \E x \in T : \A y \in T : x <= y
<1>1. PICK x \in T : \A y \in T : ~(<<y, x>> \in Less)
  BY LessIsWellFounded, WFMin
<1>2. ASSUME NEW y \in T PROVE x <= y
  <2>1. ~(<<y, x>> \in Less) /\ y \in Nat /\ x \in Nat
    BY <1>1
  <2>2. <<y, x>> \in Less <=> y < x
    BY <2>1 DEF Less
  <2> QED
    BY <2>1, <2>2
<1> QED
  BY <1>2

LEMMA Greatest ==
  ASSUME NEW k \in Nat, NEW T \in SUBSET (0..k), T # {}
  PROVE  Max(T) \in T /\ \A y \in T : y <= Max(T)
<1> DEFINE U == {k - x : x \in T}
<1>1. U \in SUBSET Nat /\ U # {}
  <2>1. \A x \in T : k - x \in Nat
    OBVIOUS
  <2>2. PICK x \in T : TRUE
    OBVIOUS
  <2>3. k - x \in U
    OBVIOUS
  <2> QED
    BY <2>1, <2>3
<1>2. PICK u \in U : \A y \in U : u <= y
  BY <1>1, LeastNumber
<1>3. PICK x \in T : u = k - x
  BY <1>2
<1>4. ASSUME NEW y \in T PROVE x >= y
  <2>1. k - x <= k - y
    BY <1>2, <1>3
  <2> QED
    BY <2>1
<1>5. \E z \in T : \A y \in T : z >= y
  BY <1>4
<1>6. Max(T) \in T /\ \A y \in T : Max(T) >= y
  BY <1>5 DEF Max
<1> QED
  BY <1>6

-----------------------------------------------------------------------------
(* A page of the followers.                                                *)

\* A page is above the cursor, leaves nobody out up to its last, and whoever is
\* above a page that is not full.
LEMMA Pages ==
  ASSUME IdsOK, NEW cursor \in 0..MaxId
  PROVE  LET page == ListFollowersPaged(cursor) IN
         /\ page \subseteq Followers /\ IsFiniteSet(page)
         /\ \A a \in page : follower[a] > cursor
         /\ \A a \in page, b \in Followers :
              cursor < follower[b] /\ follower[b] <= follower[a] => b \in page
         /\ Cardinality(page) # PageSize => \A b \in Followers : follower[b] > cursor => b \in page
<1> DEFINE page == ListFollowersPaged(cursor)
           Upto(a) == {b \in Followers : follower[b] \in cursor + 1 .. follower[a]}
<1>0. Followers \subseteq Actors /\ IsFiniteSet(Actors) /\ MaxId \in Nat /\ PageSize \in Nat \ {0}
  BY FanoutAssumption DEF Followers
<1>1. page = {a \in Followers : follower[a] > cursor /\ Cardinality(Upto(a)) <= PageSize}
  BY DEF ListFollowersPaged
<1>2. ASSUME NEW a \in Followers
      PROVE  /\ follower[a] \in 0..MaxId /\ follower[a] \in Nat
             /\ IsFiniteSet(Upto(a)) /\ Cardinality(Upto(a)) \in Nat
             /\ \A b \in Followers : follower[b] <= follower[a] =>
                  Cardinality(Upto(b)) <= Cardinality(Upto(a))
  <2>1. follower[a] \in 0..MaxId /\ follower[a] \in Nat
    BY <1>0 DEF IdsOK
  <2>2. IsFiniteSet(Upto(a)) /\ Cardinality(Upto(a)) \in Nat
    BY <1>0, FS_Subset, FS_CardinalityType
  <2>3. ASSUME NEW b \in Followers, follower[b] <= follower[a] PROVE Upto(b) \subseteq Upto(a)
    BY <1>0, <2>1, <2>3 DEF IdsOK
  <2> QED
    BY <2>1, <2>2, <2>3, FS_Subset
<1>3. page \subseteq Followers /\ IsFiniteSet(page) /\ \A a \in page : follower[a] > cursor
  BY <1>0, <1>1, FS_Subset
<1>4. ASSUME NEW a \in page, NEW b \in Followers, cursor < follower[b], follower[b] <= follower[a]
      PROVE  b \in page
  <2>1. a \in Followers /\ Cardinality(Upto(a)) <= PageSize
    BY <1>1
  <2>2. Cardinality(Upto(b)) <= Cardinality(Upto(a)) /\ Cardinality(Upto(b)) \in Nat /\ follower[b] \in Nat
        /\ Cardinality(Upto(a)) \in Nat
    BY <1>2, <1>4, <2>1
  <2>3. Cardinality(Upto(b)) <= PageSize
    BY <1>0, <2>1, <2>2
  <2> QED
    BY <1>1, <1>4, <2>2, <2>3
<1> HIDE DEF Upto, page
<1>5. ASSUME NEW b0 \in Followers, follower[b0] > cursor, b0 \notin page
      PROVE  Cardinality(page) = PageSize
  <2> DEFINE left == {b \in Followers : follower[b] > cursor /\ b \notin page}
  <2>1. {follower[b] : b \in left} \in SUBSET Nat /\ {follower[b] : b \in left} # {}
    BY <1>2, <1>5
  <2>2. PICK m \in {follower[b] : b \in left} : \A y \in {follower[b] : b \in left} : m <= y
    BY <2>1, LeastNumber
  <2>3. PICK b \in left : follower[b] = m
    BY <2>2
  <2>4. b \in Followers /\ b \notin page /\ follower[b] > cursor /\ follower[b] \in Nat
        /\ \A x \in left : follower[b] <= follower[x]
    BY <1>2, <2>2, <2>3
  <2>5. Cardinality(Upto(b)) > PageSize
    BY <1>0, <1>1, <1>2, <2>4
  <2>6. ASSUME NEW x \in Upto(b) \ {b} PROVE x \in page
    <3>1. x \in Followers /\ follower[x] > cursor /\ follower[x] <= follower[b] /\ follower[x] # follower[b]
      BY <2>4 DEF Upto, IdsOK
    <3>2. x \notin left
      BY <1>2, <2>4, <3>1
    <3> QED
      BY <3>1, <3>2
  <2>7. ASSUME NEW x \in page PROVE x \in Upto(b) \ {b}
    <3>1. x \in Followers /\ follower[x] > cursor /\ follower[x] \in Nat
      BY <1>2, <1>3
    <3>2. ~(follower[b] <= follower[x])
      BY <1>4, <2>4
    <3> QED
      BY <2>4, <3>1, <3>2 DEF Upto
  <2>8. page = Upto(b) \ {b} /\ b \in Upto(b)
    BY <2>4, <2>6, <2>7 DEF Upto
  <2>9. Cardinality(page) = Cardinality(Upto(b)) - 1
    BY <1>2, <2>4, <2>8, FS_RemoveElement
  <2>10. Cardinality(page) >= PageSize /\ Cardinality(page) \in Nat /\ page # {}
    BY <1>0, <1>2, <1>3, <2>4, <2>5, <2>9, FS_EmptySet, FS_CardinalityType
  <2>11. {follower[a] : a \in page} \in SUBSET (0..MaxId) /\ {follower[a] : a \in page} # {}
    BY <1>2, <1>3, <2>10
  <2>12. PICK top \in page : \A a \in page : follower[a] <= follower[top]
    BY <1>0, <2>11, Greatest
  <2>13. ASSUME NEW x \in page PROVE x \in Upto(top)
    <3>1. x \in Followers /\ follower[x] > cursor /\ follower[x] \in Nat /\ follower[top] \in Nat
      BY <1>2, <1>3, <2>12
    <3>2. follower[x] <= follower[top]
      BY <2>12
    <3>3. follower[x] \in cursor + 1 .. follower[top]
      BY <1>0, <3>1, <3>2
    <3> QED
      BY <3>1, <3>3 DEF Upto
  <2>14. Cardinality(page) <= Cardinality(Upto(top)) /\ Cardinality(Upto(top)) <= PageSize
         /\ Cardinality(Upto(top)) \in Nat
    BY <1>1, <1>2, <1>3, <2>12, <2>13, FS_Subset
  <2> QED
    BY <1>0, <2>10, <2>14
<1> QED
  BY <1>3, <1>4, <1>5 DEF page

-----------------------------------------------------------------------------
(* Records of fan-outs.                                                    *)

Pcs == {"idle", "waiting", "reading", "writing", "done", "dead"}
Caches == [Domains -> {"unknown", "dead", "alive"}]

LEMMA SetPc ==
  ASSUME NEW r \in Fan, NEW v \in Pcs
  PROVE [r EXCEPT !.pc = v] \in Fan
BY DEF Fan, Pcs
LEMMA SetAttempts ==
  ASSUME NEW r \in Fan, NEW v \in 0..MaxAttempts
  PROVE [r EXCEPT !.attempts = v] \in Fan
BY DEF Fan
LEMMA SetCursor ==
  ASSUME NEW r \in Fan, NEW v \in 0..MaxId
  PROVE [r EXCEPT !.cursor = v] \in Fan
BY DEF Fan
LEMMA SetDeadCache ==
  ASSUME NEW r \in Fan, NEW v \in Caches
  PROVE [r EXCEPT !.deadCache = v] \in Fan
BY DEF Fan, Caches
LEMMA SetDelivered ==
  ASSUME NEW r \in Fan, NEW v \in SUBSET Actors
  PROVE [r EXCEPT !.delivered = v] \in Fan
BY DEF Fan
LEMMA SetBatch ==
  ASSUME NEW r \in Fan, NEW v \in SUBSET Actors
  PROVE [r EXCEPT !.batch = v] \in Fan
BY DEF Fan
LEMMA SetMore ==
  ASSUME NEW r \in Fan, NEW v \in BOOLEAN
  PROVE [r EXCEPT !.more = v] \in Fan
BY DEF Fan
LEMMA SetStayed ==
  ASSUME NEW r \in Fan, NEW v \in SUBSET Actors
  PROVE [r EXCEPT !.stayed = v] \in Fan
BY DEF Fan
LEMMA SetEnqueued ==
  ASSUME NEW r \in Fan, NEW v \in [Actors -> Nat]
  PROVE [r EXCEPT !.enqueued = v] \in Fan
BY DEF Fan
LEMMA SetWasDead ==
  ASSUME NEW r \in Fan, NEW v \in SUBSET Domains
  PROVE [r EXCEPT !.wasDead = v] \in Fan
BY DEF Fan

LEMMA Fields ==
  ASSUME NEW r \in Fan
  PROVE  /\ r.kind \in Kinds /\ r.pc \in Pcs /\ r.attempts \in 0..MaxAttempts /\ r.cursor \in 0..MaxId
         /\ r.deadCache \in Caches /\ r.delivered \subseteq Actors /\ r.batch \subseteq Actors
         /\ r.more \in BOOLEAN /\ r.stayed \subseteq Actors /\ r.enqueued \in [Actors -> Nat]
         /\ r.wasDead \subseteq Domains /\ r.lost \subseteq Actors
BY DEF Fan, Pcs, Caches

-----------------------------------------------------------------------------
(* What every step must show of the fan-outs.                              *)

LEMMA Constants ==
  /\ IsFiniteSet(Actors) /\ IsFiniteSet(Domains) /\ DomainOf \in [Actors -> Domains]
  /\ PageSize \in Nat \ {0} /\ DeadThreshold \in Nat \ {0} /\ MaxAttempts \in Nat \ {0}
  /\ MaxId \in Nat /\ IsFiniteSet(Mentioned) /\ ActorOf \in [Mentioned -> Actors]
  /\ Target \subseteq Actors
BY FanoutAssumption

\* A fan-out stays right while followers stay what they are and no domain dies.
LEMMA Stable ==
  ASSUME NEW r, FanOK(r), UNCHANGED table, \A d \in Domains : IsDomainDead(d)' => IsDomainDead(d)
  PROVE  FanOK(r)'
<1>1. UNCHANGED follower
  BY DEF table
<1>2. DeadIsKnown(r) => DeadIsKnown(r)'
  BY DEF DeadIsKnown
<1>3. WalkOK(r) => WalkOK(r)'
  BY <1>1 DEF WalkOK, Covered, Given, Excused
<1> QED
  BY <1>1, <1>2, <1>3 DEF FanOK, Followers, Walking, Covered, Excused, Few

\* A step of one fan-out.
LEMMA OneFan ==
  ASSUME FansOK, NEW j \in Jobs, NEW s, fan' = [fan EXCEPT ![j] = s], FanOK(s),
         UNCHANGED table, \A d \in Domains : IsDomainDead(d)' => IsDomainDead(d)
  PROVE  FansOK'
<1>1. s \in Fan
  BY DEF FanOK
<1>2. fan' \in [Jobs -> Fan]
  BY <1>1 DEF FansOK
<1>3. ASSUME NEW i \in Jobs PROVE FanOK(fan[i])'
  <2>1. PICK r : r = fan'[i]
    OBVIOUS
  <2>2. FanOK(r)
    BY <2>1 DEF FansOK
  <2>3. FanOK(r)'
    BY <2>2, Stable
  <2> QED
    BY <2>1, <2>3
<1> QED
  BY <1>2, <1>3 DEF FansOK

\* A step that leaves the fan-outs alone and makes no domain dead.
LEMMA NoFan ==
  ASSUME FansOK, UNCHANGED fan, UNCHANGED table,
         \A d \in Domains : IsDomainDead(d)' => IsDomainDead(d)
  PROVE  FansOK'
<1>1. ASSUME NEW i \in Jobs PROVE FanOK(fan[i])'
  <2>1. PICK r : r = fan[i]
    OBVIOUS
  <2>2. FanOK(r)
    BY <2>1 DEF FansOK
  <2>3. FanOK(r)'
    BY <2>2, Stable
  <2> QED
    BY <2>1, <2>3
<1> QED
  BY <1>1 DEF FansOK

\* A fan-out without a handler has nothing to answer for.
LEMMA RestingIsOK ==
  ASSUME NEW kind \in Kinds, NEW n \in 0..MaxAttempts, NEW pc \in {"idle", "waiting", "dead"},
         pc # "dead" => n < MaxAttempts
  PROVE  Resting(kind, pc, n) \in Fan /\ FanOK(Resting(kind, pc, n))
<1>1. PICK none : none = [a \in Actors |-> 0]
  OBVIOUS
<1>2. PICK cache : cache = [d \in Domains |-> "unknown"]
  OBVIOUS
<1>3. none \in [Actors -> Nat] /\ cache \in [Domains -> {"unknown", "dead", "alive"}] /\ 0 \in 0..MaxId
  BY <1>1, <1>2, Constants
<1>4. PICK s : s = Resting(kind, pc, n)
  OBVIOUS
<1>5. s = [kind |-> kind, pc |-> pc, attempts |-> n, cursor |-> 0, deadCache |-> cache,
           delivered |-> {}, batch |-> {}, more |-> TRUE, stayed |-> {}, enqueued |-> none,
           wasDead |-> {}, lost |-> {}]
  BY <1>1, <1>2, <1>4 DEF Resting
<1>6. s \in Fan
  BY <1>3, <1>5 DEF Fan
<1>7. s.pc = pc /\ s.attempts = n /\ s.stayed = {}
  BY <1>5
<1>8. FanOK(s)
  BY <1>6, <1>7 DEF FanOK, Walking
<1> QED
  BY <1>4, <1>6, <1>8

\* An attempt that ended without completing the job leaves it waiting or dead.
LEMMA AfterAttemptIsOK ==
  ASSUME FanoutInv, NEW j \in Jobs, NEW n \in 1..MaxAttempts
  PROVE  \E s : FanOK(s) /\ AfterAttempt(j, n) = [fan EXCEPT ![j] = s]
<1>1. PICK p : p = IF n = MaxAttempts THEN "dead" ELSE "waiting"
  OBVIOUS
<1>2. fan[j].kind \in Kinds /\ MaxAttempts \in Nat
  BY Fields, Constants DEF FanoutInv, FansOK
<1>3. n \in 0..MaxAttempts /\ p \in {"idle", "waiting", "dead"} /\ (p # "dead" => n < MaxAttempts)
  BY <1>1, <1>2
<1>4. FanOK(Resting(fan[j].kind, p, n))
  BY <1>2, <1>3, RestingIsOK
<1>5. AfterAttempt(j, n) = [fan EXCEPT ![j] = Resting(fan[j].kind, p, n)]
  BY <1>1 DEF AfterAttempt
<1> QED
  BY <1>4, <1>5

-----------------------------------------------------------------------------
(* The breaker.                                                            *)

LEMMA Failures ==
  ASSUME FanoutInv, NEW ds, IncrementDomainFailure(ds)
  PROVE  failures' \in [Domains -> 0..DeadThreshold] /\ recent' \in [Domains -> BOOLEAN]
<1>1. /\ failures' = [d \in Domains |-> IF d \in ds /\ failures[d] < DeadThreshold
                                        THEN failures[d] + 1 ELSE failures[d]]
      /\ recent' = [d \in Domains |-> IF d \in ds THEN TRUE ELSE recent[d]]
  BY DEF IncrementDomainFailure
<1>2. failures \in [Domains -> 0..DeadThreshold] /\ recent \in [Domains -> BOOLEAN]
      /\ DeadThreshold \in Nat
  BY Constants DEF FanoutInv, RestOK
<1>3. \A d \in Domains : (IF d \in ds /\ failures[d] < DeadThreshold
                          THEN failures[d] + 1 ELSE failures[d]) \in 0..DeadThreshold
  BY <1>2
<1>4. \A d \in Domains : (IF d \in ds THEN TRUE ELSE recent[d]) \in BOOLEAN
  BY <1>2
<1>5. failures' \in [Domains -> 0..DeadThreshold]
  BY <1>1, <1>3
<1>6. recent' \in [Domains -> BOOLEAN]
  BY <1>1, <1>4
<1> QED
  BY <1>5, <1>6

\* Counters that are reset make no domain dead.
LEMMA Resets ==
  ASSUME FanoutInv, NEW ds, ResetDomainFailure(ds)
  PROVE  /\ failures' \in [Domains -> 0..DeadThreshold] /\ recent' \in [Domains -> BOOLEAN]
         /\ \A e \in Domains : IsDomainDead(e)' => IsDomainDead(e)
<1>1. /\ failures \in [Domains -> 0..DeadThreshold] /\ recent \in [Domains -> BOOLEAN]
      /\ failures' = [d \in Domains |-> IF d \in ds THEN 0 ELSE failures[d]]
      /\ recent' = [d \in Domains |-> IF d \in ds THEN FALSE ELSE recent[d]]
      /\ DeadThreshold \in Nat
  BY Constants DEF FanoutInv, RestOK, ResetDomainFailure
<1>2. failures' \in [Domains -> 0..DeadThreshold]
  BY <1>1
<1>3. \A d \in Domains : (IF d \in ds THEN FALSE ELSE recent[d]) \in BOOLEAN
  BY <1>1
<1>4. recent' \in [Domains -> BOOLEAN]
  BY <1>1, <1>3
<1>5. ASSUME NEW e \in Domains, IsDomainDead(e)' PROVE IsDomainDead(e)
  <2>1. recent'[e] = IF e \in ds THEN FALSE ELSE recent[e]
    BY <1>1
  <2>2. e \notin ds
    BY <1>5, <2>1, Zenon DEF IsDomainDead
  <2>3. failures'[e] = failures[e]
    BY <1>1, <2>2
  <2>4. recent'[e] = recent[e]
    BY <2>1, <2>2, Zenon
  <2> QED
    BY <1>5, <2>3, <2>4 DEF IsDomainDead
<1> QED
  BY <1>2, <1>4, <1>5

\* The walks that are on take note of every domain that is dead after a step.
LEMMA AllNotice ==
  ASSUME FansOK, NEW f \in [Jobs -> Fan], \A j \in Jobs : FanOK(f[j]), UNCHANGED table,
         fan' = Noticed(f)
  PROVE  FansOK'
<1>1. UNCHANGED follower
  BY DEF table
<1>2. PICK now : now = {d \in Domains : IsDomainDead(d)'}
  OBVIOUS
<1>3. ASSUME NEW r, FanOK(r), Walking(r), NEW s, s = [r EXCEPT !.wasDead = r.wasDead \cup now]
      PROVE  s \in Fan /\ FanOK(s)'
  <2>1. r \in Fan
    BY <1>3 DEF FanOK
  <2>2. r.wasDead \cup now \in SUBSET Domains
    BY <1>2, <2>1, Fields
  <2>3. s \in Fan
    BY <1>3, <2>1, <2>2, SetWasDead
  <2>4. /\ s.pc = r.pc /\ s.kind = r.kind /\ s.attempts = r.attempts /\ s.cursor = r.cursor
        /\ s.deadCache = r.deadCache /\ s.delivered = r.delivered /\ s.batch = r.batch /\ s.more = r.more
        /\ s.stayed = r.stayed /\ s.enqueued = r.enqueued /\ s.lost = r.lost
        /\ s.wasDead = r.wasDead \cup now
    BY <1>3, <2>1 DEF Fan
  <2>5. \A a \in Actors : Excused(r, a) => Excused(s, a)
    BY <2>4 DEF Excused
  <2>6. DeadIsKnown(r) => DeadIsKnown(s)'
    BY <1>2, <2>4 DEF DeadIsKnown
  <2>7. r.stayed \subseteq Actors
    BY <2>1, Fields
  <2>8. WalkOK(r) => WalkOK(s)'
    <3>1. ASSUME WalkOK(r), NEW a \in s.stayed
          PROVE  /\ a \in s.batch => s.enqueued[a] = 0
                 /\ Given(s, a) => Covered(s, a)'
                 /\ Covered(s, a)' => Given(s, a) \/ Excused(s, a)
      <4>1. a \in r.stayed /\ a \in Actors
        BY <2>4, <2>7
      <4>2. Covered(s, a)' <=> Covered(r, a)
        BY <1>1, <2>4 DEF Covered
      <4>3. Given(s, a) <=> Given(r, a)
        BY <2>4 DEF Given
      <4> QED
        BY <2>4, <2>5, <3>1, <4>1, <4>2, <4>3 DEF WalkOK
    <3> QED
      BY <3>1 DEF WalkOK, Given, Excused
  <2>9. \A a \in Actors : Covered(s, a)' <=> Covered(r, a)
    BY <1>1, <2>4 DEF Covered
  <2>10. Followers' = Followers
    BY <1>1 DEF Followers
  <2>11. /\ r.stayed \subseteq Followers /\ \A a \in r.stayed : Few(r, a)
         /\ DeadIsKnown(r) /\ WalkOK(r) /\ r.attempts > 0
         /\ r.pc = "reading" => r.batch = {}
         /\ r.pc = "writing" /\ ~r.more => \A a \in r.stayed : Covered(r, a)
    BY <1>3 DEF FanOK
  <2>12. s.pc \in {"reading", "writing"} /\ s.attempts > 0
    BY <1>3, <2>4, <2>11 DEF Walking
  <2>13. s.stayed \subseteq Followers' /\ \A a \in s.stayed : Few(s, a)
    BY <2>4, <2>10, <2>11 DEF Few
  <2>14. s.pc = "reading" => s.batch = {}
    BY <2>4, <2>11
  <2>15. s.pc = "writing" /\ ~s.more => \A a \in s.stayed : Covered(s, a)'
    BY <2>4, <2>7, <2>9, <2>11
  <2>16. FanOK(s)'
    BY <2>3, <2>6, <2>8, <2>11, <2>12, <2>13, <2>14, <2>15 DEF FanOK, Walking, Few, Excused
  <2> QED
    BY <2>3, <2>16
<1>4. ASSUME NEW r, FanOK(r), ~Walking(r) PROVE r \in Fan /\ FanOK(r)'
  BY <1>1, <1>4 DEF FanOK, Walking, Few, Followers, Excused
<1>5. ASSUME NEW i \in Jobs PROVE fan'[i] \in Fan /\ FanOK(fan[i])'
  <2>1. PICK r : r = f[i]
    OBVIOUS
  <2>2. PICK s : s = fan'[i]
    OBVIOUS
  <2>3. FanOK(r) /\ s = IF Walking(r) THEN [r EXCEPT !.wasDead = r.wasDead \cup now] ELSE r
    BY <1>2, <2>1, <2>2 DEF Noticed
  <2>4. s \in Fan /\ FanOK(s)'
    BY <1>3, <1>4, <2>3
  <2> QED
    BY <2>2, <2>4
<1>6. fan' \in [Jobs -> Fan]
  <2>1. DOMAIN fan' = Jobs /\ fan' = [i \in Jobs |-> fan'[i]]
    BY DEF Noticed
  <2> QED
    BY <1>5, <2>1
<1> QED
  BY <1>5, <1>6 DEF FansOK

-----------------------------------------------------------------------------
(* Fan-outs.                                                               *)

LEMMA RequestStep ==
  ASSUME FanoutInv, NEW j \in Jobs, Request(j)
  PROVE  FanoutInv'
<1>1. PICK s : s = [fan[j] EXCEPT !.pc = "waiting"]
  OBVIOUS
<1>2. fan[j] \in Fan /\ FanOK(fan[j]) /\ fan[j].pc = "idle"
  BY DEF FanoutInv, FansOK, Request
<1>3. s \in Fan
  BY <1>1, <1>2, SetPc DEF Pcs
<1>4. s.pc = "waiting" /\ s.attempts = fan[j].attempts /\ s.stayed = fan[j].stayed
      /\ s.enqueued = fan[j].enqueued /\ s.kind = fan[j].kind
  BY <1>1, <1>2 DEF Fan
<1>5. FanOK(s)
  BY <1>2, <1>3, <1>4 DEF FanOK, Walking, Few
<1>6. fan' = [fan EXCEPT ![j] = s] /\ UNCHANGED table /\ UNCHANGED breaker
  BY <1>1 DEF Request
<1>7. FansOK'
  BY <1>5, <1>6, OneFan DEF FanoutInv, breaker, IsDomainDead
<1>8. IdsOK'
  BY DEF FanoutInv, IdsOK, Request, table, Followers
<1>9. RestOK'
  BY DEF FanoutInv, RestOK, Request, breaker
<1> QED
  BY <1>7, <1>8, <1>9 DEF FanoutInv

LEMMA FailPageStep ==
  ASSUME FanoutInv, NEW j \in Jobs, FailPage(j)
  PROVE  FanoutInv'
<1>1. fan[j].attempts \in 1..MaxAttempts
  BY Fields, Constants DEF FanoutInv, FansOK, FanOK, FailPage, Walking
<1>2. PICK s : FanOK(s) /\ AfterAttempt(j, fan[j].attempts) = [fan EXCEPT ![j] = s]
  BY <1>1, AfterAttemptIsOK
<1>3. PICK f : f = [fan EXCEPT ![j] = s]
  OBVIOUS
<1>4. f \in [Jobs -> Fan] /\ \A i \in Jobs : FanOK(f[i])
  <2>1. s \in Fan /\ fan \in [Jobs -> Fan]
    BY <1>2 DEF FanOK, FanoutInv, FansOK
  <2> QED
    BY <1>2, <1>3, <2>1 DEF FanoutInv, FansOK
<1>5. fan' = Noticed(f) /\ UNCHANGED table
  BY <1>2, <1>3 DEF FailPage
<1>6. FansOK'
  BY <1>4, <1>5, AllNotice DEF FanoutInv
<1>7. IdsOK'
  BY DEF FanoutInv, IdsOK, FailPage, table, Followers
<1>8. failures' \in [Domains -> 0..DeadThreshold] /\ recent' \in [Domains -> BOOLEAN]
  BY Failures DEF FailPage
<1>9. RestOK'
  BY <1>8 DEF FanoutInv, RestOK, FailPage
<1> QED
  BY <1>6, <1>7, <1>9 DEF FanoutInv

LEMMA CrashStep ==
  ASSUME FanoutInv, NEW j \in Jobs, Crash(j)
  PROVE  FanoutInv'
<1>1. fan[j].attempts \in 1..MaxAttempts
  BY Fields, Constants DEF FanoutInv, FansOK, FanOK, Crash, Walking
<1>2. PICK s : FanOK(s) /\ AfterAttempt(j, fan[j].attempts) = [fan EXCEPT ![j] = s]
  BY <1>1, AfterAttemptIsOK
<1>3. fan' = [fan EXCEPT ![j] = s] /\ UNCHANGED table /\ UNCHANGED breaker
  BY <1>2 DEF Crash
<1>4. FansOK'
  BY <1>2, <1>3, OneFan DEF FanoutInv, breaker, IsDomainDead
<1>5. IdsOK'
  BY DEF FanoutInv, IdsOK, Crash, table, Followers
<1>6. RestOK'
  BY DEF FanoutInv, RestOK, Crash, breaker
<1> QED
  BY <1>4, <1>5, <1>6 DEF FanoutInv

LEMMA RefuseStep ==
  ASSUME FanoutInv, NEW j \in Jobs, fan[j].pc = "waiting", Refuse(j), UNCHANGED <<table, breaker>>
  PROVE  FansOK'
<1>1. fan[j].attempts \in 0..MaxAttempts /\ fan[j].attempts < MaxAttempts /\ MaxAttempts \in Nat
  BY Fields, Constants DEF FanoutInv, FansOK, FanOK
<1>2. fan[j].attempts + 1 \in 1..MaxAttempts
  BY <1>1
<1>3. PICK s : FanOK(s) /\ AfterAttempt(j, fan[j].attempts + 1) = [fan EXCEPT ![j] = s]
  BY <1>2, AfterAttemptIsOK
<1> QED
  BY <1>3, OneFan DEF Refuse, FanoutInv, breaker, IsDomainDead

\* Whom a fan-out tells directly: each acct, and whoever else has to be told.
Whom == [to : Actors, via : SUBSET Mentioned]

LEMMA Directs ==
  ASSUME NEW accts \in SUBSET Mentioned, NEW others \in SUBSET Target,
         others \cap {ActorOf[m] : m \in accts} = {},
         NEW direct, direct = ToMentioned(accts) \cup ToActors(others),
         NEW a \in Actors, NEW own, own = {w \in direct : w.to = a}
  PROVE  /\ direct \subseteq Whom /\ IsFiniteSet(own) /\ Cardinality(own) \in Nat
         /\ Cardinality(own) <= 1 \/ Cardinality(own) <= Cardinality(Accts(a))
         /\ accts = {} => Cardinality(own) <= 1
<1>1. direct \subseteq Whom
  BY Constants DEF ToMentioned, ToActors, Whom
<1>2. CASE a \in {ActorOf[m] : m \in accts}
  <2>1. own = {[to |-> a, via |-> {m}] : m \in {n \in accts : ActorOf[n] = a}}
    BY <1>2 DEF ToMentioned, ToActors
  <2>2. PICK f : f = [w \in own |-> CHOOSE m \in Mentioned : w.via = {m}]
    OBVIOUS
  <2>3. ASSUME NEW w \in own PROVE f[w] \in Accts(a) /\ w = [to |-> a, via |-> {f[w]}]
    <3>1. PICK m \in Mentioned : w = [to |-> a, via |-> {m}] /\ ActorOf[m] = a
      BY <2>1
    <3>2. w.via = {m} /\ f[w] = CHOOSE n \in Mentioned : w.via = {n}
      BY <2>2, <3>1
    <3>3. f[w] \in Mentioned /\ w.via = {f[w]}
      BY <3>2
    <3>4. f[w] = m
      BY <3>2, <3>3
    <3> QED
      BY <3>1, <3>4 DEF Accts
  <2>4. f \in [own -> Accts(a)]
    BY <2>2, <2>3
  <2>5. \A v, w \in own : f[v] = f[w] => v = w
    BY <2>3
  <2>6. f \in Injection(own, Accts(a))
    BY <2>4, <2>5 DEF Injection, IsInjective
  <2>7. IsFiniteSet(Accts(a))
    BY Constants, FS_Subset DEF Accts
  <2>8. IsFiniteSet(own) /\ Cardinality(own) <= Cardinality(Accts(a))
    BY <2>6, <2>7, FS_Injection
  <2> QED
    BY <1>1, <1>2, <2>8, FS_CardinalityType
<1>3. CASE a \notin {ActorOf[m] : m \in accts}
  <2>1. own \subseteq {[to |-> a, via |-> {}]}
    BY <1>3 DEF ToMentioned, ToActors
  <2>2. IsFiniteSet({[to |-> a, via |-> {}]}) /\ Cardinality({[to |-> a, via |-> {}]}) = 1
    BY FS_Singleton
  <2>3. IsFiniteSet(own) /\ Cardinality(own) <= 1
    BY <2>1, <2>2, FS_Subset
  <2> QED
    BY <1>1, <2>3, FS_CardinalityType
<1> QED
  BY <1>2, <1>3

\* What Begin makes of a fan-out: nobody is passed but those who have been told,
\* or whose delivery Enqueue has lost.
LEMMA BeginStep ==
  ASSUME FanoutInv, NEW j \in Jobs, fan[j].pc = "waiting",
         NEW accts \in SUBSET Mentioned, NEW others \in SUBSET Target,
         others \cap {ActorOf[m] : m \in accts} = {},
         accts # {} => fan[j].kind \in {"deliver_post", "update_post"},
         NEW direct, direct = ToMentioned(accts) \cup ToActors(others),
         Begin(j, direct), UNCHANGED <<table, breaker>>
  PROVE  FansOK' /\ out' \subseteq Delivery /\ \A x \in out' : x.tries < MaxAttempts
<1>1. PICK lost \in SUBSET direct :
        /\ fan' = [fan EXCEPT ![j] =
                    [kind |-> fan[j].kind, pc |-> "reading", attempts |-> fan[j].attempts + 1, cursor |-> 0,
                     deadCache |-> [d \in Domains |-> "unknown"],
                     delivered |-> {w.to : w \in direct}, batch |-> {},
                     more |-> TRUE, stayed |-> Followers,
                     enqueued |-> [a \in Actors |-> Cardinality({w \in direct \ lost : w.to = a})],
                     wasDead |-> {d \in Domains : IsDomainDead(d)},
                     lost |-> {w.to : w \in lost}]]
        /\ out' = out \cup NewJobs(j, direct \ lost)
  BY DEF Begin, EnqueueBatch, Delivered
<1> DEFINE Sent(a) == {w \in direct \ lost : w.to = a}
<1>2. PICK counts : counts = [a \in Actors |-> Cardinality(Sent(a))]
  OBVIOUS
<1>3. PICK dead : dead = {d \in Domains : IsDomainDead(d)}
  OBVIOUS
<1>4. PICK stayed : stayed = Followers
  OBVIOUS
<1>5. PICK cache : cache = [d \in Domains |-> "unknown"]
  OBVIOUS
<1>6. PICK told : told = {w.to : w \in direct}
  OBVIOUS
<1>7. PICK gone : gone = {w.to : w \in lost}
  OBVIOUS
<1>8. fan[j].attempts \in 0..MaxAttempts /\ fan[j].attempts < MaxAttempts /\ MaxAttempts \in Nat \ {0}
      /\ fan[j].kind \in Kinds
  BY Fields, Constants DEF FanoutInv, FansOK, FanOK
<1>9. PICK n : n = fan[j].attempts + 1
  OBVIOUS
<1>10. PICK kind : kind = fan[j].kind
  OBVIOUS
<1>11. n \in 1..MaxAttempts /\ kind \in Kinds
  BY <1>8, <1>9, <1>10
<1>12. ASSUME NEW a \in Actors
       PROVE  /\ Cardinality(Sent(a)) \in Nat /\ (Cardinality(Sent(a)) = 0 <=> Sent(a) = {})
              /\ Cardinality(Sent(a)) <= 1 \/ Cardinality(Sent(a)) <= Cardinality(Accts(a))
              /\ accts = {} => Cardinality(Sent(a)) <= 1
  <2>1. PICK own : own = {w \in direct : w.to = a}
    OBVIOUS
  <2>2. /\ IsFiniteSet(own) /\ Cardinality(own) \in Nat
        /\ Cardinality(own) <= 1 \/ Cardinality(own) <= Cardinality(Accts(a))
        /\ accts = {} => Cardinality(own) <= 1
    BY <2>1, Directs
  <2>3. Sent(a) \subseteq own
    BY <2>1
  <2>4. IsFiniteSet(Sent(a)) /\ Cardinality(Sent(a)) <= Cardinality(own)
    BY <2>2, <2>3, FS_Subset
  <2>5. Cardinality(Sent(a)) \in Nat /\ (Cardinality(Sent(a)) = 0 <=> Sent(a) = {})
    BY <2>4, FS_CardinalityType, FS_EmptySet
  <2>6. Cardinality(Accts(a)) \in Nat
    BY Constants, FS_Subset, FS_CardinalityType DEF Accts
  <2> HIDE DEF Sent
  <2> QED
    BY <2>2, <2>4, <2>5, <2>6
<1>13. direct \subseteq Whom
  <2>1. CASE Actors = {}
    BY <2>1, IdsAreUnique
  <2>2. ASSUME NEW a \in Actors PROVE direct \subseteq Whom
    BY <2>2, Directs
  <2> QED
    BY <2>1, <2>2
<1>14. counts \in [Actors -> Nat] /\ dead \in SUBSET Domains /\ stayed \in SUBSET Actors /\ cache \in Caches
       /\ told \in SUBSET Actors /\ gone \in SUBSET Actors /\ 0 \in 0..MaxId
  <2>1. counts \in [Actors -> Nat]
    BY <1>2, <1>12
  <2>2. told \in SUBSET Actors /\ gone \in SUBSET Actors
    BY <1>6, <1>7, <1>13 DEF Whom
  <2> QED
    BY <2>1, <2>2, <1>3, <1>4, <1>5, Constants DEF Followers, Caches
<1>15. PICK s : s = [kind |-> kind, pc |-> "reading", attempts |-> n, cursor |-> 0,
                     deadCache |-> cache, delivered |-> told, batch |-> {},
                     more |-> TRUE, stayed |-> stayed, enqueued |-> counts, wasDead |-> dead, lost |-> gone]
  OBVIOUS
<1>16. s \in Fan
  BY <1>8, <1>11, <1>14, <1>15 DEF Fan, Caches
<1>17. s.pc = "reading" /\ s.kind = kind /\ s.cursor = 0 /\ s.deadCache = cache /\ s.delivered = told
       /\ s.batch = {} /\ s.stayed = stayed /\ s.enqueued = counts /\ s.wasDead = dead /\ s.lost = gone
       /\ s.attempts = n
  BY <1>15
<1>18. DeadIsKnown(s)
  BY <1>3, <1>5, <1>17 DEF DeadIsKnown
<1>19. ASSUME NEW a \in s.stayed
       PROVE  /\ Few(s, a) /\ a \notin s.batch
              /\ Given(s, a) => Covered(s, a)
              /\ Covered(s, a) => Given(s, a) \/ Excused(s, a)
  <2>1. a \in Actors /\ follower[a] # 0 /\ follower[a] \in Nat
    BY <1>4, <1>17, Constants DEF Followers, FanoutInv, IdsOK
  <2>2. s.enqueued[a] = Cardinality(Sent(a))
    BY <1>2, <1>17, <2>1
  <2>3. Given(s, a) <=> Sent(a) # {}
    <3> HIDE DEF Sent
    <3> QED
      BY <1>12, <1>17, <2>1, <2>2 DEF Given
  <2>4. Covered(s, a) <=> a \in told
    BY <1>17, <2>1 DEF Covered
  <2>5. Sent(a) # {} => a \in told
    BY <1>6
  <2>6. a \in told => Sent(a) # {} \/ a \in gone
    BY <1>6, <1>7
  <2>7. Few(s, a)
    <3> HIDE DEF Sent
    <3> QED
      BY <1>10, <1>12, <1>17, <2>1, <2>2 DEF Few
  <2> HIDE DEF Sent
  <2> QED
    BY <1>17, <2>3, <2>4, <2>5, <2>6, <2>7 DEF Excused
<1>20. FanOK(s)
  BY <1>4, <1>11, <1>16, <1>17, <1>18, <1>19 DEF FanOK, WalkOK
<1>21. fan' = [fan EXCEPT ![j] = s]
  BY <1>1, <1>2, <1>3, <1>4, <1>5, <1>6, <1>7, <1>9, <1>10, <1>15
<1>22. FansOK'
  BY <1>20, <1>21, OneFan DEF FanoutInv, breaker, IsDomainDead
<1>23. NewJobs(j, direct \ lost) \subseteq Delivery /\ \A x \in NewJobs(j, direct \ lost) : x.tries < MaxAttempts
  BY <1>8, <1>13 DEF NewJobs, Delivery, Whom
<1> QED
  BY <1>1, <1>22, <1>23 DEF FanoutInv, RestOK

LEMMA DeliverPostStep ==
  ASSUME FanoutInv, NEW j \in Jobs, DeliverPost(j)
  PROVE  FanoutInv'
<1>1. fan[j].pc = "waiting" /\ fan[j].kind = "deliver_post" /\ UNCHANGED <<table, breaker>> /\ UNCHANGED post
  BY DEF DeliverPost, Claimed
<1>2. FansOK' /\ (mentions' \subseteq Mentioned) /\ out' \subseteq Delivery
      /\ \A x \in out' : x.tries < MaxAttempts
  <2>1. CASE post = "gone"
    <3>1. Refuse(j) /\ mentions' = mentions /\ out' = out
      BY <2>1 DEF DeliverPost, Refuse
    <3>2. FansOK'
      BY <1>1, <3>1, RefuseStep
    <3> QED
      BY <3>1, <3>2 DEF FanoutInv, RestOK
  <2>2. CASE post # "gone"
    <3>1. PICK resolved \in SUBSET Mentioned :
            /\ Begin(j, ToMentioned(resolved) \cup ToActors(Target \ {ActorOf[m] : m \in resolved}))
            /\ mentions' = IF resolved = {} THEN mentions ELSE resolved
      BY <2>2 DEF DeliverPost
    <3>2. PICK others : others = Target \ {ActorOf[m] : m \in resolved}
      OBVIOUS
    <3>3. others \in SUBSET Target /\ others \cap {ActorOf[m] : m \in resolved} = {}
      BY <3>2
    <3>4. Begin(j, ToMentioned(resolved) \cup ToActors(others))
      BY <3>1, <3>2
    <3>5. FansOK' /\ out' \subseteq Delivery /\ \A x \in out' : x.tries < MaxAttempts
      BY <1>1, <3>3, <3>4, BeginStep
    <3> QED
      BY <3>1, <3>5 DEF FanoutInv, RestOK
  <2> QED
    BY <2>1, <2>2
<1>3. IdsOK'
  BY <1>1 DEF FanoutInv, IdsOK, table, Followers
<1>4. RestOK'
  BY <1>1, <1>2 DEF FanoutInv, RestOK, breaker
<1> QED
  BY <1>2, <1>3, <1>4 DEF FanoutInv

LEMMA UpdatePostStep ==
  ASSUME FanoutInv, NEW j \in Jobs, UpdatePost(j)
  PROVE  FanoutInv'
<1>1. fan[j].pc = "waiting" /\ fan[j].kind = "update_post" /\ UNCHANGED <<table, breaker>>
      /\ UNCHANGED post /\ UNCHANGED mentions
  BY DEF UpdatePost, Claimed, Refuse
<1>2. FansOK' /\ out' \subseteq Delivery /\ \A x \in out' : x.tries < MaxAttempts
  <2>1. CASE post = "gone"
    <3>1. Refuse(j) /\ out' = out
      BY <2>1 DEF UpdatePost, Refuse
    <3>2. FansOK'
      BY <1>1, <3>1, RefuseStep
    <3> QED
      BY <3>1, <3>2 DEF FanoutInv, RestOK
  <2>2. CASE post # "gone"
    <3>1. PICK others : others = Target \ {ActorOf[m] : m \in mentions}
      OBVIOUS
    <3>2. others \in SUBSET Target /\ others \cap {ActorOf[m] : m \in mentions} = {}
          /\ mentions \in SUBSET Mentioned
      BY <3>1 DEF FanoutInv, RestOK
    <3>3. Begin(j, ToMentioned(mentions) \cup ToActors(others))
      BY <2>2, <3>1 DEF UpdatePost
    <3> QED
      BY <1>1, <3>2, <3>3, BeginStep
  <2> QED
    BY <2>1, <2>2
<1>3. IdsOK'
  BY <1>1 DEF FanoutInv, IdsOK, table, Followers
<1>4. RestOK'
  BY <1>1, <1>2 DEF FanoutInv, RestOK, breaker
<1> QED
  BY <1>2, <1>3, <1>4 DEF FanoutInv

\* The kinds that resolve nobody and need no post.
LEMMA PlainStep ==
  ASSUME FanoutInv, NEW j \in Jobs,
         UpdateActor(j) \/ DeliverDelete(j) \/ SendAnnounce(j) \/ SendUndoAnnounce(j)
  PROVE  FanoutInv'
<1>1. fan[j].pc = "waiting" /\ UNCHANGED <<table, breaker>> /\ UNCHANGED post /\ UNCHANGED mentions
  BY DEF UpdateActor, DeliverDelete, SendAnnounce, SendUndoAnnounce, Claimed
<1>2. ToMentioned({}) \cup ToActors({}) = {} /\ ToMentioned({}) \cup ToActors(Target) = ToActors(Target)
  BY DEF ToMentioned, ToActors
<1>3. \E others \in SUBSET Target : Begin(j, ToMentioned({}) \cup ToActors(others))
  <2>1. CASE UpdateActor(j) \/ DeliverDelete(j)
    <3>1. Begin(j, ToMentioned({}) \cup ToActors({}))
      BY <1>2, <2>1 DEF UpdateActor, DeliverDelete
    <3> QED
      BY <3>1
  <2>2. CASE SendAnnounce(j) \/ SendUndoAnnounce(j)
    <3>1. Begin(j, ToMentioned({}) \cup ToActors(Target))
      BY <1>2, <2>2 DEF SendAnnounce, SendUndoAnnounce
    <3> QED
      BY <3>1
  <2> QED
    BY <2>1, <2>2
<1>4. PICK others \in SUBSET Target : Begin(j, ToMentioned({}) \cup ToActors(others))
  BY <1>3
<1>5. others \cap {ActorOf[m] : m \in {}} = {}
  OBVIOUS
<1>6. FansOK' /\ out' \subseteq Delivery /\ \A x \in out' : x.tries < MaxAttempts
  BY <1>1, <1>4, <1>5, BeginStep
<1>7. IdsOK'
  BY <1>1 DEF FanoutInv, IdsOK, table, Followers
<1>8. RestOK'
  BY <1>1, <1>6 DEF FanoutInv, RestOK, breaker
<1> QED
  BY <1>6, <1>7, <1>8 DEF FanoutInv

\* A page is read: whom the cursor passes is given a delivery, has one, or is
\* of a domain the walk has found dead.
LEMMA ReadPageStep ==
  ASSUME FanoutInv, NEW j \in Jobs, ReadPage(j)
  PROVE  FanoutInv'
<1> DEFINE r == fan[j]
           page == ListFollowersPaged(r.cursor)
           known == [d \in Domains |->
                       IF r.deadCache[d] # "unknown" \/ d \notin {DomainOf[a] : a \in page}
                       THEN r.deadCache[d]
                       ELSE IF IsDomainDead(d) THEN "dead" ELSE "alive"]
           wanted == {a \in page : known[DomainOf[a]] = "alive"} \ r.delivered
           told == IF Announcing(r)
                   THEN r.delivered \cup wanted ELSE r.delivered
           m == Cardinality(page) = PageSize
           c == NextCursor(r.cursor, page, wanted)
<1>1. PICK s : s = [r EXCEPT !.pc = "writing", !.deadCache = known, !.batch = wanted, !.delivered = told,
                              !.more = m, !.cursor = c]
  OBVIOUS
<1>2. fan' = [fan EXCEPT ![j] = s] /\ UNCHANGED table /\ UNCHANGED breaker
  BY <1>1 DEF ReadPage
<1>3. r = fan[j]
  OBVIOUS
<1>4. page = ListFollowersPaged(r.cursor)
  OBVIOUS
<1>5. known = [d \in Domains |->
                IF r.deadCache[d] # "unknown" \/ d \notin {DomainOf[a] : a \in page}
                THEN r.deadCache[d]
                ELSE IF IsDomainDead(d) THEN "dead" ELSE "alive"]
  OBVIOUS
<1>6. wanted = {a \in page : known[DomainOf[a]] = "alive"} \ r.delivered
  OBVIOUS
<1>7. told = IF Announcing(r)
             THEN r.delivered \cup wanted ELSE r.delivered
  OBVIOUS
<1>8. m <=> Cardinality(page) = PageSize
  OBVIOUS
<1>9. c = IF page = {} THEN r.cursor ELSE Max({follower[a] : a \in page})
  BY DEF NextCursor
<1> HIDE DEF r, page, known, wanted, told, m, c
<1>10. r \in Fan /\ FanOK(r) /\ r.pc = "reading" /\ DeadIsKnown(r) /\ WalkOK(r) /\ r.batch = {}
      /\ r.stayed \subseteq Followers
  BY <1>3 DEF FanoutInv, FansOK, ReadPage, FanOK, Walking
<1>11. r.cursor \in 0..MaxId /\ r.deadCache \in Caches /\ r.delivered \in SUBSET Actors
      /\ r.enqueued \in [Actors -> Nat] /\ IdsOK /\ Followers \subseteq Actors
  BY <1>10, Fields DEF FanoutInv, Followers
<1>12. /\ page \subseteq Followers /\ IsFiniteSet(page)
       /\ \A a \in page : follower[a] > r.cursor
       /\ \A a \in page, b \in Followers :
            r.cursor < follower[b] /\ follower[b] <= follower[a] => b \in page
       /\ Cardinality(page) # PageSize => \A b \in Followers : follower[b] > r.cursor => b \in page
  BY <1>11, <1>4, Pages
<1>13. \A a \in Followers : follower[a] \in 0..MaxId /\ follower[a] \in Nat
  BY Constants DEF FanoutInv, IdsOK, Followers
<1>14. /\ c \in 0..MaxId /\ r.cursor <= c /\ \A a \in page : follower[a] <= c
       /\ c # r.cursor => \E a \in page : follower[a] = c
  <2>1. CASE page = {}
    BY <1>11, <1>9, <2>1, Constants
  <2>2. CASE page # {}
    <3>1. {follower[a] : a \in page} \in SUBSET (0..MaxId) /\ {follower[a] : a \in page} # {}
      BY <1>12, <1>13, <2>2
    <3>2. c \in {follower[a] : a \in page} /\ \A y \in {follower[a] : a \in page} : y <= c
      BY <1>9, <2>2, <3>1, Constants, Greatest
    <3>3. PICK a \in page : follower[a] = c
      BY <3>2
    <3>4. c \in 0..MaxId /\ r.cursor <= c
      BY <1>11, <1>12, <1>13, <3>3, Constants
    <3> QED
      BY <3>2, <3>3, <3>4
  <2> QED
    BY <2>1, <2>2
<1>15. /\ known \in Caches
       /\ \A d \in Domains : known[d] = "dead" => r.deadCache[d] = "dead" \/ IsDomainDead(d)
       /\ \A a \in page : DomainOf[a] \in Domains /\ known[DomainOf[a]] \in {"dead", "alive"}
  <2>1. \A d \in Domains : r.deadCache[d] \in {"unknown", "dead", "alive"}
    BY <1>11 DEF Caches
  <2>2. \A d \in Domains : known[d] = IF r.deadCache[d] # "unknown" \/ d \notin {DomainOf[a] : a \in page}
                     THEN r.deadCache[d]
                     ELSE IF IsDomainDead(d) THEN "dead" ELSE "alive"
    BY <1>5
  <2>3. known \in Caches
    BY <1>5, <2>1 DEF Caches
  <2>4. \A a \in page : DomainOf[a] \in Domains
    BY <1>11, <1>12, Constants
  <2>5. \A a \in page : known[DomainOf[a]] \in {"dead", "alive"}
    BY <2>1, <2>2, <2>4
  <2> QED
    BY <2>2, <2>3, <2>4, <2>5
<1>16. wanted \in SUBSET Actors /\ told \in SUBSET Actors /\ m \in BOOLEAN /\ wanted \subseteq page
       /\ wanted \cap r.delivered = {}
       /\ r.delivered \subseteq told /\ told \subseteq r.delivered \cup wanted
  BY <1>11, <1>12, <1>6, <1>7, <1>8
<1>17. /\ s \in Fan
       /\ s.pc = "writing" /\ s.deadCache = known /\ s.batch = wanted /\ s.delivered = told
       /\ s.more = m /\ s.cursor = c
       /\ s.kind = r.kind /\ s.attempts = r.attempts /\ s.stayed = r.stayed /\ s.enqueued = r.enqueued
       /\ s.wasDead = r.wasDead /\ s.lost = r.lost
  <2> DEFINE s1 == [r EXCEPT !.pc = "writing"]
             s2 == [s1 EXCEPT !.deadCache = known]
             s3 == [s2 EXCEPT !.batch = wanted]
             s4 == [s3 EXCEPT !.delivered = told]
             s5 == [s4 EXCEPT !.more = m]
  <2>1. s1 \in Fan
    BY <1>10, SetPc DEF Pcs
  <2>2. s2 \in Fan
    BY <1>15, <2>1, SetDeadCache
  <2>3. s3 \in Fan
    BY <1>16, <2>2, SetBatch
  <2>4. s4 \in Fan
    BY <1>16, <2>3, SetDelivered
  <2>5. s5 \in Fan
    BY <1>16, <2>4, SetMore
  <2>6. s = [s5 EXCEPT !.cursor = c]
    BY <1>1
  <2>7. s \in Fan
    BY <1>14, <2>5, <2>6, SetCursor
  <2>8. /\ s.pc = "writing" /\ s.deadCache = known /\ s.batch = wanted /\ s.delivered = told
        /\ s.more = m /\ s.cursor = c
        /\ s.kind = r.kind /\ s.attempts = r.attempts /\ s.stayed = r.stayed /\ s.enqueued = r.enqueued
        /\ s.wasDead = r.wasDead /\ s.lost = r.lost
    BY <1>10, <1>1 DEF Fan
  <2> QED
    BY <2>7, <2>8
<1>18. DeadIsKnown(s)
  BY <1>10, <1>15, <1>17 DEF DeadIsKnown
<1>19. ASSUME NEW a \in s.stayed
       PROVE  /\ a \in s.batch => s.enqueued[a] = 0
              /\ Given(s, a) => Covered(s, a)
              /\ Covered(s, a) => Given(s, a) \/ Excused(s, a)
  <2>1. a \in r.stayed /\ a \in Followers /\ a \in Actors /\ follower[a] \in Nat /\ r.enqueued[a] \in Nat
        /\ r.cursor \in Nat /\ c \in Nat /\ DomainOf[a] \in Domains
    BY <1>10, <1>11, <1>13, <1>14, <1>17, Constants
  <2>2. /\ Given(r, a) => Covered(r, a)
        /\ Covered(r, a) => Given(r, a) \/ Excused(r, a)
    BY <1>10, <2>1 DEF WalkOK
  <2>3. Given(r, a) <=> r.enqueued[a] > 0
    BY <1>10 DEF Given
  <2>4. Given(s, a) <=> r.enqueued[a] > 0 \/ a \in wanted
    BY <1>17 DEF Given
  <2>5. Covered(r, a) <=> a \in r.delivered \/ follower[a] <= r.cursor
    BY DEF Covered
  <2>6. Covered(s, a) <=> a \in told \/ follower[a] <= c
    BY <1>17 DEF Covered
  <2>7. Excused(s, a) <=> Excused(r, a)
    BY <1>17 DEF Excused
  <2>8. a \in wanted => ~Covered(r, a)
    BY <1>12, <1>16, <2>1, <2>5
  <2>9. a \in wanted => s.enqueued[a] = 0
    BY <1>17, <2>1, <2>2, <2>3, <2>8
  <2>10. Given(s, a) => Covered(s, a)
    BY <1>14, <1>16, <2>1, <2>2, <2>3, <2>4, <2>5, <2>6
  <2>11. ASSUME Covered(s, a), ~Covered(r, a), a \notin wanted PROVE Excused(s, a)
    <3>1. a \notin told /\ follower[a] <= c /\ follower[a] > r.cursor /\ a \notin r.delivered
      BY <1>16, <2>1, <2>5, <2>6, <2>11
    <3>2. PICK b \in page : follower[b] = c
      BY <1>14, <2>1, <3>1
    <3>3. a \in page
      BY <1>12, <2>1, <3>1, <3>2
    <3>4. known[DomainOf[a]] = "dead"
      BY <1>6, <1>15, <2>11, <3>1, <3>3
    <3>5. DomainOf[a] \in s.wasDead
      BY <1>17, <1>18, <2>1, <3>4 DEF DeadIsKnown
    <3> QED
      BY <3>5 DEF Excused
  <2>12. Covered(s, a) => Given(s, a) \/ Excused(s, a)
    BY <2>2, <2>3, <2>4, <2>7, <2>11
  <2> QED
    BY <1>17, <2>9, <2>10, <2>12
<1>20. ASSUME ~s.more, NEW a \in s.stayed PROVE Covered(s, a)
  <2>1. Cardinality(page) # PageSize /\ a \in Followers
    BY <1>10, <1>8, <1>17, <1>20
  <2>2. follower[a] > r.cursor => a \in page
    BY <1>12, <2>1
  <2>3. follower[a] <= c
    BY <1>11, <1>13, <1>14, <2>1, <2>2
  <2> QED
    BY <1>17, <2>3 DEF Covered
<1>21. s.attempts > 0 /\ \A a \in s.stayed : Few(s, a)
  BY <1>10, <1>17 DEF FanOK, Few, Walking
<1>22. FanOK(s)
  BY <1>10, <1>17, <1>18, <1>19, <1>20, <1>21 DEF FanOK, WalkOK, Walking
<1>23. FansOK'
  BY <1>2, <1>22, OneFan DEF FanoutInv, breaker, IsDomainDead
<1>24. IdsOK'
  BY DEF FanoutInv, IdsOK, ReadPage, table, Followers
<1>25. RestOK'
  BY DEF FanoutInv, RestOK, ReadPage, breaker
<1> QED
  BY <1>23, <1>24, <1>25 DEF FanoutInv

\* A page is written: whoever is in the batch has no delivery yet.
LEMMA WritePageStep ==
  ASSUME FanoutInv, NEW j \in Jobs, WritePage(j)
  PROVE  FanoutInv'
<1>1. PICK r : r = fan[j]
  OBVIOUS
<1>2. r \in Fan /\ FanOK(r) /\ r.pc = "writing" /\ DeadIsKnown(r) /\ WalkOK(r)
      /\ r.stayed \subseteq Followers /\ \A a \in r.stayed : Few(r, a)
  BY <1>1 DEF FanoutInv, FansOK, WritePage, FanOK, Walking
<1>3. r.enqueued \in [Actors -> Nat] /\ r.batch \in SUBSET Actors /\ r.stayed \in SUBSET Actors
      /\ r.attempts \in 0..MaxAttempts /\ r.more \in BOOLEAN
  BY <1>2, Fields
<1>4. PICK p : p = IF r.more THEN "reading" ELSE "done"
  OBVIOUS
<1>5. PICK counts : counts = [a \in Actors |-> r.enqueued[a] + IF a \in r.batch THEN 1 ELSE 0]
  OBVIOUS
<1>6. PICK s : s = [r EXCEPT !.pc = p, !.batch = {}, !.enqueued = counts]
  OBVIOUS
<1>7. /\ fan' = [fan EXCEPT ![j] = s] /\ UNCHANGED table
      /\ failures' \in [Domains -> 0..DeadThreshold] /\ recent' \in [Domains -> BOOLEAN]
      /\ \A e \in Domains : IsDomainDead(e)' => IsDomainDead(e)
  BY <1>1, <1>4, <1>5, <1>6, Resets DEF WritePage
<1>8. \A a \in Actors : counts[a] \in Nat /\ counts[a] = r.enqueued[a] + IF a \in r.batch THEN 1 ELSE 0
  BY <1>3, <1>5
<1>9. p \in Pcs /\ counts \in [Actors -> Nat]
  BY <1>4, <1>5, <1>8 DEF Pcs
<1>10. /\ s \in Fan
       /\ s.pc = p /\ s.batch = {} /\ s.enqueued = counts
       /\ s.kind = r.kind /\ s.attempts = r.attempts /\ s.stayed = r.stayed /\ s.delivered = r.delivered
       /\ s.cursor = r.cursor /\ s.deadCache = r.deadCache
       /\ s.wasDead = r.wasDead /\ s.lost = r.lost
  <2> DEFINE s1 == [r EXCEPT !.pc = p]
             s2 == [s1 EXCEPT !.batch = {}]
  <2>1. s1 \in Fan
    BY <1>2, <1>9, SetPc
  <2>2. s2 \in Fan
    BY <2>1, SetBatch
  <2>3. s = [s2 EXCEPT !.enqueued = counts]
    BY <1>6
  <2>4. s \in Fan
    BY <1>9, <2>2, <2>3, SetEnqueued
  <2>5. /\ s.pc = p /\ s.batch = {} /\ s.enqueued = counts
        /\ s.kind = r.kind /\ s.attempts = r.attempts /\ s.stayed = r.stayed /\ s.delivered = r.delivered
        /\ s.cursor = r.cursor /\ s.deadCache = r.deadCache
        /\ s.wasDead = r.wasDead /\ s.lost = r.lost
    BY <1>2, <1>6 DEF Fan
  <2> QED
    BY <2>4, <2>5
<1>11. ASSUME NEW a \in s.stayed
       PROVE  /\ Few(s, a) /\ a \notin s.batch
              /\ Given(s, a) <=> s.enqueued[a] > 0
              /\ Given(s, a) <=> Given(r, a)
              /\ Covered(s, a) <=> Covered(r, a)
              /\ Excused(s, a) <=> Excused(r, a)
  <2>1. a \in r.stayed /\ a \in Actors /\ r.enqueued[a] \in Nat /\ Few(r, a)
    BY <1>2, <1>3, <1>10
  <2>2. a \in r.batch => r.enqueued[a] = 0
    BY <1>2, <2>1 DEF WalkOK
  <2>3. s.enqueued[a] = r.enqueued[a] + IF a \in r.batch THEN 1 ELSE 0
    BY <1>8, <1>10, <2>1
  <2>4. Given(s, a) <=> s.enqueued[a] > 0
    BY <1>10 DEF Given
  <2>5. s.enqueued[a] > 0 <=> r.enqueued[a] > 0 \/ a \in r.batch
    BY <2>1, <2>3
  <2>6. Few(s, a)
    BY <1>10, <2>1, <2>2, <2>3 DEF Few
  <2> QED
    BY <1>10, <2>4, <2>5, <2>6 DEF Given, Covered, Excused
<1>12. \A a \in r.stayed : /\ Given(r, a) => Covered(r, a)
                           /\ Covered(r, a) => Given(r, a) \/ Excused(r, a)
  BY <1>2 DEF WalkOK
<1>13. WalkOK(s) /\ DeadIsKnown(s)
  BY <1>2, <1>10, <1>11, <1>12 DEF WalkOK, DeadIsKnown
<1>14. ASSUME s.pc = "done", NEW a \in s.stayed PROVE s.enqueued[a] > 0 \/ Excused(s, a)
  <2>1. ~r.more /\ a \in r.stayed
    BY <1>4, <1>10, <1>14
  <2>2. Covered(r, a)
    BY <1>2, <2>1 DEF FanOK
  <2> QED
    BY <1>11, <1>12, <2>1, <2>2
<1>15. p \in {"reading", "done"}
  BY <1>4
<1>16. FanOK(s)
  BY <1>2, <1>10, <1>11, <1>13, <1>14, <1>15 DEF FanOK, Walking
<1>17. FansOK'
  BY <1>7, <1>16, OneFan DEF FanoutInv
<1>18. IdsOK'
  BY DEF FanoutInv, IdsOK, WritePage, table, Followers
<1>19. NewJobs(j, ToActors(r.batch)) \subseteq Delivery
       /\ \A x \in NewJobs(j, ToActors(r.batch)) : x.tries < MaxAttempts
  BY <1>3, Constants DEF NewJobs, ToActors, Delivery
<1>20. RestOK'
  BY <1>1, <1>7, <1>19 DEF FanoutInv, RestOK, WritePage, EnqueueBatch
<1> QED
  BY <1>17, <1>18, <1>20 DEF FanoutInv

-----------------------------------------------------------------------------
(* Deliveries.                                                             *)

LEMMA SucceedStep ==
  ASSUME FanoutInv, NEW x \in out, Succeed(x), UNCHANGED post
  PROVE  FanoutInv'
<1>1. /\ failures' \in [Domains -> 0..DeadThreshold] /\ recent' \in [Domains -> BOOLEAN]
      /\ \A e \in Domains : IsDomainDead(e)' => IsDomainDead(e)
  BY Resets DEF Succeed
<1>2. FansOK'
  BY <1>1, NoFan DEF FanoutInv, Succeed
<1>3. IdsOK'
  BY DEF FanoutInv, IdsOK, Succeed, table, Followers
<1>4. RestOK'
  BY <1>1 DEF FanoutInv, RestOK, Succeed
<1> QED
  BY <1>2, <1>3, <1>4 DEF FanoutInv

LEMMA FailStep ==
  ASSUME FanoutInv, NEW x \in out, Fail(x)
  PROVE  FanoutInv'
<1>1. failures' \in [Domains -> 0..DeadThreshold] /\ recent' \in [Domains -> BOOLEAN]
  BY Failures DEF Fail
<1>2. UNCHANGED table /\ UNCHANGED post /\ UNCHANGED mentions /\ fan' = Noticed(fan)
  BY DEF Fail
<1>3. FansOK'
  BY <1>2, AllNotice DEF FanoutInv, FansOK
<1>4. IdsOK'
  BY <1>2 DEF FanoutInv, IdsOK, table, Followers
<1>5. MaxAttempts \in Nat
  BY Constants
<1>6. x \in Delivery /\ x.tries < MaxAttempts /\ x.tries \in 0..MaxAttempts /\ MaxAttempts \in Nat
  BY Constants DEF FanoutInv, RestOK, Delivery
<1>7. x.tries + 1 # MaxAttempts =>
        [x EXCEPT !.tries = x.tries + 1] \in Delivery /\ [x EXCEPT !.tries = x.tries + 1].tries < MaxAttempts
  BY <1>6 DEF Delivery
<1>8. out' \subseteq Delivery /\ \A y \in out' : y.tries < MaxAttempts
  BY <1>6, <1>7 DEF FanoutInv, RestOK, Fail
<1>9. RestOK'
  BY <1>1, <1>2, <1>8 DEF FanoutInv, RestOK
<1> QED
  BY <1>3, <1>4, <1>9 DEF FanoutInv

LEMMA DeliverStep ==
  ASSUME FanoutInv, NEW x \in out, Deliver(x)
  PROVE  FanoutInv'
<1>1. Succeed(x) \/ Fail(x)
  BY DEF Deliver, DeliverNote, DeliverUpdateNote, DeliverDeleteNote, DeliverUpdate, DeliverAnnounce, Send
<1>2. Succeed(x) => UNCHANGED post
  BY DEF Succeed
<1> QED
  BY <1>1, <1>2, SucceedStep, FailStep

-----------------------------------------------------------------------------
(* Followers, the clock and the administrator.                             *)

LEMMA WindowPassesStep ==
  ASSUME FanoutInv, NEW d \in Domains, WindowPasses(d)
  PROVE  FanoutInv'
<1>1. recent \in [Domains -> BOOLEAN] /\ recent' = [recent EXCEPT ![d] = FALSE] /\ failures' = failures
  BY DEF FanoutInv, RestOK, WindowPasses
<1>2. recent' \in [Domains -> BOOLEAN]
  BY <1>1
<1>3. ASSUME NEW e \in Domains, IsDomainDead(e)' PROVE IsDomainDead(e)
  <2>1. recent'[d] = FALSE
    BY <1>1
  <2>2. e # d
    BY <1>3, <2>1, Zenon DEF IsDomainDead
  <2>3. recent'[e] = recent[e]
    BY <1>1, <2>2, Zenon
  <2> QED
    BY <1>1, <1>3, <2>3 DEF IsDomainDead
<1>4. FansOK'
  BY <1>3, NoFan DEF FanoutInv, WindowPasses
<1>5. IdsOK'
  BY DEF FanoutInv, IdsOK, WindowPasses, table, Followers
<1>6. RestOK'
  BY <1>2 DEF FanoutInv, RestOK, WindowPasses
<1> QED
  BY <1>4, <1>5, <1>6 DEF FanoutInv

LEMMA ResetFailureStep ==
  ASSUME FanoutInv, NEW d \in Domains, ResetFailure(d)
  PROVE  FanoutInv'
<1>1. /\ failures' \in [Domains -> 0..DeadThreshold] /\ recent' \in [Domains -> BOOLEAN]
      /\ \A e \in Domains : IsDomainDead(e)' => IsDomainDead(e)
  BY Resets DEF ResetFailure
<1>2. FansOK'
  BY <1>1, NoFan DEF FanoutInv, ResetFailure
<1>3. IdsOK'
  BY DEF FanoutInv, IdsOK, ResetFailure, table, Followers
<1>4. RestOK'
  BY <1>1 DEF FanoutInv, RestOK, ResetFailure
<1> QED
  BY <1>2, <1>3, <1>4 DEF FanoutInv

LEMMA JoinStep ==
  ASSUME FanoutInv, NEW a \in Actors, Join(a)
  PROVE  FanoutInv'
<1>1. /\ follower \in [Actors -> 0..MaxId] /\ lastId \in 0..MaxId /\ MaxId \in Nat
      /\ \A b \in Actors : follower[b] <= lastId /\ follower[b] \in Nat
      /\ \A b, c \in Followers : follower[b] = follower[c] => b = c
      /\ follower[a] = 0 /\ lastId < MaxId /\ lastId' = lastId + 1
      /\ follower' = [follower EXCEPT ![a] = lastId + 1]
  BY Constants DEF FanoutInv, IdsOK, Join, Followers
<1>2. follower' \in [Actors -> 0..MaxId] /\ lastId' \in 0..MaxId
      /\ follower'[a] = lastId + 1 /\ \A b \in Actors \ {a} : follower'[b] = follower[b]
  BY <1>1
<1>3. \A b \in Actors : follower'[b] <= lastId'
  BY <1>1, <1>2
<1>4. Followers' = Followers \cup {a} /\ a \notin Followers /\ Followers \subseteq Actors
  BY <1>1, <1>2 DEF Followers
<1>5. ASSUME NEW b \in Followers', NEW c \in Followers', follower'[b] = follower'[c] PROVE b = c
  <2>1. CASE b # a /\ c # a
    BY <1>1, <1>2, <1>4, <1>5, <2>1
  <2>2. CASE b = a /\ c # a
    BY <1>1, <1>2, <1>4, <1>5, <2>2
  <2>3. CASE b # a /\ c = a
    BY <1>1, <1>2, <1>4, <1>5, <2>3
  <2> QED
    BY <2>1, <2>2, <2>3
<1>6. IdsOK'
  BY <1>2, <1>3, <1>5 DEF IdsOK
<1>7. RestOK'
  BY DEF FanoutInv, RestOK, Join, breaker
<1>8. ASSUME NEW r, FanOK(r) PROVE FanOK(r)'
  <2>1. r.stayed \subseteq Followers /\ a \notin r.stayed
    BY <1>4, <1>8 DEF FanOK
  <2>2. \A b \in r.stayed : Covered(r, b)' <=> Covered(r, b)
    BY <1>2, <1>4, <2>1 DEF Covered
  <2>3. WalkOK(r) => WalkOK(r)'
    BY <2>2 DEF WalkOK, Given, Excused
  <2>4. DeadIsKnown(r) => DeadIsKnown(r)'
    BY DEF DeadIsKnown, IsDomainDead, Join, breaker
  <2> QED
    BY <1>4, <1>8, <2>1, <2>2, <2>3, <2>4 DEF FanOK, Walking, Excused, Few
<1>9. ASSUME NEW i \in Jobs PROVE FanOK(fan[i])'
  <2>1. PICK r : r = fan[i]
    OBVIOUS
  <2>2. FanOK(r) /\ fan'[i] = r
    BY <2>1 DEF FanoutInv, FansOK, Join
  <2>3. FanOK(r)'
    BY <1>8, <2>2
  <2> QED
    BY <2>2, <2>3
<1>10. FansOK'
  BY <1>9 DEF FanoutInv, FansOK, Join
<1> QED
  BY <1>6, <1>7, <1>10 DEF FanoutInv

LEMMA LeaveStep ==
  ASSUME FanoutInv, NEW a \in Actors, Leave(a)
  PROVE  FanoutInv'
<1>1. /\ follower \in [Actors -> 0..MaxId] /\ lastId \in 0..MaxId /\ MaxId \in Nat
      /\ \A b \in Actors : follower[b] <= lastId /\ follower[b] \in Nat
      /\ \A b, c \in Followers : follower[b] = follower[c] => b = c
      /\ lastId' = lastId /\ follower' = [follower EXCEPT ![a] = 0]
      /\ fan' = [j \in Jobs |-> [fan[j] EXCEPT !.stayed = fan[j].stayed \ {a}]]
  BY Constants DEF FanoutInv, IdsOK, Leave, Followers
<1>2. follower' \in [Actors -> 0..MaxId] /\ lastId' \in 0..MaxId
      /\ follower'[a] = 0 /\ \A b \in Actors \ {a} : follower'[b] = follower[b]
  BY <1>1
<1>3. \A b \in Actors : follower'[b] <= lastId'
  BY <1>1, <1>2
<1>4. Followers' = Followers \ {a} /\ Followers \subseteq Actors
  BY <1>1, <1>2 DEF Followers
<1>5. \A b, c \in Followers' : follower'[b] = follower'[c] => b = c
  BY <1>1, <1>2, <1>4
<1>6. IdsOK'
  BY <1>2, <1>3, <1>5 DEF IdsOK
<1>7. RestOK'
  BY DEF FanoutInv, RestOK, Leave, breaker
<1>8. ASSUME NEW r, FanOK(r), NEW s, s = [r EXCEPT !.stayed = r.stayed \ {a}]
      PROVE  s \in Fan /\ FanOK(s)'
  <2>1. r \in Fan /\ r.stayed \subseteq Followers
    BY <1>8 DEF FanOK
  <2>2. r.stayed \ {a} \in SUBSET Actors
    BY <2>1, <1>4
  <2>3. s \in Fan
    BY <1>8, <2>1, <2>2, SetStayed
  <2>4. /\ s.pc = r.pc /\ s.kind = r.kind /\ s.attempts = r.attempts /\ s.cursor = r.cursor
        /\ s.deadCache = r.deadCache /\ s.delivered = r.delivered /\ s.batch = r.batch /\ s.more = r.more /\ s.stayed = r.stayed \ {a}
        /\ s.enqueued = r.enqueued /\ s.lost = r.lost /\ s.wasDead = r.wasDead
    BY <1>8, <2>1 DEF Fan
  <2>5. \A b \in s.stayed : /\ b \in r.stayed /\ b \in Followers'
                            /\ Covered(s, b)' <=> Covered(r, b)
                            /\ Given(s, b) <=> Given(r, b)
                            /\ Excused(s, b) <=> Excused(r, b)
    BY <1>2, <1>4, <2>1, <2>4 DEF Covered, Given, Excused
  <2>6. DeadIsKnown(r) => DeadIsKnown(s)'
    BY <2>4 DEF DeadIsKnown, IsDomainDead, Leave, breaker
  <2>7. ASSUME WalkOK(r) PROVE WalkOK(s)'
    <3>1. \A b \in s.stayed : /\ b \in s.batch => s.enqueued[b] = 0
                              /\ Given(s, b) => Covered(s, b)'
                              /\ Covered(s, b)' => Given(s, b) \/ Excused(s, b)
      BY <2>4, <2>5, <2>7 DEF WalkOK
    <3> QED
      BY <3>1 DEF WalkOK, Given, Excused
  <2>8. /\ r.pc \in {"idle", "waiting"} => r.attempts < MaxAttempts
        /\ Walking(r) => r.attempts > 0
        /\ \A b \in r.stayed : Few(r, b)
        /\ Walking(r) => DeadIsKnown(r) /\ WalkOK(r)
        /\ r.pc = "reading" => r.batch = {}
        /\ r.pc = "writing" /\ ~r.more => \A b \in r.stayed : Covered(r, b)
        /\ r.pc = "done" => \A b \in r.stayed : r.enqueued[b] > 0 \/ Excused(r, b)
    BY <1>8 DEF FanOK
  <2>9. /\ s.pc \in {"idle", "waiting"} => s.attempts < MaxAttempts
        /\ Walking(s) => s.attempts > 0
        /\ s.stayed \subseteq Followers' /\ \A b \in s.stayed : Few(s, b)
        /\ s.pc = "reading" => s.batch = {}
    BY <2>4, <2>5, <2>8 DEF Few, Walking
  <2>10. Walking(s) => DeadIsKnown(s)' /\ WalkOK(s)'
    BY <2>4, <2>6, <2>7, <2>8 DEF Walking
  <2>11. s.pc = "writing" /\ ~s.more => \A b \in s.stayed : Covered(s, b)'
    BY <2>4, <2>5, <2>8
  <2>12. s.pc = "done" => \A b \in s.stayed : s.enqueued[b] > 0 \/ Excused(s, b)
    BY <2>4, <2>5, <2>8
  <2>13. FanOK(s)'
    BY <2>3, <2>9, <2>10, <2>11, <2>12 DEF FanOK, Walking, Excused, Few
  <2> QED
    BY <2>3, <2>13
<1>9. ASSUME NEW i \in Jobs PROVE fan'[i] \in Fan /\ FanOK(fan[i])'
  <2>1. PICK r : r = fan[i]
    OBVIOUS
  <2>2. PICK s : s = fan'[i]
    OBVIOUS
  <2>3. FanOK(r) /\ s = [r EXCEPT !.stayed = r.stayed \ {a}]
    BY <1>1, <2>1, <2>2 DEF FanoutInv, FansOK
  <2>4. s \in Fan /\ FanOK(s)'
    BY <1>8, <2>3
  <2> QED
    BY <2>2, <2>4
<1>10. fan' \in [Jobs -> Fan]
  <2>1. DOMAIN fan' = Jobs /\ fan' = [i \in Jobs |-> fan'[i]]
    BY <1>1
  <2> QED
    BY <1>9, <2>1
<1>11. FansOK'
  BY <1>9, <1>10 DEF FansOK
<1> QED
  BY <1>6, <1>7, <1>11 DEF FanoutInv

-----------------------------------------------------------------------------
(* The theorems.                                                           *)

LEMMA Initially ==
  ASSUME Init PROVE FanoutInv
<1>1. PICK kinds \in Scenarios : fan = [j \in Jobs |-> Resting(kinds[j], "idle", 0)]
  BY DEF Init
<1>2. kinds \in [Jobs -> Kinds] /\ MaxAttempts \in Nat \ {0} /\ MaxId \in Nat
  BY FanoutAssumption
<1>3. ASSUME NEW j \in Jobs PROVE fan[j] \in Fan /\ FanOK(fan[j])
  BY <1>1, <1>2, RestingIsOK
<1>4. FansOK
  <2>1. DOMAIN fan = Jobs /\ fan = [j \in Jobs |-> fan[j]]
    BY <1>1
  <2>2. fan \in [Jobs -> Fan]
    BY <1>3, <2>1
  <2> QED
    BY <1>3, <2>2 DEF FansOK
<1>5. IdsOK
  <2>1. Initial \in [Actors -> 0..MaxId] /\ Actors # {}
        /\ \A a, b \in Actors : Initial[a] = Initial[b] /\ Initial[a] # 0 => a = b
    BY FanoutAssumption, IdsAreUnique
  <2>2. {Initial[a] : a \in Actors} \in SUBSET (0..MaxId) /\ {Initial[a] : a \in Actors} # {}
    BY <2>1
  <2>3. lastId \in {Initial[a] : a \in Actors} /\ \A y \in {Initial[a] : a \in Actors} : y <= lastId
    BY <1>2, <2>2, Greatest DEF Init
  <2>4. follower = Initial
    BY DEF Init
  <2> QED
    BY <2>1, <2>3, <2>4 DEF IdsOK, Followers
<1>6. RestOK
  <2>1. mentions \subseteq Mentioned
    BY DEF Init
  <2> QED
    BY <2>1 DEF Init, RestOK
<1> QED
  BY <1>4, <1>5, <1>6 DEF FanoutInv

(* The invariant: a fan-out has told, will still tell, or is excused from    *)
(* telling each follower that stays, and the walk tells nobody who has been  *)
(* told (FansOK); ids are unique and only grow (IdsOK); the rest keeps its   *)
(* types (RestOK).                                                           *)
THEOREM FanoutInvariant == Spec => []FanoutInv
<1>1. Init => FanoutInv
  BY Initially
<1>2. FanoutInv /\ [Next]_vars => FanoutInv'
  <2> SUFFICES ASSUME FanoutInv, [Next]_vars PROVE FanoutInv'
    OBVIOUS
  <2>1. ASSUME NEW j \in Jobs, Request(j) \/ Work(j) \/ FailPage(j) \/ Crash(j) PROVE FanoutInv'
    BY <2>1, RequestStep, FailPageStep, CrashStep, DeliverPostStep, UpdatePostStep, PlainStep, ReadPageStep,
       WritePageStep DEF Work
  <2>2. ASSUME NEW x \in out, Deliver(x) PROVE FanoutInv'
    BY <2>2, DeliverStep
  <2>3. ASSUME NEW a \in Actors, Leave(a) \/ Join(a) PROVE FanoutInv'
    BY <2>3, LeaveStep, JoinStep
  <2>4. ASSUME NEW d \in Domains, WindowPasses(d) \/ ResetFailure(d) PROVE FanoutInv'
    BY <2>4, WindowPassesStep, ResetFailureStep
  <2>5. CASE UNCHANGED vars
    BY <2>5 DEF FanoutInv, FansOK, FanOK, DeadIsKnown, WalkOK, Covered, Given, Excused, Followers,
       IsDomainDead, Walking, Few, IdsOK, RestOK, vars
  <2> QED
    BY <2>1, <2>2, <2>3, <2>4, <2>5 DEF Next
<1> QED
  BY <1>1, <1>2, PTL DEF Spec

\* The rows of the followers table, the jobs and the counters keep their types:
\* the ids grow but by one at a time, no job is tried more often than
\* MaxJobAttempts, and no counter exceeds the threshold.
THEOREM FanoutTypes == Spec => []TypeOK
<1>1. FanoutInv => TypeOK
  BY DEF FanoutInv, FansOK, IdsOK, RestOK, TypeOK
<1> QED
  BY <1>1, FanoutInvariant, PTL

\* One attempt of a fan-out enqueues at most one delivery for an actor that
\* follows all the while, whichever of the ways it could be reached by, or as
\* many as accts the post mentions it by: to those the walk adds none.
THEOREM FollowersAreServedOnce == Spec => []ServedOnce
<1>1. FanoutInv => ServedOnce
  BY DEF FanoutInv, FansOK, FanOK, ServedOnce, Few, Accts
<1> QED
  BY <1>1, FanoutInvariant, PTL

\* A fan-out that ends leaves no follower out but those of domains that were
\* dead and those whose direct delivery Enqueue had lost: the cursor passes
\* nobody, whoever comes and goes meanwhile.
THEOREM FollowersAreServed == Spec => []EveryFollowerServed
<1>1. FanoutInv => EveryFollowerServed
  BY DEF FanoutInv, FansOK, FanOK, EveryFollowerServed, Excused
<1> QED
  BY <1>1, FanoutInvariant, PTL

=============================================================================
