-------------------------- MODULE ReshardingProofs --------------------------
(***************************************************************************)
(* What holds of Resharding for every number of buckets, shards and        *)
(* virtual nodes and every position of these: the new map moves least, the *)
(* binary search finds the next node of the ring, and only new shards get  *)
(* keys.                                                                   *)
(***************************************************************************)
EXTENDS Resharding, FiniteSetTheorems, SequenceTheorems, TLAPS

-----------------------------------------------------------------------------
(* Induction over a number, as facts about sets of numbers.                 *)

LEMMA LeastNatural ==
    ASSUME NEW T \in SUBSET Nat, T # {}
    PROVE  \E x \in T : \A y \in T : x <= y
<1> DEFINE R == OpToRel(<, Nat)
<1>1. PICK x \in T : \A y \in T : <<y, x>> \notin R
  <2>1. IsWellFoundedOn(R, Nat)
    BY NatLessThanWellFounded
  <2> HIDE DEF R
  <2> QED
    BY <2>1, WFMin
<1>2. ASSUME NEW y \in T PROVE x <= y
  <2>1. x \in Nat /\ y \in Nat
    OBVIOUS
  <2>2. ASSUME y < x PROVE <<y, x>> \in R
    <3> SUFFICES <<y, x>> \in {ss \in Nat \X Nat : ss[1] < ss[2]}
      BY DEF OpToRel
    <3> QED
      BY <2>1, <2>2
  <2> HIDE DEF R
  <2> QED
    BY <1>1, <2>1, <2>2
<1> QED
  BY <1>2

LEMMA UpTo ==
    ASSUME NEW n \in Nat, NEW T, 0 \in T, \A k \in 1 .. n : k - 1 \in T => k \in T
    PROVE  \A k \in 0 .. n : k \in T
<1> DEFINE Out == {k \in 0 .. n : k \notin T}
<1> SUFFICES ASSUME Out # {} PROVE FALSE
  OBVIOUS
<1>1. PICK x \in Out : \A y \in Out : x <= y
  <2>1. Out \in SUBSET Nat
    OBVIOUS
  <2> HIDE DEF Out
  <2> QED
    BY <2>1, LeastNatural
<1>2. x \in 1 .. n /\ x \notin T
  BY <1>1
<1>3. x - 1 \in 0 .. n /\ x - 1 < x
  BY <1>2
<1>4. x - 1 \in T
  BY <1>1, <1>3
<1> QED
  BY <1>2, <1>4

Runs(f, n, S, base, step) ==
    f \in [0 .. n -> S] /\ f[0] = base /\ \A k \in 1 .. n : f[k] = step[<<k, f[k - 1]>>]

\* A function is defined by its first value and by each value from the one before.
LEMMA Recursion ==
    ASSUME NEW n \in Nat, NEW S, NEW base \in S, NEW step \in [(1 .. n) \X S -> S]
    PROVE  \E f : Runs(f, n, S, base, step)
<1> DEFINE Reaches(f, m) == Runs(f, m, S, base, step)
           T == {m \in 0 .. n : \E f : Reaches(f, m)}
<1> USE DEF Runs
<1>1. 0 \in T
  <2>1. Reaches([k \in 0 .. 0 |-> base], 0)
    OBVIOUS
  <2> HIDE DEF Reaches
  <2> QED
    BY <2>1
<1>2. ASSUME NEW m \in 1 .. n, m - 1 \in T PROVE m \in T
  <2>1. PICK f : Reaches(f, m - 1)
    BY <1>2
  <2> DEFINE next == step[<<m, f[m - 1]>>]
             g == [k \in 0 .. m |-> IF k = m THEN next ELSE f[k]]
  <2>2. next \in S
    <3>1. f[m - 1] \in S
      BY <2>1
    <3> QED
      BY <3>1
  <2>3. g \in [0 .. m -> S] /\ g[0] = base
    BY <2>1, <2>2
  <2>4. ASSUME NEW k \in 1 .. m PROVE g[k] = step[<<k, g[k - 1]>>]
    <3>1. k - 1 \in 0 .. m /\ k - 1 # m /\ k \in 0 .. m
      OBVIOUS
    <3>2. g[k - 1] = f[k - 1]
      BY <3>1
    <3>3. CASE k = m
      <4>1. g[k] = next
        BY <3>1, <3>3
      <4> QED
        BY <3>2, <3>3, <4>1
    <3>4. CASE k # m
      <4>1. k \in 1 .. m - 1 /\ g[k] = f[k]
        BY <3>1, <3>4
      <4> QED
        BY <2>1, <3>2, <4>1
    <3> QED
      BY <3>3, <3>4
  <2>5. Reaches(g, m)
    BY <2>3, <2>4
  <2> HIDE DEF Reaches
  <2> QED
    BY <2>5
<1>3. n \in T
  <2> HIDE DEF T
  <2> QED
    BY <1>1, <1>2, UpTo
<1> QED
  BY <1>3

-----------------------------------------------------------------------------
(* Quotas.                                                                  *)

LEMMA Division ==
    ASSUME NEW to \in Nat \ {0}
    PROVE  /\ BUCKETS \in Nat
           /\ BUCKETS \div to \in Nat
           /\ BUCKETS % to \in 0 .. to - 1
           /\ BUCKETS = to * (BUCKETS \div to) + (BUCKETS % to)
BY KeyAssumption

\* What the first n shards have together.
Quotas(n, to) == n * (BUCKETS \div to) + IF n < BUCKETS % to THEN n ELSE BUCKETS % to

LEMMA QuotasAdd ==
    ASSUME NEW to \in Nat \ {0}
    PROVE  /\ Quotas(0, to) = 0
           /\ Quotas(to, to) = BUCKETS
           /\ \A n \in 0 .. to : Quotas(n, to) \in Nat
           /\ \A n \in Nat : quota(n, to) \in Nat
           /\ \A n \in 0 .. to - 1 : Quotas(n + 1, to) = Quotas(n, to) + quota(n, to)
<1> DEFINE q == BUCKETS \div to
           r == BUCKETS % to
<1>1. q \in Nat /\ r \in 0 .. to - 1 /\ BUCKETS = to * q + r
  BY Division
<1>2. /\ \A n : Quotas(n, to) = n * q + IF n < r THEN n ELSE r
      /\ \A n : quota(n, to) = q + IF n < r THEN 1 ELSE 0
  BY DEF Quotas, quota
<1> HIDE DEF q, r
<1>3. \A n \in Nat : n * q \in Nat /\ (n + 1) * q = n * q + q
  BY <1>1
<1>4. Quotas(0, to) = 0 /\ Quotas(to, to) = BUCKETS
  BY <1>1, <1>2
<1>5. ASSUME NEW n \in Nat PROVE Quotas(n, to) \in Nat /\ quota(n, to) \in Nat
  <2> DEFINE p == n * q
  <2>1. p \in Nat
    BY <1>3
  <2>2. Quotas(n, to) = p + IF n < r THEN n ELSE r
    BY <1>2
  <2> HIDE DEF p
  <2> QED
    BY <1>1, <1>2, <2>1, <2>2
<1>6. ASSUME NEW n \in 0 .. to - 1
      PROVE  Quotas(n + 1, to) = Quotas(n, to) + quota(n, to)
  <2> DEFINE p == n * q
             p1 == (n + 1) * q
  <2>1. p \in Nat /\ p1 = p + q
    BY <1>3
  <2>2. /\ Quotas(n, to) = p + IF n < r THEN n ELSE r
        /\ Quotas(n + 1, to) = p1 + IF n + 1 < r THEN n + 1 ELSE r
        /\ quota(n, to) = q + IF n < r THEN 1 ELSE 0
    BY <1>2
  <2> HIDE DEF p, p1
  <2> QED
    BY <1>1, <2>1, <2>2
<1> QED
  BY <1>4, <1>5, <1>6

LEMMA QuotasDiffer ==
    ASSUME NEW to \in Nat \ {0}, NEW s1 \in Nat, NEW s2 \in Nat
    PROVE  quota(s1, to) - quota(s2, to) <= 1
<1> DEFINE q == BUCKETS \div to
<1>1. q \in Nat
  BY Division
<1>2. \A s : quota(s, to) \in {q, q + 1}
  <2> SUFFICES ASSUME NEW s PROVE quota(s, to) \in {q, q + 1}
    OBVIOUS
  <2> QED
    BY <1>1 DEF quota
<1> HIDE DEF q
<1> QED
  BY <1>1, <1>2

\* In a larger cluster a shard has no more.
LEMMA QuotaShrinks ==
    ASSUME NEW to \in Nat \ {0}, NEW from \in 1 .. to, NEW s \in Nat
    PROVE  quota(s, to) <= quota(s, from)
<1> DEFINE q == BUCKETS \div to
           r == BUCKETS % to
           p == BUCKETS \div from
           o == BUCKETS % from
<1>1. q \in Nat /\ r \in 0 .. to - 1 /\ BUCKETS = to * q + r
  BY Division
<1>2. p \in Nat /\ o \in 0 .. from - 1 /\ BUCKETS = from * p + o
  BY Division
<1>3. /\ quota(s, to) = q + IF s < r THEN 1 ELSE 0
      /\ quota(s, from) = p + IF s < o THEN 1 ELSE 0
  BY DEF quota
<1> HIDE DEF q, r, p, o
<1>4. from * q <= to * q
  BY <1>1
<1>5. q <= p
  <2> SUFFICES ASSUME p + 1 <= q PROVE FALSE
    BY <1>1, <1>2
  <2>1. from * (p + 1) <= from * q /\ from * (p + 1) = from * p + from
    BY <1>1, <1>2
  <2> QED
    BY <1>1, <1>2, <1>4, <2>1
<1>6. q = p => r <= o
  BY <1>1, <1>2, <1>4
<1>7. CASE q = p
  BY <1>1, <1>2, <1>3, <1>6, <1>7
<1>8. CASE q < p
  BY <1>1, <1>2, <1>3, <1>8
<1> QED
  BY <1>1, <1>2, <1>5, <1>7, <1>8

-----------------------------------------------------------------------------
(* The first loop.                                                          *)

Maps(to) == [Bucket -> 0 .. to - 1]

Skims(to) == [owned : [0 .. to - 1 -> Nat], spare : Seq(Bucket)]

GivenUp(spare) == {spare[i] : i \in 1 .. Len(spare)}

Kept(map, shard, spare) == {b \in Bucket : map[b] = shard /\ b \notin GivenUp(spare)}

LEMMA BucketsFinite == IsFiniteSet(Bucket) /\ Cardinality(Bucket) = BUCKETS
<1>1. 0 \in Int /\ BUCKETS - 1 \in Int /\ BUCKETS \in Nat /\ BUCKETS > 0
  BY KeyAssumption
<1> QED
  BY <1>1, FS_Interval DEF Bucket

LEMMA SomeBuckets ==
    ASSUME NEW T \in SUBSET Bucket
    PROVE  IsFiniteSet(T) /\ Cardinality(T) \in Nat
BY BucketsFinite, FS_Subset, FS_CardinalityType

LEMMA SkimStart ==
    ASSUME NEW to \in Nat \ {0}, NEW map \in Maps(to)
    PROVE  [owned |-> [shard \in 0 .. to - 1 |-> Cardinality(BucketsOf(map, shard))],
            spare |-> <<>>] \in Skims(to)
<1>1. \A shard \in 0 .. to - 1 : Cardinality(BucketsOf(map, shard)) \in Nat
  BY SomeBuckets DEF BucketsOf
<1> QED
  BY <1>1 DEF Skims

LEMMA GiveUpTyped ==
    ASSUME NEW to \in Nat \ {0}, NEW map \in Maps(to), NEW bucket \in Bucket,
           NEW state \in Skims(to)
    PROVE  giveUp(state, bucket, map, to) \in Skims(to)
<1> DEFINE shard == map[bucket]
<1>1. shard \in 0 .. to - 1 /\ shard \in Nat /\ quota(shard, to) \in Nat
  BY QuotasAdd DEF Maps
<1>2. state.owned \in [0 .. to - 1 -> Nat] /\ state.spare \in Seq(Bucket)
  BY DEF Skims
<1>3. CASE state.owned[shard] > quota(shard, to)
  <2>1. state.owned[shard] - 1 \in Nat
    BY <1>1, <1>2, <1>3
  <2>2. [state.owned EXCEPT ![shard] = @ - 1] \in [0 .. to - 1 -> Nat]
    BY <1>1, <1>2, <2>1
  <2>3. Append(state.spare, bucket) \in Seq(Bucket)
    BY <1>2
  <2> QED
    BY <1>3, <2>2, <2>3 DEF giveUp, Skims
<1>4. CASE ~(state.owned[shard] > quota(shard, to))
  BY <1>4 DEF giveUp
<1> QED
  BY <1>3, <1>4

LEMMA SkimmingRuns ==
    ASSUME NEW to \in Nat \ {0}, NEW map \in Maps(to)
    PROVE  /\ skimming(map, to)[0] =
                 [owned |-> [shard \in 0 .. to - 1 |-> Cardinality(BucketsOf(map, shard))],
                  spare |-> <<>>]
           /\ \A n \in 1 .. BUCKETS :
                 skimming(map, to)[n] = giveUp(skimming(map, to)[n - 1], BUCKETS - n, map, to)
<1> DEFINE start == [owned |-> [shard \in 0 .. to - 1 |-> Cardinality(BucketsOf(map, shard))],
                     spare |-> <<>>]
           step == [p \in (1 .. BUCKETS) \X Skims(to) |-> giveUp(p[2], BUCKETS - p[1], map, to)]
           rhs(g) == [n \in 0 .. BUCKETS |->
                         IF n = 0 THEN start ELSE giveUp(g[n - 1], BUCKETS - n, map, to)]
<1>1. BUCKETS \in Nat /\ start \in Skims(to)
  <2>1. BUCKETS \in Nat
    BY KeyAssumption
  <2>2. start \in Skims(to)
    BY SkimStart
  <2> QED
    BY <2>1, <2>2
<1>2. step \in [(1 .. BUCKETS) \X Skims(to) -> Skims(to)]
  <2> SUFFICES ASSUME NEW n \in 1 .. BUCKETS, NEW state \in Skims(to)
               PROVE  giveUp(state, BUCKETS - n, map, to) \in Skims(to)
    OBVIOUS
  <2>1. BUCKETS - n \in Bucket
    BY <1>1 DEF Bucket
  <2> QED
    BY <2>1, GiveUpTyped
<1> HIDE DEF start
<1>3. PICK f \in [0 .. BUCKETS -> Skims(to)] :
         f[0] = start /\ \A n \in 1 .. BUCKETS : f[n] = step[<<n, f[n - 1]>>]
  <2> HIDE DEF step
  <2>1. \E f : Runs(f, BUCKETS, Skims(to), start, step)
    BY <1>1, <1>2, Recursion
  <2> QED
    BY <2>1 DEF Runs
<1>4. f = rhs(f)
  <2>1. ASSUME NEW n \in 1 .. BUCKETS PROVE f[n] = giveUp(f[n - 1], BUCKETS - n, map, to)
    <3>1. f[n - 1] \in Skims(to)
      BY <1>1
    <3> QED
      BY <1>3, <3>1
  <2>2. ASSUME NEW n \in 0 .. BUCKETS PROVE f[n] = rhs(f)[n]
    <3>1. n = 0 \/ n \in 1 .. BUCKETS
      BY <1>1
    <3>2. rhs(f)[n] = IF n = 0 THEN start ELSE giveUp(f[n - 1], BUCKETS - n, map, to)
      OBVIOUS
    <3> HIDE DEF rhs, step
    <3> QED
      BY <1>1, <1>3, <2>1, <3>1, <3>2
  <2> QED
    BY <2>2
<1>5. skimming(map, to) = rhs(skimming(map, to))
  <2>1. skimming(map, to) = CHOOSE g : g = rhs(g)
    BY DEF skimming, start
  <2> HIDE DEF rhs
  <2> QED
    BY <1>4, <2>1
<1> DEFINE after == skimming(map, to)
<1>6. after = rhs(after)
  BY <1>5
<1> HIDE DEF after
<1>7. \A n \in 0 .. BUCKETS :
         after[n] = IF n = 0 THEN start ELSE giveUp(after[n - 1], BUCKETS - n, map, to)
  BY <1>6
<1> HIDE DEF rhs, step
<1>8. /\ after[0] = start
      /\ \A n \in 1 .. BUCKETS : after[n] = giveUp(after[n - 1], BUCKETS - n, map, to)
  BY <1>1, <1>7
<1> QED
  BY <1>8 DEF start, after

(* What the first loop keeps up: the buckets given up are among the last n, *)
(* each once; of a shard that has still too many all of these are, of one   *)
(* that has too few none is.                                                *)
SkimInv(state, n, map, to) ==
    /\ state \in Skims(to)
    /\ \A i \in 1 .. Len(state.spare) : state.spare[i] >= BUCKETS - n
    /\ \A i, j \in 1 .. Len(state.spare) : i < j => state.spare[i] > state.spare[j]
    /\ \A shard \in 0 .. to - 1 :
          /\ state.owned[shard] = Cardinality(Kept(map, shard, state.spare))
          /\ state.owned[shard] > quota(shard, to) =>
                \A b \in Bucket : map[b] = shard /\ b >= BUCKETS - n => b \in GivenUp(state.spare)
          /\ state.owned[shard] < quota(shard, to) =>
                \A b \in GivenUp(state.spare) : map[b] # shard

LEMMA SkimStep ==
    ASSUME NEW to \in Nat \ {0}, NEW map \in Maps(to), NEW n \in 1 .. BUCKETS, NEW state,
           SkimInv(state, n - 1, map, to)
    PROVE  SkimInv(giveUp(state, BUCKETS - n, map, to), n, map, to)
<1> DEFINE bucket == BUCKETS - n
           shard == map[bucket]
           spare == state.spare
           next == giveUp(state, bucket, map, to)
<1>1. BUCKETS \in Nat /\ bucket \in Bucket
  BY KeyAssumption DEF Bucket
<1>2. shard \in 0 .. to - 1 /\ \A s \in 0 .. to - 1 : quota(s, to) \in Nat
  BY <1>1, QuotasAdd DEF Maps
<1>3. /\ state \in Skims(to) /\ state.owned \in [0 .. to - 1 -> Nat]
      /\ spare \in Seq(Bucket) /\ Len(spare) \in Nat
  BY DEF SkimInv, Skims
<1>4. next \in Skims(to)
  BY <1>1, <1>3, GiveUpTyped
<1>5. \A b \in Bucket : b \in Int
  BY <1>1 DEF Bucket
<1>6. \A b \in Bucket : b >= BUCKETS - n => b = bucket \/ b >= BUCKETS - (n - 1)
  BY <1>1, <1>5
<1>7. \A i \in 1 .. Len(spare) : spare[i] \in Bucket /\ spare[i] > bucket
  <2>1. \A i \in 1 .. Len(spare) : spare[i] \in Bucket
    BY <1>3
  <2>2. \A i \in 1 .. Len(spare) : spare[i] >= BUCKETS - (n - 1)
    BY DEF SkimInv
  <2> QED
    BY <1>1, <1>5, <2>1, <2>2
<1>8. bucket \notin GivenUp(spare)
  BY <1>1, <1>5, <1>7 DEF GivenUp
<1>9. CASE ~(state.owned[shard] > quota(shard, to))
  <2>1. next = state
    BY <1>9 DEF giveUp
  <2>2. ASSUME NEW s \in 0 .. to - 1, state.owned[s] > quota(s, to),
               NEW b \in Bucket, map[b] = s, b >= BUCKETS - n
        PROVE  b \in GivenUp(spare)
    <3>1. b # bucket
      BY <1>9, <2>2
    <3> QED
      BY <1>6, <2>2, <3>1 DEF SkimInv
  <2>3. \A i \in 1 .. Len(spare) : spare[i] >= BUCKETS - n
    BY <1>1, <1>5, <1>7
  <2> QED
    BY <2>1, <2>2, <2>3 DEF SkimInv
<1>10. CASE state.owned[shard] > quota(shard, to)
  <2> DEFINE owned == [state.owned EXCEPT ![shard] = @ - 1]
             more == Append(spare, bucket)
  <2>1. next = [owned |-> owned, spare |-> more]
    BY <1>10 DEF giveUp
  <2>2. /\ Len(more) = Len(spare) + 1 /\ more[Len(more)] = bucket
        /\ \A i \in 1 .. Len(spare) : more[i] = spare[i]
    BY <1>1, <1>3
  <2>3. GivenUp(more) = GivenUp(spare) \cup {bucket}
    <3> HIDE DEF more, bucket, spare
    <3>1. ASSUME NEW b \in GivenUp(more) PROVE b \in GivenUp(spare) \cup {bucket}
      <4>1. PICK i \in 1 .. Len(more) : b = more[i]
        BY DEF GivenUp
      <4>2. i = Len(more) \/ i \in 1 .. Len(spare)
        BY <1>3, <2>2
      <4> QED
        BY <2>2, <4>1, <4>2 DEF GivenUp
    <3>2. ASSUME NEW b \in GivenUp(spare) \cup {bucket} PROVE b \in GivenUp(more)
      <4>1. CASE b = bucket
        <5>1. Len(more) \in 1 .. Len(more)
          BY <1>3, <2>2
        <5> QED
          BY <2>2, <4>1, <5>1 DEF GivenUp
      <4>2. CASE b \in GivenUp(spare)
        <5>1. PICK i \in 1 .. Len(spare) : b = spare[i]
          BY <4>2 DEF GivenUp
        <5>2. i \in 1 .. Len(more)
          BY <1>3, <2>2
        <5> QED
          BY <2>2, <5>1, <5>2 DEF GivenUp
      <4> QED
        BY <3>2, <4>1, <4>2
    <3> QED
      BY <3>1, <3>2
  <2>4. \A i \in 1 .. Len(more) : more[i] >= BUCKETS - n
    <3>1. \A i \in 1 .. Len(more) : i = Len(more) \/ i \in 1 .. Len(spare)
      BY <1>3, <2>2
    <3>2. bucket = BUCKETS - n /\ bucket \in Int
      BY <1>1
    <3> HIDE DEF more, bucket, spare
    <3>3. \A i \in 1 .. Len(spare) : more[i] >= bucket
      BY <1>5, <1>7, <2>2, <3>2
    <3>4. more[Len(more)] >= bucket
      BY <2>2, <3>2
    <3> QED
      BY <3>1, <3>2, <3>3, <3>4
  <2>5. \A i, j \in 1 .. Len(more) : i < j => more[i] > more[j]
    <3> SUFFICES ASSUME NEW i \in 1 .. Len(more), NEW j \in 1 .. Len(more), i < j
                 PROVE  more[i] > more[j]
      OBVIOUS
    <3> HIDE DEF more, bucket
    <3>1. i \in 1 .. Len(spare) /\ (j = Len(more) \/ j \in 1 .. Len(spare))
      BY <1>3, <2>2
    <3> QED
      BY <1>7, <2>2, <3>1 DEF SkimInv
  <2>6. /\ owned[shard] = state.owned[shard] - 1
        /\ \A s \in 0 .. to - 1 : s # shard => owned[s] = state.owned[s]
    BY <1>2, <1>3
  <2>7. Kept(map, shard, more) = Kept(map, shard, spare) \ {bucket}
    BY <2>3 DEF Kept
  <2>8. \A s \in 0 .. to - 1 : s # shard => Kept(map, s, more) = Kept(map, s, spare)
    BY <2>3 DEF Kept
  <2>9. Cardinality(Kept(map, shard, more)) = Cardinality(Kept(map, shard, spare)) - 1
    <3>1. bucket \in Kept(map, shard, spare)
      BY <1>1, <1>8 DEF Kept
    <3>2. IsFiniteSet(Kept(map, shard, spare))
      BY SomeBuckets DEF Kept
    <3> QED
      BY <2>7, <3>1, <3>2, FS_RemoveElement
  <2>10. ASSUME NEW s \in 0 .. to - 1
         PROVE  owned[s] = Cardinality(Kept(map, s, more))
    <3>1. state.owned[s] = Cardinality(Kept(map, s, spare))
      BY DEF SkimInv
    <3> HIDE DEF owned, more, spare
    <3> QED
      BY <2>6, <2>8, <2>9, <3>1
  <2>11. ASSUME NEW s \in 0 .. to - 1, owned[s] > quota(s, to),
                NEW b \in Bucket, map[b] = s, b >= BUCKETS - n
         PROVE  b \in GivenUp(more)
    <3>1. state.owned[s] > quota(s, to)
      BY <1>2, <1>3, <2>6, <2>11
    <3>2. b \in GivenUp(spare) \/ b = bucket
      BY <1>6, <2>11, <3>1 DEF SkimInv
    <3> QED
      BY <2>3, <3>2
  <2>12. ASSUME NEW s \in 0 .. to - 1, owned[s] < quota(s, to), NEW b \in GivenUp(more)
         PROVE  map[b] # s
    <3>1. s # shard
      <4>1. owned[shard] >= quota(shard, to)
        BY <1>2, <1>3, <1>10, <2>6
      <4>2. owned[s] \in Int /\ quota(s, to) \in Int
        BY <1>2, <1>3
      <4> HIDE DEF owned
      <4> QED
        BY <2>12, <4>1, <4>2
    <3>2. state.owned[s] < quota(s, to)
      BY <2>6, <2>12, <3>1
    <3> QED
      BY <2>3, <2>12, <3>1, <3>2 DEF SkimInv
  <2> HIDE DEF owned, more
  <2> QED
    BY <1>4, <2>1, <2>4, <2>5, <2>10, <2>11, <2>12 DEF SkimInv
<1> QED
  BY <1>9, <1>10

(* What the first loop leaves: no shard has too many, and those that have   *)
(* too few have what they had.                                              *)
Skimmed(map, to, owned, spare) ==
    /\ owned \in [0 .. to - 1 -> Nat]
    /\ spare \in Seq(Bucket)
    /\ \A i, j \in 1 .. Len(spare) : i < j => spare[i] > spare[j]
    /\ \A shard \in 0 .. to - 1 :
          /\ owned[shard] = Cardinality(Kept(map, shard, spare))
          /\ owned[shard] <= quota(shard, to)
          /\ owned[shard] < quota(shard, to) => BucketsOf(map, shard) = Kept(map, shard, spare)

LEMMA SkimmingLeaves ==
    ASSUME NEW to \in Nat \ {0}, NEW map \in Maps(to)
    PROVE  Skimmed(map, to, skimmed(map, to).owned, skimmed(map, to).spare)
<1> DEFINE after == skimming(map, to)
           T == {n \in 0 .. BUCKETS : SkimInv(after[n], n, map, to)}
<1>1. BUCKETS \in Nat
  BY KeyAssumption
<1>2. /\ after[0] = [owned |-> [shard \in 0 .. to - 1 |-> Cardinality(BucketsOf(map, shard))],
                     spare |-> <<>>]
      /\ \A n \in 1 .. BUCKETS : after[n] = giveUp(after[n - 1], BUCKETS - n, map, to)
  BY SkimmingRuns
<1> HIDE DEF after
<1>3. 0 \in T
  <2>1. after[0] \in Skims(to) /\ after[0].spare = <<>> /\ GivenUp(<<>>) = {}
    BY <1>2, SkimStart DEF GivenUp
  <2>2. \A shard \in 0 .. to - 1 : Kept(map, shard, <<>>) = BucketsOf(map, shard)
    BY <2>1 DEF Kept, BucketsOf
  <2>3. \A b \in Bucket : ~(b >= BUCKETS - 0)
    BY <1>1 DEF Bucket
  <2>4. \A shard \in 0 .. to - 1 : after[0].owned[shard] = Cardinality(BucketsOf(map, shard))
    BY <1>2
  <2> QED
    BY <1>1, <2>1, <2>2, <2>3, <2>4 DEF SkimInv
<1>4. ASSUME NEW n \in 1 .. BUCKETS, n - 1 \in T PROVE n \in T
  BY <1>1, <1>2, <1>4, SkimStep
<1>5. BUCKETS \in T
  <2> HIDE DEF T
  <2> QED
    BY <1>1, <1>3, <1>4, UpTo
<1> DEFINE state == after[BUCKETS]
<1>6. SkimInv(state, BUCKETS, map, to) /\ state = skimmed(map, to)
  BY <1>5 DEF skimmed, after
<1> HIDE DEF state
<1>7. ASSUME NEW shard \in 0 .. to - 1 PROVE state.owned[shard] <= quota(shard, to)
  <2>1. quota(shard, to) \in Nat /\ state.owned[shard] \in Nat
    <3>1. shard \in Nat /\ state \in Skims(to)
      BY <1>6 DEF SkimInv
    <3>2. state.owned \in [0 .. to - 1 -> Nat]
      BY <3>1 DEF Skims
    <3> QED
      BY <3>1, <3>2, QuotasAdd
  <2> SUFFICES ASSUME state.owned[shard] > quota(shard, to) PROVE FALSE
    BY <2>1
  <2>2. \A b \in Bucket : b >= BUCKETS - BUCKETS
    BY <1>1 DEF Bucket
  <2>3. Kept(map, shard, state.spare) = {}
    BY <1>6, <2>2 DEF SkimInv, Kept
  <2>4. state.owned[shard] = 0
    BY <1>6, <2>3, FS_EmptySet DEF SkimInv
  <2> QED
    BY <2>1, <2>4
<1>8. ASSUME NEW shard \in 0 .. to - 1, state.owned[shard] < quota(shard, to)
      PROVE  BucketsOf(map, shard) = Kept(map, shard, state.spare)
  BY <1>6, <1>8 DEF SkimInv, BucketsOf, Kept
<1> QED
  BY <1>6, <1>7, <1>8 DEF SkimInv, Skims, Skimmed

-----------------------------------------------------------------------------
(* Counting buckets shard by shard.                                         *)

LEMMA OneMoreShard ==
    ASSUME NEW to \in Nat \ {0}, NEW map \in Maps(to), NEW U \in SUBSET Bucket,
           NEW n \in 0 .. to - 1
    PROVE  Cardinality({b \in U : map[b] < n + 1}) =
              Cardinality({b \in U : map[b] < n}) + Cardinality({b \in U : map[b] = n})
<1> DEFINE A == {b \in U : map[b] < n}
           B == {b \in U : map[b] = n}
<1>1. \A b \in U : map[b] \in Int
  BY DEF Maps
<1>2. {b \in U : map[b] < n + 1} = A \cup B /\ A \cap B = {}
  BY <1>1
<1>3. /\ IsFiniteSet(A) /\ Cardinality(A) \in Nat
      /\ IsFiniteSet(B) /\ Cardinality(B) \in Nat
  <2>1. A \in SUBSET Bucket /\ B \in SUBSET Bucket
    OBVIOUS
  <2> HIDE DEF A, B
  <2> QED
    BY <2>1, SomeBuckets
<1>4. Cardinality(A \cup B) = Cardinality(A) + Cardinality(B)
  <2> HIDE DEF A, B
  <2>1. Cardinality(A \cup B) = Cardinality(A) + Cardinality(B) - Cardinality(A \cap B)
    BY <1>3, FS_Union
  <2>2. Cardinality(A \cap B) = 0
    BY <1>2, FS_EmptySet
  <2> QED
    BY <1>3, <2>1, <2>2
<1> QED
  BY <1>2, <1>4

(* Where no shard has more than its quota, what one lacks is not there.     *)
LEMMA AtMostQuotas ==
    ASSUME NEW to \in Nat \ {0}, NEW map \in Maps(to), NEW U \in SUBSET Bucket,
           NEW s \in 0 .. to - 1,
           \A k \in 0 .. to - 1 : Cardinality({b \in U : map[b] = k}) <= quota(k, to)
    PROVE  Cardinality(U) <= BUCKETS - (quota(s, to) - Cardinality({b \in U : map[b] = s}))
<1> DEFINE Below(k) == Cardinality({b \in U : map[b] < k})
           Count(k) == Cardinality({b \in U : map[b] = k})
           lacking == quota(s, to) - Count(s)
           T == {k \in 0 .. to :
                    Below(k) <= Quotas(k, to) - IF s < k THEN lacking ELSE 0}
<1>1. \A k \in 0 .. to : Below(k) \in Nat /\ Count(k) \in Nat
  <2>1. ASSUME NEW k PROVE {b \in U : map[b] < k} \in SUBSET Bucket
                           /\ {b \in U : map[b] = k} \in SUBSET Bucket
    OBVIOUS
  <2> QED
    BY <2>1, SomeBuckets
<1>2. \A k \in 0 .. to - 1 : Below(k + 1) = Below(k) + Count(k) /\ Count(k) <= quota(k, to)
  BY OneMoreShard
<1>3. Below(0) = 0 /\ Below(to) = Cardinality(U)
  <2>1. \A b \in U : map[b] \in 0 .. to - 1
    BY DEF Maps
  <2>2. {b \in U : map[b] < 0} = {} /\ {b \in U : map[b] < to} = U
    BY <2>1
  <2> QED
    BY <2>2, FS_EmptySet
<1>4. /\ Quotas(0, to) = 0 /\ Quotas(to, to) = BUCKETS /\ BUCKETS \in Nat
      /\ \A k \in 0 .. to : Quotas(k, to) \in Nat
      /\ \A k \in 0 .. to - 1 : Quotas(k + 1, to) = Quotas(k, to) + quota(k, to)
      /\ \A k \in 0 .. to - 1 : quota(k, to) \in Nat
  BY QuotasAdd, KeyAssumption
<1> HIDE DEF Below, Count
<1>5. lacking \in Int
  BY <1>1, <1>4
<1>6. 0 \in T
  BY <1>3, <1>4
<1>7. ASSUME NEW k \in 1 .. to, k - 1 \in T PROVE k \in T
  <2> DEFINE j == k - 1
  <2>1. j \in 0 .. to - 1 /\ k = j + 1 /\ j \in T
    BY <1>7
  <2> HIDE DEF j
  <2>2. /\ Below(k) = Below(j) + Count(j) /\ Count(j) <= quota(j, to)
        /\ Quotas(k, to) = Quotas(j, to) + quota(j, to)
        /\ Below(j) \in Nat /\ Count(j) \in Nat /\ quota(j, to) \in Nat
        /\ Quotas(j, to) \in Nat
    BY <1>1, <1>2, <1>4, <2>1
  <2>3. Below(j) <= Quotas(j, to) - IF s < j THEN lacking ELSE 0
    BY <2>1
  <2>4. CASE s = j
    <3>1. lacking = quota(j, to) - Count(j)
      BY <2>4
    <3> HIDE DEF lacking
    <3> QED
      BY <2>1, <2>2, <2>3, <2>4, <3>1
  <2>5. CASE s # j
    <3>1. s < j <=> s < k
      BY <2>1, <2>5
    <3> HIDE DEF lacking
    <3> QED
      BY <1>5, <2>1, <2>2, <2>3, <3>1
  <2> QED
    BY <2>4, <2>5
<1>8. to \in T
  <2> HIDE DEF T
  <2> QED
    BY <1>6, <1>7, UpTo
<1> QED
  BY <1>3, <1>4, <1>8 DEF Count

(* Where every shard has its quota, no bucket is missing.                   *)
LEMMA AllQuotas ==
    ASSUME NEW to \in Nat \ {0}, NEW map \in Maps(to), NEW U \in SUBSET Bucket,
           \A k \in 0 .. to - 1 : Cardinality({b \in U : map[b] = k}) = quota(k, to)
    PROVE  Cardinality(U) = BUCKETS
<1> DEFINE Below(k) == Cardinality({b \in U : map[b] < k})
           T == {k \in 0 .. to : Below(k) = Quotas(k, to)}
<1>1. ASSUME NEW k \in 0 .. to - 1 PROVE Below(k + 1) = Below(k) + quota(k, to)
  <2>1. Below(k + 1) = Below(k) + Cardinality({b \in U : map[b] = k})
    BY OneMoreShard
  <2> QED
    BY <2>1
<1>2. Below(0) = 0 /\ Below(to) = Cardinality(U)
  <2>1. \A b \in U : map[b] \in 0 .. to - 1
    BY DEF Maps
  <2>2. {b \in U : map[b] < 0} = {} /\ {b \in U : map[b] < to} = U
    BY <2>1
  <2> QED
    BY <2>2, FS_EmptySet
<1>3. /\ Quotas(0, to) = 0 /\ Quotas(to, to) = BUCKETS
      /\ \A k \in 0 .. to - 1 : Quotas(k + 1, to) = Quotas(k, to) + quota(k, to)
  BY QuotasAdd
<1> HIDE DEF Below
<1>4. 0 \in T
  BY <1>2, <1>3
<1>5. ASSUME NEW k \in 1 .. to, k - 1 \in T PROVE k \in T
  <2> DEFINE j == k - 1
  <2>1. j \in 0 .. to - 1 /\ k = j + 1 /\ j \in T
    BY <1>5
  <2> HIDE DEF j
  <2> QED
    BY <1>1, <1>3, <2>1
<1>6. to \in T
  <2> HIDE DEF T
  <2> QED
    BY <1>4, <1>5, UpTo
<1> QED
  BY <1>2, <1>3, <1>6

-----------------------------------------------------------------------------
(* The second loop.                                                         *)

Left(spare, n) == {spare[i] : i \in 1 .. n}

\* Each bucket is in the array once.
LEMMA LeftCount ==
    ASSUME NEW spare \in Seq(Bucket),
           \A i, j \in 1 .. Len(spare) : i < j => spare[i] > spare[j]
    PROVE  \A n \in 0 .. Len(spare) :
              Left(spare, n) \in SUBSET Bucket /\ Cardinality(Left(spare, n)) = n
<1> DEFINE T == {n \in 0 .. Len(spare) :
                    Left(spare, n) \in SUBSET Bucket /\ Cardinality(Left(spare, n)) = n}
<1>1. Len(spare) \in Nat /\ \A i \in 1 .. Len(spare) : spare[i] \in Bucket
  OBVIOUS
<1>2. 0 \in T
  <2>1. Left(spare, 0) = {}
    BY DEF Left
  <2>2. Left(spare, 0) \in SUBSET Bucket /\ Cardinality(Left(spare, 0)) = 0
    BY <2>1, FS_EmptySet
  <2> QED
    BY <1>1, <2>2
<1>3. ASSUME NEW n \in 1 .. Len(spare), n - 1 \in T PROVE n \in T
  <2>1. Left(spare, n) = Left(spare, n - 1) \cup {spare[n]}
    <3>1. \A i \in 1 .. n : i = n \/ i \in 1 .. n - 1
      OBVIOUS
    <3>2. n \in 1 .. n /\ \A i \in 1 .. n - 1 : i \in 1 .. n
      OBVIOUS
    <3> QED
      BY <3>1, <3>2 DEF Left
  <2>2. spare[n] \notin Left(spare, n - 1)
    <3> SUFFICES ASSUME NEW i \in 1 .. n - 1 PROVE spare[i] # spare[n]
      BY DEF Left
    <3>1. i \in 1 .. Len(spare) /\ i < n /\ spare[i] > spare[n]
      BY <1>1
    <3>2. spare[i] \in Int /\ spare[n] \in Int
      BY <1>1, <3>1, KeyAssumption DEF Bucket
    <3> QED
      BY <3>1, <3>2
  <2>3. IsFiniteSet(Left(spare, n - 1)) /\ Left(spare, n - 1) \in SUBSET Bucket
    BY <1>3, SomeBuckets
  <2>4. Left(spare, n) \in SUBSET Bucket
    BY <1>1, <2>1, <2>3
  <2>5. Cardinality(Left(spare, n)) = n
    <3>1. Cardinality(Left(spare, n - 1)) = n - 1
      BY <1>3
    <3>2. Cardinality(Left(spare, n)) = Cardinality(Left(spare, n - 1)) + 1
      BY <2>1, <2>2, <2>3, FS_AddElement
    <3> QED
      BY <3>1, <3>2
  <2> QED
    BY <2>4, <2>5
<1> HIDE DEF T
<1>4. \A n \in 0 .. Len(spare) : n \in T
  BY <1>1, <1>2, <1>3, UpTo
<1> QED
  BY <1>4 DEF T

Deals(to) == [map : Maps(to), left : Int]

LEMMA DealingRuns ==
    ASSUME NEW to \in Nat \ {0}, NEW map \in Maps(to), NEW owned, NEW spare,
           owned = skimmed(map, to).owned, spare = skimmed(map, to).spare
    PROVE  /\ dealing(map, to)[0] = [map |-> map, left |-> Len(spare)]
           /\ \A n \in 1 .. to :
                 dealing(map, to)[n] =
                    take(dealing(map, to)[n - 1], n - 1, spare, quota(n - 1, to) - owned[n - 1])
<1> DEFINE start == [map |-> map, left |-> Len(spare)]
           then(state, n) == take(state, n - 1, spare, quota(n - 1, to) - owned[n - 1])
           step == [p \in (1 .. to) \X Deals(to) |-> then(p[2], p[1])]
           rhs(g) == [n \in 0 .. to |-> IF n = 0 THEN start ELSE then(g[n - 1], n)]
<1>1. Skimmed(map, to, owned, spare)
  BY SkimmingLeaves
<1>2. start \in Deals(to)
  BY <1>1 DEF Skimmed, Deals
<1>3. step \in [(1 .. to) \X Deals(to) -> Deals(to)]
  <2> SUFFICES ASSUME NEW n \in 1 .. to, NEW state \in Deals(to)
               PROVE  then(state, n) \in Deals(to)
    OBVIOUS
  <2> DEFINE lacking == quota(n - 1, to) - owned[n - 1]
  <2>1. n - 1 \in 0 .. to - 1 /\ quota(n - 1, to) \in Nat /\ owned[n - 1] \in Nat
    <3>1. n - 1 \in 0 .. to - 1 /\ n - 1 \in Nat
      OBVIOUS
    <3>2. owned[n - 1] \in Nat
      BY <1>1, <3>1 DEF Skimmed
    <3> QED
      BY <3>1, <3>2, QuotasAdd
  <2>2. lacking \in Int
    BY <2>1
  <2> HIDE DEF lacking
  <2>3. take(state, n - 1, spare, lacking) \in Deals(to)
    BY <2>1, <2>2 DEF take, Deals, Maps
  <2> QED
    BY <2>3 DEF lacking
<1> HIDE DEF start, then
<1>4. PICK f \in [0 .. to -> Deals(to)] :
         f[0] = start /\ \A n \in 1 .. to : f[n] = step[<<n, f[n - 1]>>]
  <2> HIDE DEF step
  <2>1. \E f : Runs(f, to, Deals(to), start, step)
    BY <1>2, <1>3, Recursion
  <2> QED
    BY <2>1 DEF Runs
<1>5. f = rhs(f)
  <2>1. ASSUME NEW n \in 1 .. to PROVE f[n] = then(f[n - 1], n)
    <3>1. f[n - 1] \in Deals(to)
      OBVIOUS
    <3> QED
      BY <1>4, <3>1
  <2>2. ASSUME NEW n \in 0 .. to PROVE f[n] = rhs(f)[n]
    <3>1. n = 0 \/ n \in 1 .. to
      OBVIOUS
    <3>2. rhs(f)[n] = IF n = 0 THEN start ELSE then(f[n - 1], n)
      OBVIOUS
    <3> HIDE DEF rhs, step
    <3> QED
      BY <1>4, <2>1, <3>1, <3>2
  <2> QED
    BY <2>2
<1> DEFINE after == dealing(map, to)
<1>6. after = rhs(after)
  <2>1. after = CHOOSE g : g = rhs(g)
    BY DEF dealing, start, then
  <2> HIDE DEF rhs, after
  <2> QED
    BY <1>5, <2>1
<1> HIDE DEF after
<1>7. \A n \in 0 .. to : after[n] = IF n = 0 THEN start ELSE then(after[n - 1], n)
  BY <1>6
<1> HIDE DEF rhs, step
<1>8. after[0] = start /\ \A n \in 1 .. to : after[n] = then(after[n - 1], n)
  BY <1>7
<1> QED
  BY <1>8 DEF start, then, after

(* What the second loop keeps up: a bucket that was kept, or is still left, *)
(* is where it was, the others are with the first n shards, and these have  *)
(* their quotas.                                                            *)
DealInv(state, n, map, to, spare) ==
    /\ state \in Deals(to)
    /\ state.left \in 0 .. Len(spare)
    /\ \A b \in Bucket : b \notin GivenUp(spare) \/ b \in Left(spare, state.left) =>
          state.map[b] = map[b]
    /\ \A b \in GivenUp(spare) : b \notin Left(spare, state.left) => state.map[b] < n
    /\ \A s \in 0 .. n - 1 :
          Cardinality({b \in Bucket \ Left(spare, state.left) : state.map[b] = s}) = quota(s, to)

\* The buckets a shard has that has not had its turn.
LEMMA NotYetDealt ==
    ASSUME NEW to \in Nat \ {0}, NEW map \in Maps(to), NEW spare \in Seq(Bucket),
           NEW n \in 0 .. to, NEW state, DealInv(state, n, map, to, spare), NEW s \in n .. to - 1
    PROVE  {b \in Bucket \ Left(spare, state.left) : state.map[b] = s} = Kept(map, s, spare)
<1>1. ASSUME NEW b \in Bucket, b \notin Left(spare, state.left), state.map[b] = s
      PROVE  b \in Kept(map, s, spare)
  <2>1. ~(s < n)
    OBVIOUS
  <2>2. b \notin GivenUp(spare)
    BY <1>1, <2>1 DEF DealInv
  <2> QED
    BY <1>1, <2>2 DEF DealInv, Kept
<1>2. ASSUME NEW b \in Kept(map, s, spare)
      PROVE  b \in Bucket /\ b \notin Left(spare, state.left) /\ state.map[b] = s
  <2>1. b \in Bucket /\ b \notin GivenUp(spare) /\ map[b] = s
    BY DEF Kept
  <2>2. b \notin Left(spare, state.left)
    <3>1. \A i \in 1 .. state.left : i \in 1 .. Len(spare)
      BY DEF DealInv
    <3> QED
      BY <2>1, <3>1 DEF Left, GivenUp
  <2> QED
    BY <2>1, <2>2 DEF DealInv
<1> QED
  BY <1>1, <1>2

\* A shard finds as many buckets as it lacks.
LEMMA EnoughLeft ==
    ASSUME NEW to \in Nat \ {0}, NEW map \in Maps(to), NEW owned, NEW spare,
           Skimmed(map, to, owned, spare), NEW n \in 0 .. to - 1, NEW state,
           DealInv(state, n, map, to, spare)
    PROVE  quota(n, to) - owned[n] \in 0 .. state.left
<1> DEFINE U == Bucket \ Left(spare, state.left)
<1>1. spare \in Seq(Bucket) /\ owned \in [0 .. to - 1 -> Nat] /\ state.map \in Maps(to)
  BY DEF Skimmed, DealInv, Deals
<1>2. \A s \in n .. to - 1 : Cardinality({b \in U : state.map[b] = s}) = owned[s]
  <2> SUFFICES ASSUME NEW s \in n .. to - 1
               PROVE  Cardinality({b \in U : state.map[b] = s}) = owned[s]
    OBVIOUS
  <2>1. {b \in U : state.map[b] = s} = Kept(map, s, spare)
    BY <1>1, NotYetDealt
  <2>2. s \in 0 .. to - 1
    OBVIOUS
  <2> QED
    BY <2>1, <2>2 DEF Skimmed
<1>3. \A s \in 0 .. to - 1 : Cardinality({b \in U : state.map[b] = s}) <= quota(s, to)
  <2> SUFFICES ASSUME NEW s \in 0 .. to - 1
               PROVE  Cardinality({b \in U : state.map[b] = s}) <= quota(s, to)
    OBVIOUS
  <2>1. CASE s < n
    <3>1. s \in 0 .. n - 1 /\ quota(s, to) \in Nat
      BY <2>1, QuotasAdd
    <3>2. Cardinality({b \in U : state.map[b] = s}) = quota(s, to)
      BY <3>1 DEF DealInv
    <3> QED
      BY <3>1, <3>2
  <2>2. CASE s >= n
    <3>1. s \in n .. to - 1
      BY <2>2
    <3>2. Cardinality({b \in U : state.map[b] = s}) = owned[s]
      BY <1>2, <3>1
    <3> QED
      BY <3>2 DEF Skimmed
  <2> QED
    BY <2>1, <2>2
<1>4. Cardinality(U) = BUCKETS - state.left /\ state.left \in Nat /\ BUCKETS \in Nat
  <2>1. /\ Left(spare, state.left) \in SUBSET Bucket
        /\ Cardinality(Left(spare, state.left)) = state.left
    BY <1>1, LeftCount DEF Skimmed, DealInv
  <2>2. Bucket \cap Left(spare, state.left) = Left(spare, state.left)
    BY <2>1
  <2>3. Cardinality(U) = Cardinality(Bucket) - Cardinality(Bucket \cap Left(spare, state.left))
    BY BucketsFinite, FS_Difference
  <2>4. Cardinality(U) = BUCKETS - state.left
    BY <2>1, <2>2, <2>3, BucketsFinite
  <2>5. Len(spare) \in Nat /\ state.left \in 0 .. Len(spare)
    BY <1>1 DEF DealInv
  <2>6. BUCKETS \in Nat
    BY KeyAssumption
  <2> HIDE DEF U
  <2> QED
    BY <2>4, <2>5, <2>6
<1>5. Cardinality({b \in U : state.map[b] = n}) = owned[n]
  BY <1>2
<1>6. Cardinality(U) <= BUCKETS - (quota(n, to) - Cardinality({b \in U : state.map[b] = n}))
  <2>1. U \in SUBSET Bucket
    OBVIOUS
  <2> HIDE DEF U
  <2> QED
    BY <1>1, <1>3, <2>1, AtMostQuotas
<1>7. owned[n] \in Nat /\ quota(n, to) \in Nat /\ owned[n] <= quota(n, to)
  <2>1. quota(n, to) \in Nat
    BY QuotasAdd
  <2> QED
    BY <1>1, <2>1 DEF Skimmed
<1> HIDE DEF U
<1> QED
  BY <1>4, <1>5, <1>6, <1>7

LEMMA DealStep ==
    ASSUME NEW to \in Nat \ {0}, NEW map \in Maps(to), NEW owned, NEW spare,
           Skimmed(map, to, owned, spare), NEW n \in 0 .. to - 1, NEW state,
           DealInv(state, n, map, to, spare)
    PROVE  DealInv(take(state, n, spare, quota(n, to) - owned[n]), n + 1, map, to, spare)
<1> DEFINE lacking == quota(n, to) - owned[n]
           l == state.left
           rest == l - lacking
           taken == {spare[i] : i \in rest + 1 .. l}
           next == take(state, n, spare, lacking)
<1>1. spare \in Seq(Bucket) /\ Len(spare) \in Nat /\ l \in 0 .. Len(spare)
  BY DEF Skimmed, DealInv
<1>2. lacking \in 0 .. l
  BY EnoughLeft
<1>3. owned[n] \in Nat /\ quota(n, to) \in Nat /\ owned[n] = Cardinality(Kept(map, n, spare))
  BY QuotasAdd DEF Skimmed
<1>4. lacking = quota(n, to) - owned[n]
  OBVIOUS
<1> HIDE DEF lacking
<1>5. rest \in 0 .. l /\ rest \in 0 .. Len(spare)
  BY <1>1, <1>2
<1>6. /\ next.left = rest
      /\ next.map = [b \in Bucket |-> IF b \in taken THEN n ELSE state.map[b]]
  BY DEF take
<1>7. Left(spare, l) = Left(spare, rest) \cup taken
  <2>1. \A i : i \in 1 .. l <=> i \in 1 .. rest \/ i \in rest + 1 .. l
    BY <1>1, <1>5
  <2> QED
    BY <2>1 DEF Left
<1>8. Left(spare, rest) \cap taken = {}
  <2> SUFFICES ASSUME NEW i \in 1 .. rest, NEW j \in rest + 1 .. l PROVE spare[i] # spare[j]
    BY DEF Left
  <2>1. i \in 1 .. Len(spare) /\ j \in 1 .. Len(spare) /\ i < j
    BY <1>1, <1>5
  <2>2. spare[i] > spare[j] /\ spare[i] \in Int /\ spare[j] \in Int
    <3>1. spare[i] \in Bucket /\ spare[j] \in Bucket
      BY <1>1, <2>1
    <3> QED
      BY <2>1, <3>1, KeyAssumption DEF Skimmed, Bucket
  <2> QED
    BY <2>2
<1>9. taken \subseteq GivenUp(spare) /\ taken \subseteq Bucket
  <2>1. \A i \in rest + 1 .. l : i \in 1 .. Len(spare)
    BY <1>1, <1>5
  <2> QED
    BY <1>1, <2>1 DEF GivenUp
<1>10. Cardinality(taken) = lacking /\ IsFiniteSet(taken)
  <2>1. /\ Left(spare, l) \in SUBSET Bucket /\ Cardinality(Left(spare, l)) = l
        /\ Left(spare, rest) \in SUBSET Bucket /\ Cardinality(Left(spare, rest)) = rest
    BY <1>1, <1>5, LeftCount DEF Skimmed
  <2>2. taken = Left(spare, l) \ Left(spare, rest)
    BY <1>7, <1>8
  <2>3. Left(spare, l) \cap Left(spare, rest) = Left(spare, rest)
    BY <1>7
  <2>4. IsFiniteSet(Left(spare, l))
    BY <2>1, SomeBuckets
  <2> HIDE DEF taken, l, rest
  <2>5. IsFiniteSet(Left(spare, l) \ Left(spare, rest))
    BY <2>4, FS_Difference
  <2>6. Cardinality(Left(spare, l) \ Left(spare, rest)) =
           Cardinality(Left(spare, l)) - Cardinality(Left(spare, l) \cap Left(spare, rest))
    BY <2>4, FS_Difference
  <2>7. IsFiniteSet(taken) /\ Cardinality(taken) = l - rest
    BY <2>1, <2>2, <2>3, <2>5, <2>6
  <2> QED
    BY <1>1, <1>2, <2>7 DEF rest
<1> HIDE DEF taken, next, rest, l
<1>11. next \in Deals(to)
  <2>1. next = [map |-> next.map, left |-> next.left]
    BY DEF next, take
  <2>2. next.map \in Maps(to)
    BY <1>6 DEF Maps, DealInv, Deals
  <2>3. next.left \in Int
    BY <1>1, <1>5, <1>6
  <2> QED
    BY <2>1, <2>2, <2>3 DEF Deals
<1>12. ASSUME NEW b \in Bucket, b \notin GivenUp(spare) \/ b \in Left(spare, rest)
       PROVE  next.map[b] = map[b]
  <2>1. b \notin taken /\ (b \notin GivenUp(spare) \/ b \in Left(spare, l))
    BY <1>7, <1>8, <1>9, <1>12
  <2> QED
    BY <1>6, <2>1 DEF DealInv, l
<1>13. ASSUME NEW b \in GivenUp(spare), b \notin Left(spare, rest)
       PROVE  next.map[b] < n + 1
  <2>1. b \in Bucket
    BY <1>1 DEF GivenUp
  <2>2. CASE b \in taken
    BY <1>6, <2>1, <2>2
  <2>3. CASE b \notin taken
    <3>1. b \notin Left(spare, l)
      BY <1>7, <1>13, <2>3
    <3>2. next.map[b] = state.map[b] /\ state.map[b] < n
      BY <1>6, <2>1, <2>3, <3>1 DEF DealInv, l
    <3>3. state.map[b] \in Int
      BY <2>1 DEF DealInv, Deals, Maps
    <3> QED
      BY <3>2, <3>3
  <2> QED
    BY <2>2, <2>3
<1>14. ASSUME NEW s \in 0 .. n - 1
       PROVE  Cardinality({b \in Bucket \ Left(spare, rest) : next.map[b] = s}) = quota(s, to)
  <2>1. {b \in Bucket \ Left(spare, rest) : next.map[b] = s} =
           {b \in Bucket \ Left(spare, l) : state.map[b] = s}
    <3>1. s # n
      OBVIOUS
    <3> QED
      BY <1>6, <1>7, <3>1
  <2> QED
    BY <2>1 DEF DealInv, l
<1>15. Cardinality({b \in Bucket \ Left(spare, rest) : next.map[b] = n}) = quota(n, to)
  <2>1. {b \in Bucket \ Left(spare, l) : state.map[b] = n} = Kept(map, n, spare)
    BY <1>1, NotYetDealt DEF l
  <2>2. {b \in Bucket \ Left(spare, rest) : next.map[b] = n} = Kept(map, n, spare) \cup taken
    <3>1. ASSUME NEW b \in Bucket
          PROVE  b \notin Left(spare, rest) /\ next.map[b] = n <=>
                    b \in taken \/ (b \notin Left(spare, l) /\ state.map[b] = n)
      <4>1. CASE b \in taken
        BY <1>6, <1>8, <4>1
      <4>2. CASE b \notin taken
        <5>1. next.map[b] = state.map[b] /\ (b \in Left(spare, rest) <=> b \in Left(spare, l))
          BY <1>6, <1>7, <4>2
        <5> QED
          BY <4>2, <5>1
      <4> QED
        BY <4>1, <4>2
    <3> QED
      BY <1>9, <2>1, <3>1
  <2>3. Kept(map, n, spare) \cap taken = {}
    BY <1>9 DEF Kept
  <2>4. IsFiniteSet(Kept(map, n, spare)) /\ Cardinality(Kept(map, n, spare)) \in Nat
    BY SomeBuckets DEF Kept
  <2>5. Cardinality(Kept(map, n, spare) \cup taken) =
           Cardinality(Kept(map, n, spare)) + Cardinality(taken)
              - Cardinality(Kept(map, n, spare) \cap taken)
    BY <1>10, <2>4, FS_Union
  <2>6. Cardinality(Kept(map, n, spare) \cap taken) = 0
    BY <2>3, FS_EmptySet
  <2>7. Cardinality(Kept(map, n, spare) \cup taken) = owned[n] + lacking - 0
    BY <1>3, <1>10, <2>5, <2>6
  <2>8. owned[n] + lacking - 0 = quota(n, to)
    BY <1>3, <1>4
  <2> QED
    BY <2>2, <2>7, <2>8
<1>16. ASSUME NEW s \in 0 .. (n + 1) - 1
       PROVE  Cardinality({b \in Bucket \ Left(spare, rest) : next.map[b] = s}) = quota(s, to)
  <2>1. s \in 0 .. n - 1 \/ s = n
    OBVIOUS
  <2> QED
    BY <1>14, <1>15, <2>1
<1>17. DealInv(next, n + 1, map, to, spare)
  BY <1>5, <1>6, <1>11, <1>12, <1>13, <1>16 DEF DealInv
<1> QED
  BY <1>17 DEF next, lacking

(* What rebalanceBuckets returns: every shard has its quota of buckets, and *)
(* has either kept what it had or gained nothing.                           *)
LEMMA Rebalanced ==
    ASSUME NEW to \in Nat \ {0}, NEW map \in Maps(to)
    PROVE  /\ rebalanceBuckets(map, to) \in Maps(to)
           /\ \A s \in 0 .. to - 1 :
                 LET before == BucketsOf(map, s)
                     after == BucketsOf(rebalanceBuckets(map, to), s)
                 IN  /\ Cardinality(after) = quota(s, to)
                     /\ before \subseteq after \/ after \subseteq before
<1> DEFINE owned == skimmed(map, to).owned
           spare == skimmed(map, to).spare
           deals == dealing(map, to)
           T == {n \in 0 .. to : DealInv(deals[n], n, map, to, spare)}
<1>1. Skimmed(map, to, owned, spare)
  BY SkimmingLeaves
<1>2. /\ deals[0] = [map |-> map, left |-> Len(spare)]
      /\ \A n \in 1 .. to :
            deals[n] = take(deals[n - 1], n - 1, spare, quota(n - 1, to) - owned[n - 1])
  BY DealingRuns
<1> HIDE DEF owned, spare, deals
<1>3. spare \in Seq(Bucket) /\ Len(spare) \in Nat
  BY <1>1 DEF Skimmed
<1>4. 0 \in T
  <2>1. deals[0] \in Deals(to)
    BY <1>2, <1>3 DEF Deals
  <2>2. Left(spare, Len(spare)) = GivenUp(spare)
    BY DEF Left, GivenUp
  <2>3. deals[0].map = map /\ deals[0].left = Len(spare)
    BY <1>2
  <2>4. DealInv(deals[0], 0, map, to, spare)
    BY <1>3, <2>1, <2>2, <2>3 DEF DealInv
  <2> QED
    BY <2>4
<1>5. ASSUME NEW n \in 1 .. to, n - 1 \in T PROVE n \in T
  <2> DEFINE m == n - 1
  <2>1. m \in 0 .. to - 1 /\ n = m + 1
    OBVIOUS
  <2>2. DealInv(deals[m], m, map, to, spare)
    BY <1>5
  <2>3. deals[n] = take(deals[m], m, spare, quota(m, to) - owned[m])
    BY <1>2
  <2> HIDE DEF m
  <2>4. DealInv(deals[n], m + 1, map, to, spare)
    BY <1>1, <2>1, <2>2, <2>3, DealStep
  <2> QED
    BY <2>1, <2>4
<1>6. to \in T
  <2> HIDE DEF T
  <2> QED
    BY <1>4, <1>5, UpTo
<1> DEFINE state == deals[to]
           next == rebalanceBuckets(map, to)
<1>7. DealInv(state, to, map, to, spare) /\ next = state.map
  BY <1>6 DEF rebalanceBuckets, deals
<1> HIDE DEF state, next
<1>8. next \in Maps(to) /\ state.left \in 0 .. Len(spare)
  BY <1>7 DEF DealInv, Deals
<1>9. state.left = 0
  <2> DEFINE U == Bucket \ Left(spare, state.left)
  <2>1. \A s \in 0 .. to - 1 : Cardinality({b \in U : next[b] = s}) = quota(s, to)
    BY <1>7 DEF DealInv
  <2>2. U \in SUBSET Bucket
    OBVIOUS
  <2>3. /\ Left(spare, state.left) \in SUBSET Bucket
        /\ Cardinality(Left(spare, state.left)) = state.left
    BY <1>1, <1>3, <1>8, LeftCount DEF Skimmed
  <2>4. Cardinality(U) = Cardinality(Bucket) - Cardinality(Bucket \cap Left(spare, state.left))
    BY BucketsFinite, FS_Difference
  <2>5. Bucket \cap Left(spare, state.left) = Left(spare, state.left)
    BY <2>3
  <2>6. Cardinality(U) = BUCKETS - state.left
    BY <2>3, <2>4, <2>5, BucketsFinite
  <2> HIDE DEF U
  <2>7. Cardinality(U) = BUCKETS
    BY <1>8, <2>1, <2>2, AllQuotas
  <2>8. BUCKETS \in Nat
    BY KeyAssumption
  <2>9. state.left \in Nat
    BY <1>3, <1>8
  <2> QED
    BY <2>6, <2>7, <2>8, <2>9
<1>10. Left(spare, state.left) = {}
  BY <1>9 DEF Left
<1>11. ASSUME NEW s \in 0 .. to - 1 PROVE Cardinality(BucketsOf(next, s)) = quota(s, to)
  <2>1. BucketsOf(next, s) = {b \in Bucket \ Left(spare, state.left) : state.map[b] = s}
    BY <1>7, <1>10 DEF BucketsOf
  <2> QED
    BY <1>7, <2>1 DEF DealInv
<1>12. ASSUME NEW s \in 0 .. to - 1
       PROVE  \/ BucketsOf(map, s) \subseteq BucketsOf(next, s)
              \/ BucketsOf(next, s) \subseteq BucketsOf(map, s)
  <2>1. Kept(map, s, spare) \subseteq BucketsOf(next, s)
    BY <1>7 DEF DealInv, Kept, BucketsOf
  <2>2. Kept(map, s, spare) \subseteq BucketsOf(map, s)
    BY DEF Kept, BucketsOf
  <2>3. owned[s] \in Nat /\ quota(s, to) \in Nat /\ owned[s] <= quota(s, to)
    <3>1. quota(s, to) \in Nat
      BY QuotasAdd
    <3> QED
      BY <1>1, <3>1 DEF Skimmed
  <2>4. CASE owned[s] < quota(s, to)
    BY <1>1, <2>1, <2>4 DEF Skimmed
  <2>5. CASE owned[s] = quota(s, to)
    <3>1. IsFiniteSet(BucketsOf(next, s))
      BY SomeBuckets DEF BucketsOf
    <3>2. Cardinality(Kept(map, s, spare)) = Cardinality(BucketsOf(next, s))
      BY <1>1, <1>11, <2>5 DEF Skimmed
    <3>3. BucketsOf(next, s) = Kept(map, s, spare)
      BY <2>1, <3>1, <3>2, FS_Subset
    <3> QED
      BY <2>2, <3>3
  <2> QED
    BY <2>3, <2>4, <2>5
<1> QED
  BY <1>8, <1>11, <1>12 DEF next

(* However the buckets were assigned, rebalanceBuckets deals every shard    *)
(* its quota, and a bucket goes only from a shard that had too many to one  *)
(* that had too few ("minimal", resharding.ts:55-58).                       *)
THEOREM MovesLeastTheorem ==
    ASSUME NEW to \in Nat \ {0}, NEW map \in [Bucket -> 0 .. to - 1]
    PROVE  MovesLeast(map, to)
<1> DEFINE next == rebalanceBuckets(map, to)
<1>1. map \in Maps(to)
  BY DEF Maps
<1>2. \A s \in 0 .. to - 1 :
         /\ Cardinality(BucketsOf(next, s)) = quota(s, to)
         /\ \/ BucketsOf(map, s) \subseteq BucketsOf(next, s)
            \/ BucketsOf(next, s) \subseteq BucketsOf(map, s)
  BY <1>1, Rebalanced
<1> HIDE DEF next
<1>3. \A s1, s2 \in 0 .. to - 1 :
         Cardinality(BucketsOf(next, s1)) - Cardinality(BucketsOf(next, s2)) <= 1
  BY <1>2, QuotasDiffer
<1> QED
  BY <1>2, <1>3 DEF MovesLeast, next

-----------------------------------------------------------------------------
(* The buckets before the cluster grows: they go round the shards.          *)

LEMMA Remainder ==
    ASSUME NEW n \in Nat \ {0}, NEW i \in Int, NEW s \in 0 .. n - 1
    PROVE  (n * i + s) \div n = i /\ (n * i + s) % n = s
<1> DEFINE x == n * i + s
           d == x \div n
           m == x % n
<1>1. x \in Int /\ d \in Int /\ m \in 0 .. n - 1 /\ x = n * d + m
  OBVIOUS
<1>2. x = n * i + s
  OBVIOUS
<1> HIDE DEF x, d, m
<1>3. n * (i - d) = m - s
  BY <1>1, <1>2
<1>4. i - d < 1
  <2> SUFFICES ASSUME i - d >= 1 PROVE FALSE
    BY <1>1
  <2>1. n * (i - d) >= n
    BY <1>1
  <2> QED
    BY <1>1, <1>3, <2>1
<1>5. d - i < 1
  <2> SUFFICES ASSUME d - i >= 1 PROVE FALSE
    BY <1>1
  <2>1. n * (d - i) >= n /\ n * (d - i) = s - m
    BY <1>1, <1>3
  <2> QED
    BY <1>1, <2>1
<1>6. d = i
  BY <1>1, <1>4, <1>5
<1>7. m = s
  BY <1>1, <1>2, <1>6
<1> QED
  BY <1>6, <1>7 DEF d, m, x

LEMMA RoundTheShards ==
    ASSUME NEW from \in Nat \ {0}, NEW s \in 0 .. from - 1
    PROVE  Cardinality({b \in Bucket : b % from = s}) = quota(s, from)
<1> DEFINE q == BUCKETS \div from
           r == BUCKETS % from
           k == quota(s, from)
           T == {b \in Bucket : b % from = s}
           f == [i \in 0 .. k - 1 |-> from * i + s]
<1>1. q \in Nat /\ r \in 0 .. from - 1 /\ BUCKETS = from * q + r /\ BUCKETS \in Nat
  BY Division
<1>2. k = q + IF s < r THEN 1 ELSE 0
  BY DEF quota
<1> HIDE DEF q, r, k
<1>3. k \in Nat
  BY <1>1, <1>2
<1>4. \A i \in Int : from * i \in Int
  OBVIOUS
<1>5. \A i \in Nat : from * i + s < BUCKETS <=> i < k
  <2> SUFFICES ASSUME NEW i \in Nat PROVE from * i + s < BUCKETS <=> i < k
    OBVIOUS
  <2>1. CASE i < q
    <3>1. from * (i + 1) <= from * q /\ from * (i + 1) = from * i + from
      BY <1>1, <2>1
    <3> QED
      BY <1>1, <1>2, <1>4, <2>1, <3>1
  <2>2. CASE i = q
    BY <1>1, <1>2, <1>4, <2>2
  <2>3. CASE i > q
    <3>1. from * (q + 1) <= from * i /\ from * (q + 1) = from * q + from
      BY <1>1, <2>3
    <3> QED
      BY <1>1, <1>2, <1>4, <2>3, <3>1
  <2> QED
    BY <1>1, <2>1, <2>2, <2>3
<1>6. f \in [0 .. k - 1 -> T]
  <2> SUFFICES ASSUME NEW i \in 0 .. k - 1 PROVE from * i + s \in T
    OBVIOUS
  <2>1. (from * i + s) % from = s
    BY Remainder
  <2>2. i \in Nat /\ i < k
    BY <1>3
  <2>3. from * i + s < BUCKETS /\ from * i \in Nat
    BY <1>5, <2>2
  <2> QED
    BY <1>1, <2>1, <2>3 DEF Bucket
<1>7. ASSUME NEW i \in 0 .. k - 1, NEW j \in 0 .. k - 1, f[i] = f[j] PROVE i = j
  <2>1. from * i + s = from * j + s
    BY <1>7
  <2>2. (from * i + s) \div from = i /\ (from * j + s) \div from = j
    BY Remainder
  <2> QED
    BY <2>1, <2>2
<1>8. ASSUME NEW b \in T PROVE \E i \in 0 .. k - 1 : f[i] = b
  <2> DEFINE d == b \div from
  <2>1. b \in Nat /\ b < BUCKETS /\ b % from = s
    BY <1>1 DEF Bucket
  <2>2. d \in Nat /\ b = from * d + s
    BY <2>1
  <2> HIDE DEF d
  <2>3. d \in 0 .. k - 1
    BY <1>3, <1>5, <2>1, <2>2
  <2> QED
    BY <2>2, <2>3
<1>9. f \in Bijection(0 .. k - 1, T)
  BY <1>6, <1>7, <1>8 DEF Bijection, Injection, Surjection, IsInjective
<1>10. IsFiniteSet(0 .. k - 1) /\ Cardinality(0 .. k - 1) = k
  <2>1. 0 \in Int /\ k - 1 \in Int
    BY <1>3
  <2>2. Cardinality(0 .. k - 1) = IF 0 > k - 1 THEN 0 ELSE (k - 1) - 0 + 1
    BY <2>1, FS_Interval
  <2> QED
    BY <1>3, <2>1, <2>2, FS_Interval
<1>11. Cardinality(T) = k
  <2> HIDE DEF T, f
  <2> QED
    BY <1>9, <1>10, FS_Bijection DEF ExistsBijection
<1> QED
  BY <1>11 DEF k

LEMMA PlainMap ==
    ASSUME NEW from \in Nat \ {0}
    PROVE  buildBucketMap(from, <<>>) = [b \in Bucket |-> b % from]
BY DEF buildBucketMap

(* An old shard has its new quota already, so it takes nothing.             *)
LEMMA OldShardsTakeNothing ==
    ASSUME NEW to \in Nat \ {0}, NEW from \in 1 .. to, NEW b \in Bucket,
           rebalanceBuckets(buildBucketMap(from, <<>>), to)[b] < from
    PROVE  rebalanceBuckets(buildBucketMap(from, <<>>), to)[b] = buildBucketMap(from, <<>>)[b]
<1> DEFINE map == buildBucketMap(from, <<>>)
           next == rebalanceBuckets(map, to)
           s == next[b]
<1>1. map = [o \in Bucket |-> o % from]
  BY PlainMap
<1>2. map \in Maps(to)
  <2> SUFFICES ASSUME NEW o \in Bucket PROVE o % from \in 0 .. to - 1
    BY <1>1 DEF Maps
  <2>1. o \in Nat
    BY KeyAssumption DEF Bucket
  <2>2. o % from \in 0 .. from - 1
    BY <2>1
  <2> QED
    BY <2>2
<1>3. /\ next \in Maps(to)
      /\ \A o \in 0 .. to - 1 :
            /\ Cardinality(BucketsOf(next, o)) = quota(o, to)
            /\ \/ BucketsOf(map, o) \subseteq BucketsOf(next, o)
               \/ BucketsOf(next, o) \subseteq BucketsOf(map, o)
  <2> HIDE DEF map
  <2> QED
    BY <1>2, Rebalanced
<1>4. s \in 0 .. from - 1 /\ s \in 0 .. to - 1 /\ s \in Nat
  BY <1>3 DEF Maps
<1>5. Cardinality(BucketsOf(map, s)) = quota(s, from)
  <2> HIDE DEF s
  <2>1. BucketsOf(map, s) = {o \in Bucket : o % from = s}
    BY <1>1 DEF BucketsOf
  <2> QED
    BY <1>4, <2>1, RoundTheShards
<1> HIDE DEF map, next
<1>6. b \in BucketsOf(next, s)
  BY DEF BucketsOf
<1> HIDE DEF s
<1>7. BucketsOf(next, s) \subseteq BucketsOf(map, s)
  <2> SUFFICES ASSUME BucketsOf(map, s) \subseteq BucketsOf(next, s)
               PROVE  BucketsOf(map, s) = BucketsOf(next, s)
    BY <1>3, <1>4
  <2>1. BucketsOf(next, s) \in SUBSET Bucket /\ BucketsOf(map, s) \in SUBSET Bucket
    BY DEF BucketsOf
  <2>2. /\ IsFiniteSet(BucketsOf(next, s)) /\ Cardinality(BucketsOf(next, s)) \in Nat
        /\ Cardinality(BucketsOf(map, s)) \in Nat
    BY <2>1, SomeBuckets
  <2>3. Cardinality(BucketsOf(map, s)) <= Cardinality(BucketsOf(next, s))
    BY <2>2, FS_Subset
  <2>4. Cardinality(BucketsOf(next, s)) <= Cardinality(BucketsOf(map, s))
    BY <1>3, <1>4, <1>5, QuotaShrinks
  <2>5. Cardinality(BucketsOf(map, s)) = Cardinality(BucketsOf(next, s))
    BY <2>2, <2>3, <2>4
  <2> QED
    BY <2>2, <2>5, FS_Subset
<1>8. map[b] = s
  BY <1>6, <1>7 DEF BucketsOf
<1> QED
  BY <1>8 DEF map, next, s

-----------------------------------------------------------------------------
(* The points of a ring, sorted.                                            *)

Point == Keys \X Nat

Earlier(p, q) == p[1] < q[1] \/ (p[1] = q[1] /\ p[2] <= q[2])

Ordered(ring) == \A i, j \in 1 .. Len(ring) : i < j => Earlier(ring[i], ring[j])

PointsOf(ring, n) == {ring[i] : i \in 1 .. n}

LEMMA PointTyped ==
    ASSUME NEW p \in Point
    PROVE  p[1] \in Keys /\ p[1] \in Nat /\ p[2] \in Nat
BY ReshardingAssumption DEF Point

LEMMA Inserted ==
    ASSUME NEW ring \in Seq(Point), NEW p \in Point, NEW k \in 0 .. Len(ring)
    PROVE  /\ InsertAt(ring, k + 1, p) \in Seq(Point)
           /\ Len(InsertAt(ring, k + 1, p)) = Len(ring) + 1
           /\ \A i \in 1 .. Len(ring) + 1 :
                 InsertAt(ring, k + 1, p)[i] =
                    IF i <= k THEN ring[i] ELSE IF i = k + 1 THEN p ELSE ring[i - 1]
<1> DEFINE a == SubSeq(ring, 1, k)
           b == SubSeq(ring, k + 1, Len(ring))
<1>1. Len(ring) \in Nat
  OBVIOUS
<1>2. /\ a \in Seq(Point) /\ Len(a) = k
      /\ \A i \in 1 .. k : a[i] = ring[i]
  BY <1>1
<1>3. /\ b \in Seq(Point) /\ Len(b) = Len(ring) - k
      /\ \A i \in 1 .. Len(ring) - k : b[i] = ring[k + i]
  BY <1>1
<1>4. InsertAt(ring, k + 1, p) = (a \o <<p>>) \o b
  <2>1. (k + 1) - 1 = k
    OBVIOUS
  <2> QED
    BY <2>1 DEF InsertAt
<1> HIDE DEF a, b
<1> DEFINE c == a \o <<p>>
<1>5. /\ c \in Seq(Point) /\ Len(c) = k + 1
      /\ \A i \in 1 .. k + 1 : c[i] = IF i <= k THEN ring[i] ELSE p
  BY <1>2
<1> HIDE DEF c
<1> DEFINE d == c \o b
<1>6. /\ d \in Seq(Point) /\ Len(d) = Len(ring) + 1
      /\ \A i \in 1 .. Len(ring) + 1 : d[i] = IF i <= k + 1 THEN c[i] ELSE b[i - (k + 1)]
  BY <1>1, <1>3, <1>5
<1> HIDE DEF d
<1>7. ASSUME NEW i \in 1 .. Len(ring) + 1
      PROVE  d[i] = IF i <= k THEN ring[i] ELSE IF i = k + 1 THEN p ELSE ring[i - 1]
  <2>1. CASE i <= k + 1
    BY <1>5, <1>6, <2>1
  <2>2. CASE i > k + 1
    <3> DEFINE j == i - (k + 1)
    <3>1. j \in 1 .. Len(ring) - k /\ k + j = i - 1
      BY <1>1, <2>2
    <3>2. d[i] = b[j] /\ ~(i <= k) /\ i # k + 1
      BY <1>1, <1>6, <2>2
    <3> HIDE DEF j
    <3>3. b[j] = ring[i - 1]
      BY <1>3, <3>1
    <3> QED
      BY <3>2, <3>3
  <2>3. i <= k + 1 \/ i > k + 1
    BY <1>1
  <2> QED
    BY <2>1, <2>2, <2>3
<1>8. InsertAt(ring, k + 1, p) = d
  BY <1>4 DEF c, d
<1> QED
  BY <1>6, <1>7, <1>8

(* A point is put where the points before it are not past it, and those     *)
(* behind it are.                                                           *)
LEMMA InsertOrdered ==
    ASSUME NEW ring \in Seq(Point), Ordered(ring), NEW p \in Point,
           \A i \in 1 .. Len(ring) : ring[i][2] <= p[2]
    PROVE  /\ insert(ring, p) \in Seq(Point)
           /\ Len(insert(ring, p)) = Len(ring) + 1
           /\ Ordered(insert(ring, p))
           /\ PointsOf(insert(ring, p), Len(ring) + 1) = PointsOf(ring, Len(ring)) \cup {p}
<1> DEFINE n == Len(ring)
           Fits(k) == /\ \A i \in 1 .. k : ring[i][1] <= p[1]
                      /\ \A i \in k + 1 .. n : ring[i][1] > p[1]
           Behind == {k \in 0 .. n : \A i \in k + 1 .. n : ring[i][1] > p[1]}
<1>1. n \in Nat /\ \A i \in 1 .. n : ring[i] \in Point
  OBVIOUS
<1>2. p[1] \in Nat /\ p[2] \in Nat /\ \A i \in 1 .. n : ring[i][1] \in Nat /\ ring[i][2] \in Nat
  BY <1>1, PointTyped
<1>3. \E k \in 0 .. n : Fits(k)
  <2>1. Behind \in SUBSET Nat /\ n \in Behind
    BY <1>1
  <2>2. PICK k \in Behind : \A l \in Behind : k <= l
    <3> HIDE DEF Behind
    <3> QED
      BY <2>1, LeastNatural
  <2>3. k = 0 \/ ring[k][1] <= p[1]
    <3> SUFFICES ASSUME k # 0, ring[k][1] > p[1] PROVE FALSE
      BY <1>2
    <3>1. k - 1 \in 0 .. n /\ ~(k <= k - 1)
      BY <1>1
    <3>2. \A i \in (k - 1) + 1 .. n : i = k \/ i \in k + 1 .. n
      BY <1>1
    <3>3. k - 1 \in Behind
      BY <3>1, <3>2
    <3> QED
      BY <2>2, <3>1, <3>3
  <2>4. ASSUME NEW i \in 1 .. k PROVE ring[i][1] <= p[1]
    <3>1. k \in 1 .. n /\ i \in 1 .. n
      BY <1>1
    <3>2. i = k \/ Earlier(ring[i], ring[k])
      BY <3>1 DEF Ordered
    <3> QED
      BY <1>2, <2>3, <3>1, <3>2 DEF Earlier
  <2> QED
    BY <2>4
<1> DEFINE k == CHOOSE k \in 0 .. n : Fits(k)
           next == InsertAt(ring, k + 1, p)
<1>4. insert(ring, p) = next
  BY DEF insert
<1>5. k \in 0 .. n /\ Fits(k)
  <2> HIDE DEF Fits
  <2> QED
    BY <1>3
<1> HIDE DEF k
<1>6. /\ next \in Seq(Point) /\ Len(next) = n + 1
      /\ \A i \in 1 .. n + 1 :
            next[i] = IF i <= k THEN ring[i] ELSE IF i = k + 1 THEN p ELSE ring[i - 1]
  BY <1>5, Inserted
<1>7. k \in Nat /\ k <= n
  BY <1>1, <1>5
<1> HIDE DEF next
<1>8. ASSUME NEW i \in 1 .. n + 1, NEW j \in 1 .. n + 1, i < j PROVE Earlier(next[i], next[j])
  <2>1. CASE j <= k
    <3>1. next[i] = ring[i] /\ next[j] = ring[j] /\ i \in 1 .. n /\ j \in 1 .. n
      BY <1>1, <1>6, <1>7, <1>8, <2>1
    <3> QED
      BY <1>8, <3>1 DEF Ordered
  <2>2. CASE j = k + 1
    <3>1. next[i] = ring[i] /\ next[j] = p /\ i \in 1 .. k /\ i \in 1 .. n
      BY <1>1, <1>6, <1>7, <1>8, <2>2
    <3> QED
      BY <1>2, <1>5, <3>1 DEF Earlier
  <2>3. CASE j > k + 1 /\ i <= k
    <3>1. next[i] = ring[i] /\ next[j] = ring[j - 1] /\ i \in 1 .. n /\ j - 1 \in 1 .. n /\ i < j - 1
      BY <1>1, <1>6, <1>7, <2>3
    <3> QED
      BY <3>1 DEF Ordered
  <2>4. CASE j > k + 1 /\ i = k + 1
    <3>1. next[i] = p /\ next[j] = ring[j - 1] /\ j - 1 \in k + 1 .. n /\ j - 1 \in 1 .. n
      BY <1>1, <1>6, <1>7, <2>4
    <3> QED
      BY <1>2, <1>5, <3>1 DEF Earlier
  <2>5. CASE i > k + 1
    <3>1. /\ next[i] = ring[i - 1] /\ next[j] = ring[j - 1]
          /\ i - 1 \in 1 .. n /\ j - 1 \in 1 .. n /\ i - 1 < j - 1
      BY <1>1, <1>6, <1>7, <1>8, <2>5
    <3> QED
      BY <3>1 DEF Ordered
  <2> QED
    BY <1>7, <1>8, <2>1, <2>2, <2>3, <2>4, <2>5
<1>9. PointsOf(next, n + 1) = PointsOf(ring, n) \cup {p}
  <2>1. ASSUME NEW i \in 1 .. n + 1 PROVE next[i] \in PointsOf(ring, n) \cup {p}
    <3>1. CASE i <= k
      <4>1. next[i] = ring[i] /\ i \in 1 .. n
        BY <1>1, <1>6, <1>7, <3>1
      <4> QED
        BY <4>1 DEF PointsOf
    <3>2. CASE i = k + 1
      BY <1>6, <1>7, <3>2
    <3>3. CASE i > k + 1
      <4>1. next[i] = ring[i - 1] /\ i - 1 \in 1 .. n
        BY <1>1, <1>6, <1>7, <3>3
      <4> QED
        BY <4>1 DEF PointsOf
    <3> QED
      BY <1>7, <3>1, <3>2, <3>3
  <2>2. ASSUME NEW i \in 1 .. n PROVE ring[i] \in PointsOf(next, n + 1)
    <3>1. CASE i <= k
      <4>1. next[i] = ring[i] /\ i \in 1 .. n + 1
        BY <1>1, <1>6, <1>7, <3>1
      <4> QED
        BY <4>1 DEF PointsOf
    <3>2. CASE i > k
      <4>1. i + 1 \in 1 .. n + 1 /\ i + 1 > k + 1 /\ (i + 1) - 1 = i
        BY <1>1, <1>7, <3>2
      <4>2. next[i + 1] = ring[i]
        BY <1>6, <1>7, <4>1
      <4> QED
        BY <4>1, <4>2 DEF PointsOf
    <3> QED
      BY <1>7, <3>1, <3>2
  <2>3. p \in PointsOf(next, n + 1)
    <3>1. k + 1 \in 1 .. n + 1 /\ next[k + 1] = p
      BY <1>1, <1>6, <1>7
    <3> QED
      BY <3>1 DEF PointsOf
  <2> QED
    BY <2>1, <2>2, <2>3 DEF PointsOf
<1> QED
  BY <1>4, <1>6, <1>8, <1>9 DEF Ordered

LEMMA Sorted ==
    ASSUME NEW points \in Seq(Point),
           \A i, j \in 1 .. Len(points) : i < j => points[i][2] <= points[j][2]
    PROVE  /\ sort(points) \in Seq(Point)
           /\ Len(sort(points)) = Len(points)
           /\ Ordered(sort(points))
           /\ PointsOf(sort(points), Len(points)) = PointsOf(points, Len(points))
<1> DEFINE N == Len(points)
           step == [p \in (1 .. N) \X Seq(Point) |->
                       IF insert(p[2], points[p[1]]) \in Seq(Point)
                       THEN insert(p[2], points[p[1]]) ELSE <<>>]
           rhs(g) == [n \in 0 .. N |-> IF n = 0 THEN <<>> ELSE insert(g[n - 1], points[n])]
<1>1. N \in Nat /\ \A i \in 1 .. N : points[i] \in Point /\ points[i][2] \in Nat
  <2>1. \A i \in 1 .. N : points[i] \in Point
    OBVIOUS
  <2> QED
    BY <2>1, PointTyped
<1>2. step \in [(1 .. N) \X Seq(Point) -> Seq(Point)]
  OBVIOUS
<1>3. PICK f \in [0 .. N -> Seq(Point)] :
         f[0] = <<>> /\ \A n \in 1 .. N : f[n] = step[<<n, f[n - 1]>>]
  <2> DEFINE S == Seq(Point)
  <2>1. N \in Nat /\ <<>> \in S /\ step \in [(1 .. N) \X S -> S]
    BY <1>1, <1>2
  <2> HIDE DEF step, S, N
  <2>2. \E f : Runs(f, N, S, <<>>, step)
    BY <2>1, Recursion
  <2> USE DEF S
  <2> QED
    BY <2>2 DEF Runs
<1> DEFINE Good(n) == /\ Len(f[n]) = n
                      /\ Ordered(f[n])
                      /\ PointsOf(f[n], n) = PointsOf(points, n)
<1>4. ASSUME NEW n \in 1 .. N, Good(n - 1)
      PROVE  Good(n) /\ f[n] = insert(f[n - 1], points[n])
  <2> DEFINE ring == f[n - 1]
             p == points[n]
  <2>1. n - 1 \in 0 .. N /\ n \in Nat /\ ring \in Seq(Point) /\ Len(ring) = n - 1
    BY <1>1, <1>4
  <2>2. p \in Point
    BY <1>1
  <2>3. ASSUME NEW i \in 1 .. Len(ring) PROVE ring[i][2] <= p[2]
    <3>1. ring[i] \in PointsOf(points, n - 1)
      BY <1>4, <2>1 DEF PointsOf
    <3>2. PICK j \in 1 .. n - 1 : ring[i] = points[j]
      BY <3>1 DEF PointsOf
    <3>3. j \in 1 .. N /\ j < n
      BY <1>1, <2>1
    <3> QED
      BY <3>2, <3>3
  <2>4. step[<<n, ring>>] = IF insert(ring, p) \in Seq(Point) THEN insert(ring, p) ELSE <<>>
    BY <2>1
  <2>5. f[n] = step[<<n, ring>>]
    BY <1>3
  <2>6. Ordered(ring) /\ PointsOf(ring, n - 1) = PointsOf(points, n - 1)
    BY <1>4
  <2> HIDE DEF ring, p, step
  <2>7. /\ insert(ring, p) \in Seq(Point)
        /\ Len(insert(ring, p)) = Len(ring) + 1
        /\ Ordered(insert(ring, p))
        /\ PointsOf(insert(ring, p), Len(ring) + 1) = PointsOf(ring, Len(ring)) \cup {p}
    BY <2>1, <2>2, <2>3, <2>6, InsertOrdered
  <2>8. f[n] = insert(ring, p)
    BY <2>4, <2>5, <2>7
  <2>9. PointsOf(points, n) = PointsOf(points, n - 1) \cup {p}
    <3>1. \A i : i \in 1 .. n <=> i \in 1 .. n - 1 \/ i = n
      BY <2>1
    <3> QED
      BY <3>1 DEF PointsOf, p
  <2>10. Len(ring) + 1 = n /\ Len(ring) = n - 1
    BY <2>1
  <2>11. Good(n)
    BY <2>6, <2>7, <2>8, <2>9, <2>10
  <2> QED
    BY <2>8, <2>11 DEF ring, p
<1>5. \A n \in 0 .. N : Good(n)
  <2> DEFINE T == {n \in 0 .. N : Good(n)}
  <2>1. Good(0)
    BY <1>3 DEF Ordered, PointsOf
  <2>2. 0 \in T
    BY <1>1, <2>1
  <2>3. ASSUME NEW n \in 1 .. N, n - 1 \in T PROVE n \in T
    <3>1. Good(n)
      BY <1>4, <2>3
    <3>2. n \in 0 .. N
      BY <1>1
    <3> HIDE DEF Good
    <3> QED
      BY <3>1, <3>2
  <2>4. \A n \in 0 .. N : n \in T
    <3> HIDE DEF T
    <3> QED
      BY <1>1, <2>2, <2>3, UpTo
  <2> HIDE DEF Good
  <2> QED
    BY <2>4
<1>6. f = rhs(f)
  <2>1. ASSUME NEW n \in 1 .. N PROVE f[n] = insert(f[n - 1], points[n])
    <3>1. n - 1 \in 0 .. N
      BY <1>1
    <3> HIDE DEF step
    <3> QED
      BY <1>4, <1>5, <3>1
  <2>2. ASSUME NEW n \in 0 .. N PROVE f[n] = rhs(f)[n]
    <3>1. n = 0 \/ n \in 1 .. N
      BY <1>1
    <3>2. rhs(f)[n] = IF n = 0 THEN <<>> ELSE insert(f[n - 1], points[n])
      OBVIOUS
    <3> HIDE DEF rhs, step
    <3> QED
      BY <1>1, <1>3, <2>1, <3>1, <3>2
  <2> QED
    BY <2>2
<1> DEFINE after == sorting(points)
<1>7. after = rhs(after)
  <2>1. after = CHOOSE g : g = rhs(g)
    BY DEF sorting
  <2> HIDE DEF rhs, after
  <2> QED
    BY <1>6, <2>1
<1> HIDE DEF after
<1>8. \A n \in 0 .. N : after[n] = IF n = 0 THEN <<>> ELSE insert(after[n - 1], points[n])
  BY <1>7
<1>9. \A n \in 0 .. N : f[n] = IF n = 0 THEN <<>> ELSE insert(f[n - 1], points[n])
  BY <1>6
<1> HIDE DEF rhs, step
<1>10. \A n \in 0 .. N : after[n] = f[n]
  <2> DEFINE T == {n \in 0 .. N : after[n] = f[n]}
  <2>1. 0 \in T
    BY <1>1, <1>8, <1>9
  <2>2. ASSUME NEW n \in 1 .. N, n - 1 \in T PROVE n \in T
    <3>1. n \in 0 .. N /\ n # 0
      BY <1>1
    <3> QED
      BY <1>8, <1>9, <2>2, <3>1
  <2>3. \A n \in 0 .. N : n \in T
    <3> HIDE DEF T
    <3> QED
      BY <1>1, <2>1, <2>2, UpTo
  <2> QED
    BY <2>3
<1>11. sort(points) = f[N] /\ N \in 0 .. N
  BY <1>1, <1>10 DEF sort, after
<1> QED
  BY <1>3, <1>5, <1>11

-----------------------------------------------------------------------------
(* The binary search.                                                       *)

\* Of the points between lo and hi those up to i are before the key.
Ends(points, key, lo, hi, i) ==
    /\ i \in lo .. hi
    /\ \A j \in lo + 1 .. i : points[j][1] < key
    /\ \A j \in i + 1 .. hi : points[j][1] >= key

LEMMA OneEnd ==
    ASSUME NEW points \in Seq(Point), Ordered(points), NEW key \in Nat,
           NEW lo \in 0 .. Len(points), NEW hi \in lo .. Len(points)
    PROVE  /\ \E i : Ends(points, key, lo, hi, i)
           /\ \A i, k : Ends(points, key, lo, hi, i) /\ Ends(points, key, lo, hi, k) => i = k
<1> DEFINE N == Len(points)
           Behind == {i \in lo .. hi : \A j \in i + 1 .. hi : points[j][1] >= key}
<1>1. N \in Nat /\ lo \in Nat /\ hi \in Nat /\ lo <= hi /\ hi <= N
  OBVIOUS
<1>2. \A j \in 1 .. N : points[j] \in Point /\ points[j][1] \in Nat
  <2>1. \A j \in 1 .. N : points[j] \in Point
    OBVIOUS
  <2> QED
    BY <2>1, PointTyped
<1>3. PICK i \in Behind : \A k \in Behind : i <= k
  <2>1. Behind \in SUBSET Nat /\ hi \in Behind
    BY <1>1
  <2> HIDE DEF Behind
  <2> QED
    BY <2>1, LeastNatural
<1>4. i \in lo .. hi /\ \A j \in i + 1 .. hi : points[j][1] >= key
  OBVIOUS
<1>5. i > lo => points[i][1] < key
  <2> SUFFICES ASSUME i > lo, points[i][1] >= key PROVE FALSE
    BY <1>1, <1>2, <1>4
  <2>1. i - 1 \in lo .. hi /\ ~(i <= i - 1)
    BY <1>1, <1>4
  <2>2. \A j \in (i - 1) + 1 .. hi : j = i \/ j \in i + 1 .. hi
    BY <1>1, <1>4
  <2>3. i - 1 \in Behind
    BY <1>4, <2>1, <2>2
  <2> HIDE DEF Behind
  <2> QED
    BY <1>3, <2>1, <2>3
<1>6. ASSUME NEW j \in lo + 1 .. i PROVE points[j][1] < key
  <2>1. j \in 1 .. N /\ i \in 1 .. N /\ i > lo /\ (j = i \/ j < i)
    BY <1>1, <1>4
  <2>2. j = i \/ Earlier(points[j], points[i])
    BY <2>1 DEF Ordered
  <2>3. points[j][1] <= points[i][1]
    BY <1>2, <2>1, <2>2 DEF Earlier
  <2> QED
    BY <1>2, <1>5, <2>1, <2>3
<1>7. Ends(points, key, lo, hi, i)
  BY <1>4, <1>6 DEF Ends
<1>8. ASSUME NEW a, NEW b, Ends(points, key, lo, hi, a), Ends(points, key, lo, hi, b), a < b
      PROVE  FALSE
  <2>1. b \in lo + 1 .. b /\ b \in a + 1 .. hi /\ b \in 1 .. N
    BY <1>1, <1>8 DEF Ends
  <2>2. points[b][1] < key /\ points[b][1] >= key
    BY <1>8, <2>1 DEF Ends
  <2> QED
    BY <1>2, <2>1, <2>2
<1>9. ASSUME NEW a, NEW b, Ends(points, key, lo, hi, a), Ends(points, key, lo, hi, b)
      PROVE  a = b
  <2>1. a \in Nat /\ b \in Nat
    BY <1>1, <1>9 DEF Ends
  <2>2. ~(a < b)
    BY <1>8, <1>9
  <2>3. ~(b < a)
    BY <1>8, <1>9
  <2> QED
    BY <2>1, <2>2, <2>3
<1> QED
  BY <1>7, <1>9

\* The search goes on in the half where it ends.
LEMMA Halves ==
    ASSUME NEW points \in Seq(Point), Ordered(points), NEW key \in Nat,
           NEW lo \in 0 .. Len(points), NEW hi \in lo .. Len(points),
           NEW mid \in lo .. hi - 1, NEW i
    PROVE  IF points[mid + 1][1] < key
           THEN Ends(points, key, mid + 1, hi, i) => Ends(points, key, lo, hi, i)
           ELSE Ends(points, key, lo, mid, i) => Ends(points, key, lo, hi, i)
<1> DEFINE N == Len(points)
           m == mid + 1
<1>1. /\ N \in Nat /\ lo \in Nat /\ hi \in Nat /\ m \in Nat
      /\ lo < m /\ m <= hi /\ hi <= N /\ m \in 1 .. N /\ mid = m - 1
  OBVIOUS
<1>2. \A j \in 1 .. N : points[j][1] \in Nat
  <2>1. \A j \in 1 .. N : points[j] \in Point
    OBVIOUS
  <2> QED
    BY <2>1, PointTyped
<1>3. \A j, k \in 1 .. N : j <= k => points[j][1] <= points[k][1]
  <2> SUFFICES ASSUME NEW j \in 1 .. N, NEW k \in 1 .. N, j <= k
               PROVE  points[j][1] <= points[k][1]
    OBVIOUS
  <2>1. j = k \/ Earlier(points[j], points[k])
    BY DEF Ordered
  <2> QED
    BY <1>2, <2>1 DEF Earlier
<1> HIDE DEF m, N
<1>4. ASSUME points[m][1] < key, Ends(points, key, m, hi, i)
      PROVE  Ends(points, key, lo, hi, i)
  <2>1. i \in m .. hi
    BY <1>4 DEF Ends
  <2>2. ASSUME NEW j \in lo + 1 .. i PROVE points[j][1] < key
    <3>1. j \in 1 .. N /\ (j <= m \/ j \in m + 1 .. i)
      BY <1>1, <2>1
    <3>2. CASE j <= m
      <4>1. points[j][1] <= points[m][1]
        BY <1>1, <1>3, <3>1, <3>2
      <4> QED
        BY <1>1, <1>2, <1>4, <3>1, <4>1
    <3>3. CASE j \in m + 1 .. i
      BY <1>4, <3>3 DEF Ends
    <3> QED
      BY <3>1, <3>2, <3>3
  <2> QED
    BY <1>1, <1>4, <2>1, <2>2 DEF Ends
<1>5. ASSUME ~(points[m][1] < key), Ends(points, key, lo, mid, i)
      PROVE  Ends(points, key, lo, hi, i)
  <2>1. i \in lo .. m - 1
    BY <1>1, <1>5 DEF Ends
  <2>2. ASSUME NEW j \in i + 1 .. hi PROVE points[j][1] >= key
    <3>1. j \in 1 .. N /\ (j >= m \/ j \in i + 1 .. mid)
      BY <1>1, <2>1
    <3>2. CASE j >= m
      <4>1. points[m][1] <= points[j][1]
        BY <1>1, <1>3, <3>1, <3>2
      <4> QED
        BY <1>1, <1>2, <1>5, <3>1, <4>1
    <3>3. CASE j \in i + 1 .. mid
      BY <1>5, <3>3 DEF Ends
    <3> QED
      BY <3>1, <3>2, <3>3
  <2> QED
    BY <1>1, <1>5, <2>1, <2>2 DEF Ends
<1> QED
  BY <1>4, <1>5 DEF m

\* The function that the search computes, in one step.
Ending(points, key, span) ==
    IF span[1] >= span[2] THEN span[1]
    ELSE CHOOSE i : Ends(points, key, span[1], span[2], i)

LEMMA EndingEnds ==
    ASSUME NEW points \in Seq(Point), Ordered(points), NEW key \in Nat,
           NEW lo \in 0 .. Len(points), NEW hi \in lo .. Len(points)
    PROVE  Ends(points, key, lo, hi, Ending(points, key, <<lo, hi>>))
<1>1. lo \in Nat /\ hi \in Nat /\ lo <= hi
  OBVIOUS
<1>2. CASE lo = hi
  <2>1. Ending(points, key, <<lo, hi>>) = lo
    BY <1>1, <1>2 DEF Ending
  <2>2. Ends(points, key, lo, hi, lo)
    BY <1>1, <1>2 DEF Ends
  <2> QED
    BY <2>1, <2>2
<1>3. CASE lo < hi
  <2>1. Ending(points, key, <<lo, hi>>) = CHOOSE i : Ends(points, key, lo, hi, i)
    BY <1>1, <1>3 DEF Ending
  <2> QED
    BY <2>1, OneEnd
<1> QED
  BY <1>1, <1>2, <1>3

LEMMA Middle ==
    ASSUME NEW lo \in Nat, NEW hi \in Nat, lo < hi
    PROVE  (lo + hi) \div 2 \in lo .. hi - 1
OBVIOUS

SearchStep(points, key, g, span) ==
    LET mid == (span[1] + span[2]) \div 2
    IN  IF span[1] >= span[2] THEN span[1]
        ELSE IF points[mid + 1][1] < key THEN g[<<mid + 1, span[2]>>]
        ELSE g[<<span[1], mid>>]

LEMMA SearchingSteps ==
    ASSUME NEW points \in Seq(Point), Ordered(points), NEW key \in Nat
    PROVE  \A span \in (0 .. Len(points)) \X (0 .. Len(points)) :
              searching(points, key)[span] = SearchStep(points, key, searching(points, key), span)
<1> DEFINE N == Len(points)
           Spans == (0 .. N) \X (0 .. N)
           rhs(g) == [span \in Spans |-> SearchStep(points, key, g, span)]
           w == [span \in Spans |-> Ending(points, key, span)]
<1>1. N \in Nat
  OBVIOUS
<1>2. ASSUME NEW span \in Spans PROVE w[span] = SearchStep(points, key, w, span)
  <2> DEFINE lo == span[1]
             hi == span[2]
             mid == (lo + hi) \div 2
  <2>1. lo \in 0 .. N /\ hi \in 0 .. N /\ span = <<lo, hi>> /\ lo \in Nat /\ hi \in Nat
    BY <1>1
  <2>2. w[span] = Ending(points, key, span)
    OBVIOUS
  <2>3. CASE lo >= hi
    BY <2>2, <2>3 DEF Ending, SearchStep
  <2>4. CASE ~(lo >= hi)
    <3>1. mid \in lo .. hi - 1
      BY <2>1, <2>4, Middle
    <3>2. SearchStep(points, key, w, span) = IF points[mid + 1][1] < key THEN w[<<mid + 1, hi>>]
                                             ELSE w[<<lo, mid>>]
      BY <2>4 DEF SearchStep
    <3> HIDE DEF mid, lo, hi, N
    <3>3. /\ hi \in lo .. N /\ mid + 1 \in 0 .. N /\ hi \in mid + 1 .. N
          /\ mid \in 0 .. N /\ mid \in lo .. N
      BY <1>1, <2>1, <2>4, <3>1
    <3>4. Ends(points, key, lo, hi, Ending(points, key, <<lo, hi>>))
      BY <2>1, <3>3, EndingEnds DEF N
    <3>5. \A i, k : Ends(points, key, lo, hi, i) /\ Ends(points, key, lo, hi, k) => i = k
      BY <2>1, <3>3, OneEnd DEF N
    <3>6. CASE points[mid + 1][1] < key
      <4>1. Ends(points, key, mid + 1, hi, Ending(points, key, <<mid + 1, hi>>))
        BY <3>3, EndingEnds DEF N
      <4>2. Ends(points, key, lo, hi, Ending(points, key, <<mid + 1, hi>>))
        BY <2>1, <3>1, <3>3, <3>6, <4>1, Halves DEF N
      <4>3. w[<<mid + 1, hi>>] = Ending(points, key, <<mid + 1, hi>>)
        BY <2>1, <3>3
      <4> HIDE DEF w
      <4> QED
        BY <2>1, <2>2, <3>2, <3>4, <3>5, <3>6, <4>2, <4>3
    <3>7. CASE ~(points[mid + 1][1] < key)
      <4>1. Ends(points, key, lo, mid, Ending(points, key, <<lo, mid>>))
        BY <2>1, <3>3, EndingEnds DEF N
      <4>2. Ends(points, key, lo, hi, Ending(points, key, <<lo, mid>>))
        BY <2>1, <3>1, <3>3, <3>7, <4>1, Halves DEF N
      <4>3. w[<<lo, mid>>] = Ending(points, key, <<lo, mid>>)
        BY <2>1, <3>3
      <4> HIDE DEF w
      <4> QED
        BY <2>1, <2>2, <3>2, <3>4, <3>5, <3>7, <4>2, <4>3
    <3> QED
      BY <3>6, <3>7
  <2> QED
    BY <2>3, <2>4
<1>3. w = rhs(w)
  <2>1. \A span \in Spans : w[span] = rhs(w)[span]
    BY <1>2
  <2> QED
    BY <2>1
<1> DEFINE search == searching(points, key)
<1>4. search = rhs(search)
  <2>1. search = CHOOSE g : g = rhs(g)
    BY DEF searching, SearchStep
  <2> HIDE DEF rhs, search, w
  <2> QED
    BY <1>3, <2>1
<1> HIDE DEF search
<1> QED
  BY <1>4 DEF search

LEMMA SearchEnds ==
    ASSUME NEW points \in Seq(Point), Ordered(points), NEW key \in Nat
    PROVE  Ends(points, key, 0, Len(points), searching(points, key)[<<0, Len(points)>>])
<1> DEFINE N == Len(points)
           search == searching(points, key)
           Found(d) == \A lo, hi \in 0 .. N :
                          lo <= hi /\ hi - lo <= d => Ends(points, key, lo, hi, search[<<lo, hi>>])
<1>1. N \in Nat
  OBVIOUS
<1>2. \A span \in (0 .. N) \X (0 .. N) : search[span] = SearchStep(points, key, search, span)
  BY SearchingSteps
<1> HIDE DEF search
<1>3. ASSUME NEW lo \in 0 .. N, NEW hi \in 0 .. N
      PROVE  LET mid == (lo + hi) \div 2
             IN  search[<<lo, hi>>] = IF lo >= hi THEN lo
                                      ELSE IF points[mid + 1][1] < key
                                           THEN search[<<mid + 1, hi>>]
                                      ELSE search[<<lo, mid>>]
  <2>1. <<lo, hi>> \in (0 .. N) \X (0 .. N) /\ <<lo, hi>>[1] = lo /\ <<lo, hi>>[2] = hi
    OBVIOUS
  <2>2. search[<<lo, hi>>] = SearchStep(points, key, search, <<lo, hi>>)
    BY <1>2, <2>1
  <2> QED
    BY <2>2 DEF SearchStep
<1>4. ASSUME NEW lo \in 0 .. N PROVE Ends(points, key, lo, lo, search[<<lo, lo>>])
  <2>1. search[<<lo, lo>>] = lo
    <3>1. lo >= lo
      BY <1>1
    <3>2. search[<<lo, lo>>] = IF lo >= lo THEN lo
                               ELSE IF points[((lo + lo) \div 2) + 1][1] < key
                                    THEN search[<<((lo + lo) \div 2) + 1, lo>>]
                               ELSE search[<<lo, (lo + lo) \div 2>>]
      BY <1>3, Zenon
    <3> QED
      BY <3>1, <3>2, Zenon
  <2>2. Ends(points, key, lo, lo, lo)
    BY <1>1 DEF Ends
  <2> QED
    BY <2>1, <2>2
<1>5. Found(0)
  <2> SUFFICES ASSUME NEW lo \in 0 .. N, NEW hi \in 0 .. N, lo <= hi, hi - lo <= 0
               PROVE  Ends(points, key, lo, hi, search[<<lo, hi>>])
    OBVIOUS
  <2>1. lo = hi
    BY <1>1
  <2> QED
    BY <1>4, <2>1
<1>6. ASSUME NEW d \in 1 .. N, Found(d - 1) PROVE Found(d)
  <2> SUFFICES ASSUME NEW lo \in 0 .. N, NEW hi \in 0 .. N, lo <= hi, hi - lo <= d
               PROVE  Ends(points, key, lo, hi, search[<<lo, hi>>])
    OBVIOUS
  <2>1. lo \in Nat /\ hi \in Nat /\ d \in Nat /\ (lo = hi \/ lo < hi)
    BY <1>1
  <2>2. CASE lo = hi
    BY <1>4, <2>2
  <2>3. CASE lo < hi
    <3> DEFINE mid == (lo + hi) \div 2
    <3>1. mid \in lo .. hi - 1
      BY <2>1, <2>3, Middle
    <3>2. search[<<lo, hi>>] = IF points[mid + 1][1] < key THEN search[<<mid + 1, hi>>]
                               ELSE search[<<lo, mid>>]
      BY <1>3, <2>1, <2>3
    <3> HIDE DEF mid, N
    <3>3. /\ hi \in lo .. N /\ mid + 1 \in 0 .. N /\ mid + 1 <= hi /\ hi - (mid + 1) <= d - 1
          /\ mid \in 0 .. N /\ lo <= mid /\ mid - lo <= d - 1
      BY <1>1, <2>1, <2>3, <3>1
    <3>4. CASE points[mid + 1][1] < key
      <4>1. Ends(points, key, mid + 1, hi, search[<<mid + 1, hi>>])
        BY <1>6, <3>3
      <4>2. Ends(points, key, lo, hi, search[<<mid + 1, hi>>])
        BY <3>1, <3>3, <3>4, <4>1, Halves DEF N
      <4> QED
        BY <3>2, <3>4, <4>2
    <3>5. CASE ~(points[mid + 1][1] < key)
      <4>1. Ends(points, key, lo, mid, search[<<lo, mid>>])
        BY <1>6, <3>3
      <4>2. Ends(points, key, lo, hi, search[<<lo, mid>>])
        BY <3>1, <3>3, <3>5, <4>1, Halves DEF N
      <4> QED
        BY <3>2, <3>5, <4>2
    <3> QED
      BY <3>4, <3>5
  <2> QED
    BY <2>1, <2>2, <2>3
<1>7. \A d \in 0 .. N : Found(d)
  <2> DEFINE T == {d \in 0 .. N : Found(d)}
  <2> HIDE DEF Found
  <2>1. 0 \in T
    BY <1>1, <1>5
  <2>2. \A d \in 1 .. N : d - 1 \in T => d \in T
    BY <1>1, <1>6
  <2>3. \A d \in 0 .. N : d \in T
    <3> HIDE DEF T
    <3> QED
      BY <1>1, <2>1, <2>2, UpTo
  <2> QED
    BY <2>3
<1>8. 0 \in 0 .. N /\ N \in 0 .. N /\ 0 <= N /\ N - 0 <= N
  BY <1>1
<1> HIDE DEF N
<1>9. Ends(points, key, 0, N, search[<<0, N>>])
  BY <1>7, <1>8
<1> QED
  BY <1>9 DEF N, search

(* On a ring in order the search finds the next point.                      *)
LEMMA OrderedIsClockwise ==
    ASSUME NEW points \in Seq(Point), Ordered(points), Len(points) > 0
    PROVE  Clockwise(points)
<1> DEFINE N == Len(points)
           nodes == PointsOf(points, N)
           ahead(hash) == {p \in nodes : p[1] >= hash}
           candidates(hash) == IF ahead(hash) = {} THEN nodes ELSE ahead(hash)
<1>1. N \in Nat /\ 1 \in 1 .. N
  OBVIOUS
<1>2. \A j \in 1 .. N : points[j] \in Point /\ points[j][1] \in Nat /\ points[j][2] \in Nat
  <2>1. \A j \in 1 .. N : points[j] \in Point
    OBVIOUS
  <2> QED
    BY <2>1, PointTyped
<1>3. Range(points) = nodes
  <2>1. DOMAIN points = 1 .. N
    OBVIOUS
  <2> QED
    BY <2>1 DEF Range, PointsOf
<1>4. \A j, k \in 1 .. N : j <= k => Earlier(points[j], points[k])
  <2> SUFFICES ASSUME NEW j \in 1 .. N, NEW k \in 1 .. N, j <= k
               PROVE  Earlier(points[j], points[k])
    OBVIOUS
  <2>1. j = k \/ j < k
    BY <1>1
  <2>2. CASE j = k
    BY <1>2, <2>2 DEF Earlier
  <2>3. CASE j < k
    BY <2>3 DEF Ordered
  <2> QED
    BY <2>1, <2>2, <2>3
<1>5. ASSUME NEW hash \in Keys
      PROVE  \E first \in candidates(hash) :
                /\ \A p \in candidates(hash) : Earlier(first, p)
                /\ shardOf(points, hash) = first[2]
  <2> DEFINE i == searching(points, hash)[<<0, N>>]
  <2>1. hash \in Nat
    BY ReshardingAssumption
  <2>2. Ends(points, hash, 0, N, i)
    BY <2>1, SearchEnds
  <2>3. shardOf(points, hash) = points[1 + IF i = N THEN 0 ELSE i][2]
    BY DEF shardOf
  <2> HIDE DEF i, N
  <2>4. /\ i \in 0 .. N
        /\ \A j \in 1 .. i : points[j][1] < hash
        /\ \A j \in i + 1 .. N : points[j][1] >= hash
    BY <2>2 DEF Ends
  <2>5. CASE i = N
    <3>1. ahead(hash) = {}
      BY <1>1, <1>2, <2>1, <2>4, <2>5 DEF PointsOf
    <3>2. points[1] \in nodes /\ \A p \in nodes : Earlier(points[1], p)
      BY <1>1, <1>4 DEF PointsOf
    <3>3. shardOf(points, hash) = points[1][2]
      BY <2>3, <2>5
    <3> HIDE DEF nodes, ahead
    <3> QED
      BY <3>1, <3>2, <3>3
  <2>6. CASE i # N
    <3> DEFINE first == points[i + 1]
    <3>1. i + 1 \in 1 .. N /\ i + 1 \in i + 1 .. N /\ i \in Nat
      BY <1>1, <2>4, <2>6
    <3>2. first \in ahead(hash)
      BY <2>4, <3>1 DEF PointsOf
    <3>3. ASSUME NEW p \in ahead(hash) PROVE Earlier(first, p)
      <4>1. PICK j \in 1 .. N : p = points[j]
        BY DEF PointsOf
      <4>2. ~(j \in 1 .. i)
        BY <1>2, <2>1, <2>4, <4>1
      <4>3. i + 1 <= j
        BY <1>1, <3>1, <4>2
      <4> QED
        BY <1>4, <3>1, <4>1, <4>3
    <3>4. shardOf(points, hash) = first[2]
      <4>1. 1 + i = i + 1
        BY <3>1
      <4> QED
        BY <2>3, <2>6, <4>1
    <3> HIDE DEF ahead, nodes, first
    <3> QED
      BY <3>2, <3>3, <3>4
  <2> QED
    BY <2>5, <2>6
<1> QED
  BY <1>3, <1>5 DEF Clockwise, Earlier

-----------------------------------------------------------------------------
(* The ring of a cluster.                                                   *)

RingPoints(count, position) ==
    {<<position[s][v], s>> : s \in 0 .. count - 1, v \in 1 .. VNodes}

\* The points in the order in which the code pushes them.
Pushed(count, position) ==
    [i \in 1 .. count * VNodes |->
        LET shard == (i - 1) \div VNodes
        IN  <<position[shard][1 + ((i - 1) % VNodes)], shard>>]

LEMMA PushedPoints ==
    ASSUME NEW all \in Nat \ {0}, NEW count \in 1 .. all, NEW position \in Positions(all)
    PROVE  /\ Pushed(count, position) \in Seq(Point)
           /\ Len(Pushed(count, position)) = count * VNodes
           /\ count * VNodes \in Nat \ {0}
           /\ \A i, j \in 1 .. count * VNodes :
                 i < j => Pushed(count, position)[i][2] <= Pushed(count, position)[j][2]
           /\ PointsOf(Pushed(count, position), count * VNodes) = RingPoints(count, position)
<1> DEFINE V == VNodes
           M == count * V
           d(i) == (i - 1) \div V
           m(i) == (i - 1) % V
           pushed == Pushed(count, position)
<1>1. V \in Nat \ {0} /\ count \in Nat \ {0} /\ count <= all
  BY ReshardingAssumption
<1>2. M \in Nat \ {0}
  <2>1. 1 * V <= M /\ M \in Nat
    BY <1>1
  <2> QED
    BY <1>1, <2>1
<1>3. ASSUME NEW i \in 1 .. M
      PROVE  /\ d(i) \in 0 .. count - 1 /\ m(i) \in 0 .. V - 1
             /\ i - 1 = V * d(i) + m(i)
  <2>1. d(i) \in Nat /\ m(i) \in 0 .. V - 1 /\ i - 1 = V * d(i) + m(i)
    BY <1>1
  <2> HIDE DEF d, m, V
  <2>2. d(i) < count
    <3> SUFFICES ASSUME count <= d(i) PROVE FALSE
      BY <1>1, <2>1
    <3>1. count * V <= d(i) * V /\ d(i) * V = V * d(i)
      BY <1>1, <2>1
    <3>2. i - 1 < M
      BY <1>2
    <3> QED
      BY <1>1, <1>2, <2>1, <3>1, <3>2
  <2> QED
    BY <1>1, <2>1, <2>2
<1>4. pushed = [i \in 1 .. M |-> <<position[d(i)][1 + m(i)], d(i)>>]
  BY DEF Pushed
<1>5. ASSUME NEW s \in 0 .. count - 1, NEW v \in 1 .. V
      PROVE  position[s][v] \in Keys
  BY <1>1 DEF Positions
<1> HIDE DEF d, m, M, V, pushed
<1>6. ASSUME NEW i \in 1 .. M
      PROVE  /\ pushed[i] = <<position[d(i)][1 + m(i)], d(i)>>
             /\ 1 + m(i) \in 1 .. V /\ pushed[i] \in Point
  <2>1. pushed[i] = <<position[d(i)][1 + m(i)], d(i)>>
    BY <1>4
  <2>2. 1 + m(i) \in 1 .. V
    BY <1>1, <1>3
  <2>3. d(i) \in Nat /\ position[d(i)][1 + m(i)] \in Keys
    BY <1>1, <1>3, <1>5, <2>2
  <2> QED
    BY <2>1, <2>2, <2>3 DEF Point
<1>7. pushed \in Seq(Point) /\ Len(pushed) = M
  <2>1. pushed \in [1 .. M -> Point]
    BY <1>4, <1>6
  <2>2. pushed \in Seq(Point)
    BY <1>2, <2>1, IsASeq
  <2>3. DOMAIN pushed = 1 .. Len(pushed) /\ Len(pushed) \in Nat
    BY <2>2, LenProperties
  <2>4. DOMAIN pushed = 1 .. M
    BY <2>1
  <2> DEFINE L == Len(pushed)
  <2>5. L \in Nat /\ 1 .. L = 1 .. M
    BY <2>3, <2>4
  <2> HIDE DEF L
  <2>6. M \in 1 .. L
    BY <1>2, <2>5
  <2>7. L \in 1 .. M
    BY <2>5, <2>6
  <2>8. L = M
    BY <1>2, <2>5, <2>6, <2>7
  <2> QED
    BY <2>2, <2>8 DEF L
<1>8. ASSUME NEW i \in 1 .. M, NEW j \in 1 .. M, i < j PROVE pushed[i][2] <= pushed[j][2]
  <2> DEFINE a == d(i)
             b == d(j)
             x == V * a
             y == V * b
  <2>1. /\ a \in Nat /\ b \in Nat /\ i - 1 = x + m(i) /\ j - 1 = y + m(j)
        /\ m(i) \in 0 .. V - 1 /\ m(j) \in 0 .. V - 1
    BY <1>1, <1>3
  <2>2. x \in Nat /\ y \in Nat /\ (b < a => y + V <= x)
    <3>1. x \in Nat /\ y \in Nat
      BY <1>1, <2>1
    <3>2. ASSUME b < a PROVE y + V <= x
      <4>1. V * (b + 1) <= V * a /\ V * (b + 1) = V * b + V
        BY <1>1, <2>1, <3>2
      <4> QED
        BY <4>1
    <3> QED
      BY <3>1, <3>2
  <2> HIDE DEF a, b, x, y
  <2>3. a <= b
    BY <1>1, <1>2, <1>8, <2>1, <2>2
  <2> QED
    BY <1>6, <2>3 DEF a, b
<1>9. PointsOf(pushed, M) = RingPoints(count, position)
  <2>1. ASSUME NEW i \in 1 .. M PROVE pushed[i] \in RingPoints(count, position)
    <3> DEFINE s == d(i)
               v == 1 + m(i)
    <3>1. s \in 0 .. count - 1 /\ v \in 1 .. VNodes
      BY <1>3, <1>6 DEF V
    <3>2. pushed[i] = <<position[s][v], s>>
      BY <1>6
    <3> HIDE DEF s, v
    <3> QED
      BY <3>1, <3>2 DEF RingPoints
  <2>2. ASSUME NEW s \in 0 .. count - 1, NEW v \in 1 .. V
        PROVE  <<position[s][v], s>> \in PointsOf(pushed, M)
    <3> DEFINE w == v - 1
               z == V * s
               i == (z + w) + 1
    <3>1. s \in Nat /\ w \in 0 .. V - 1 /\ z \in Nat /\ v = 1 + w
      BY <1>1
    <3>2. (z + w) \div V = s /\ (z + w) % V = w
      <4>1. s \in Int /\ w \in 0 .. V - 1 /\ V \in Nat \ {0}
        BY <1>1, <3>1
      <4> HIDE DEF w
      <4>2. (V * s + w) \div V = s /\ (V * s + w) % V = w
        BY <4>1, Remainder
      <4> QED
        BY <4>2
    <3>3. z + V <= M
      <4>1. V * (s + 1) <= V * count /\ V * (s + 1) = V * s + V /\ V * count = count * V
        BY <1>1
      <4> QED
        BY <4>1 DEF M
    <3> HIDE DEF z, w
    <3>4. i \in 1 .. M /\ i - 1 = z + w
      BY <1>1, <1>2, <3>1, <3>3
    <3> HIDE DEF i
    <3>5. d(i) = s /\ m(i) = w
      BY <3>2, <3>4 DEF d, m
    <3>6. pushed[i] = <<position[s][v], s>>
      BY <1>6, <3>1, <3>4, <3>5
    <3> QED
      BY <3>4, <3>6 DEF PointsOf
  <2> QED
    BY <2>1, <2>2 DEF RingPoints, PointsOf, V
<1> QED
  BY <1>2, <1>7, <1>8, <1>9 DEF M, V, pushed

LEMMA RingInOrder ==
    ASSUME NEW all \in Nat \ {0}, NEW count \in 1 .. all, NEW position \in Positions(all)
    PROVE  /\ HashRing(count, position) \in Seq(Point)
           /\ Len(HashRing(count, position)) > 0
           /\ Ordered(HashRing(count, position))
           /\ Range(HashRing(count, position)) = RingPoints(count, position)
<1> DEFINE M == count * VNodes
           pushed == Pushed(count, position)
           ring == sort(pushed)
<1>1. Len(position[0]) = VNodes
  <2>1. VNodes \in Nat /\ position[0] \in [1 .. VNodes -> Keys]
    BY ReshardingAssumption DEF Positions
  <2>2. position[0] \in Seq(Keys)
    BY <2>1, IsASeq
  <2>3. DOMAIN position[0] = 1 .. Len(position[0]) /\ Len(position[0]) \in Nat
    BY <2>2, LenProperties
  <2>4. DOMAIN position[0] = 1 .. VNodes
    BY <2>1
  <2> QED
    BY <2>1, <2>3, <2>4
<1>2. HashRing(count, position) = ring
  BY <1>1 DEF HashRing, Pushed
<1>3. /\ pushed \in Seq(Point) /\ Len(pushed) = M /\ M \in Nat \ {0}
      /\ \A i, j \in 1 .. M : i < j => pushed[i][2] <= pushed[j][2]
      /\ PointsOf(pushed, M) = RingPoints(count, position)
  BY PushedPoints
<1> HIDE DEF M, pushed
<1>4. /\ ring \in Seq(Point) /\ Len(ring) = M /\ Ordered(ring)
      /\ PointsOf(ring, M) = RingPoints(count, position)
  BY <1>3, Sorted
<1> HIDE DEF ring
<1>5. Range(ring) = PointsOf(ring, M)
  <2>1. DOMAIN ring = 1 .. M
    BY <1>4, LenProperties
  <2> QED
    BY <2>1 DEF Range, PointsOf
<1> QED
  BY <1>2, <1>3, <1>4, <1>5

(* Wherever the virtual nodes are put and however many share a position,    *)
(* the search on the ring finds the first at or after the key, and past the *)
(* last one the first of the ring (resharding.ts:41).                       *)
THEOREM ClockwiseTheorem ==
    ASSUME NEW count \in Nat \ {0}, NEW position \in Positions(count)
    PROVE  Clockwise(HashRing(count, position))
BY RingInOrder, OrderedIsClockwise

\* The old nodes are among the new ones, which add no node of an old shard.
LEMMA RingsNest ==
    ASSUME NEW to \in Nat \ {0}, NEW from \in 1 .. to, NEW position
    PROVE  /\ RingPoints(from, position) \subseteq RingPoints(to, position)
           /\ \A p \in RingPoints(to, position) :
                 p[2] \in Nat /\ (p[2] < from => p \in RingPoints(from, position))
<1>1. \A s \in 0 .. from - 1 : s \in 0 .. to - 1
  OBVIOUS
<1>2. \A s \in 0 .. to - 1 : s \in Nat /\ (s < from => s \in 0 .. from - 1)
  OBVIOUS
<1> QED
  BY <1>1, <1>2 DEF RingPoints

\* A key that an old shard has afterwards was with the same node before.
LEMMA OldNodesGainNothing ==
    ASSUME NEW to \in Nat \ {0}, NEW from \in 1 .. to, NEW position \in Positions(to),
           NEW hash \in Keys,
           shardOf(HashRing(to, position), hash) < from
    PROVE  shardOf(HashRing(to, position), hash) = shardOf(HashRing(from, position), hash)
<1> DEFINE nodes(count) == RingPoints(count, position)
           ahead(count) == {p \in nodes(count) : p[1] >= hash}
           candidates(count) == IF ahead(count) = {} THEN nodes(count) ELSE ahead(count)
<1>1. ASSUME NEW count \in 1 .. to
      PROVE  \E first \in candidates(count) :
                /\ \A p \in candidates(count) : Earlier(first, p)
                /\ shardOf(HashRing(count, position), hash) = first[2]
  <2>1. /\ Clockwise(HashRing(count, position))
        /\ Range(HashRing(count, position)) = nodes(count)
    BY RingInOrder, OrderedIsClockwise
  <2> QED
    BY <2>1 DEF Clockwise, Earlier
<1>2. to \in 1 .. to
  OBVIOUS
<1>3. PICK old \in candidates(from) :
         /\ \A p \in candidates(from) : Earlier(old, p)
         /\ shardOf(HashRing(from, position), hash) = old[2]
  BY <1>1
<1>4. PICK new \in candidates(to) :
         /\ \A p \in candidates(to) : Earlier(new, p)
         /\ shardOf(HashRing(to, position), hash) = new[2]
  BY <1>1, <1>2
<1>5. /\ nodes(from) \subseteq nodes(to)
      /\ \A p \in nodes(to) : p[2] < from => p \in nodes(from)
  BY RingsNest
<1>6. \A p \in nodes(to) : p[1] \in Nat /\ p[2] \in Nat
  <2> SUFFICES ASSUME NEW s \in 0 .. to - 1, NEW v \in 1 .. VNodes
               PROVE  position[s][v] \in Nat /\ s \in Nat
    BY DEF RingPoints
  <2>1. position[s] \in [1 .. VNodes -> Keys]
    BY DEF Positions
  <2>2. position[s][v] \in Keys
    BY <2>1
  <2>3. position[s][v] \in Nat
    BY <2>2, ReshardingAssumption
  <2>4. s \in Nat
    OBVIOUS
  <2> QED
    BY <2>3, <2>4
<1> HIDE DEF nodes
<1>7. new \in nodes(to) /\ new \in nodes(from)
  BY <1>4, <1>5
<1>8. new \in candidates(from)
  BY <1>4, <1>5, <1>7
<1>9. old \in candidates(to)
  BY <1>3, <1>4, <1>5, <1>7
<1>10. Earlier(old, new) /\ Earlier(new, old)
  BY <1>3, <1>4, <1>8, <1>9
<1>11. old \in nodes(to)
  BY <1>9
<1>12. old[2] = new[2]
  BY <1>6, <1>7, <1>10, <1>11 DEF Earlier
<1> QED
  BY <1>3, <1>4, <1>12

LEMMA ShardsAreNumbers ==
    ASSUME NEW to \in Nat \ {0}, NEW position \in Positions(to), NEW hash \in Keys
    PROVE  shardOf(HashRing(to, position), hash) \in Nat
<1>1. /\ Clockwise(HashRing(to, position))
      /\ Range(HashRing(to, position)) = RingPoints(to, position)
  BY RingInOrder, OrderedIsClockwise
<1>2. PICK p \in RingPoints(to, position) : shardOf(HashRing(to, position), hash) = p[2]
  BY <1>1 DEF Clockwise
<1> QED
  BY <1>2 DEF RingPoints

(* When the cluster grows, no old shard takes a key from another, with      *)
(* buckets and with the ring (resharding.ts:10-13).                         *)
THEOREM NewShardsGainTheorem ==
    ASSUME NEW to \in Nat \ {0}, NEW from \in 1 .. to, NEW position \in Positions(to),
           NEW scheme \in Scheme \ {"modulo"}
    PROVE  NewShardsGain(simulateResharding(scheme, from, to, position))
<1> DEFINE map == buildBucketMap(from, <<>>)
           next == rebalanceBuckets(map, to)
           row == simulateResharding(scheme, from, to, position)
<1>1. /\ row.from = from
      /\ row.before = placement(scheme, from, position, map)
      /\ row.after = placement(scheme, to, position, next)
  BY DEF simulateResharding
<1> HIDE DEF map, next, row
<1> SUFFICES ASSUME NEW hash \in Keys
             PROVE  row.after[hash] = row.before[hash] \/ row.after[hash] >= from
  BY <1>1 DEF NewShardsGain, row
<1>2. CASE scheme = "virtual-buckets"
  <2> DEFINE b == hash % BUCKETS
  <2>1. row.before[hash] = map[b] /\ row.after[hash] = next[b]
    BY <1>1, <1>2 DEF placement
  <2>2. b \in Bucket
    BY KeyAssumption, ReshardingAssumption DEF Bucket
  <2> HIDE DEF b
  <2>3. next[b] \in Nat
    <3>1. \A o \in Bucket : o % from \in 0 .. to - 1
      <4> SUFFICES ASSUME NEW o \in Bucket PROVE o % from \in 0 .. to - 1
        OBVIOUS
      <4>1. o \in Nat /\ o % from \in 0 .. from - 1
        BY KeyAssumption DEF Bucket
      <4> QED
        BY <4>1
    <3>2. map \in Maps(to)
      BY <3>1, PlainMap DEF Maps, map
    <3>3. next \in Maps(to)
      BY <3>2, Rebalanced DEF next
    <3> QED
      BY <2>2, <3>3 DEF Maps
  <2>4. next[b] < from => next[b] = map[b]
    BY <2>2, OldShardsTakeNothing DEF next, map
  <2> QED
    BY <2>1, <2>3, <2>4
<1>3. CASE scheme = "consistent-hash"
  <2>1. /\ row.before[hash] = shardOf(HashRing(from, position), hash)
        /\ row.after[hash] = shardOf(HashRing(to, position), hash)
    BY <1>1, <1>3 DEF placement
  <2>2. row.after[hash] \in Nat
    BY <2>1, ShardsAreNumbers
  <2>3. row.after[hash] < from => row.after[hash] = row.before[hash]
    BY <2>1, OldNodesGainNothing
  <2> QED
    BY <2>2, <2>3
<1> QED
  BY <1>2, <1>3 DEF Scheme
=============================================================================
