----------------------------- MODULE Resharding -----------------------------
(***************************************************************************)
(* Where the keys go when the cluster grows, src/src/sharding/             *)
(* resharding.ts: modulo, virtual buckets with a minimal reassignment, and *)
(* consistent hashing.  A key is its hash; MD5, which places the virtual   *)
(* nodes on the ring, is any function.                                     *)
(***************************************************************************)
EXTENDS ShardKey, FiniteSets, SequencesExt

CONSTANTS
    Keys,    \* the hashes of the keys, and the positions on the ring
    Sizes,   \* numbers of shards
    VNodes   \* virtual nodes of a shard

ASSUME ReshardingAssumption ==
    Keys \subseteq Nat /\ Sizes \subseteq Nat /\ VNodes \in Nat \ {0}

Scheme == {"modulo", "virtual-buckets", "consistent-hash"}

BucketsOf(map, shard) == {bucket \in Bucket : map[bucket] = shard}

quota(shard, to) == BUCKETS \div to + IF shard < BUCKETS % to THEN 1 ELSE 0

\* Mutant: the buckets are dealt anew instead of being taken from the overfull.
dealtAnew(map, to) == [bucket \in Bucket |-> bucket % to]

\* A bucket is given up if its shard has too many.
giveUp(state, bucket, map, to) ==
    IF state.owned[map[bucket]] > quota(map[bucket], to)
    THEN [owned |-> [state.owned EXCEPT ![map[bucket]] = @ - 1],
          spare |-> Append(state.spare, bucket)]
    ELSE state

(* The first loop, after n buckets from the last one down.                  *)
skimming(map, to) ==
    LET after[n \in 0 .. BUCKETS] ==
          IF n = 0 THEN [owned |-> [shard \in 0 .. to - 1 |-> Cardinality(BucketsOf(map, shard))],
                         spare |-> <<>>]
          ELSE giveUp(after[n - 1], BUCKETS - n, map, to)
    IN  after

skimmed(map, to) == skimming(map, to)[BUCKETS]

\* A shard takes what it lacks from the end of the array.
take(state, shard, spare, lacking) ==
    LET taken == {spare[i] : i \in state.left - lacking + 1 .. state.left}
    IN  [map |-> [bucket \in Bucket |-> IF bucket \in taken THEN shard ELSE state.map[bucket]],
         left |-> state.left - lacking]

(* The second loop, after n shards: the map, and how many are left to take. *)
dealing(map, to) ==
    LET start == skimmed(map, to)
        after[n \in 0 .. to] ==
          IF n = 0 THEN [map |-> map, left |-> Len(start.spare)]
          ELSE take(after[n - 1], n - 1, start.spare, quota(n - 1, to) - start.owned[n - 1])
    IN  after

\* The shards of map are among the first `to`.
rebalanceBuckets(map, to) == dealing(map, to)[to].map

-----------------------------------------------------------------------------
\* A point goes behind those that are not past it.
insert(ring, point) ==
    LET ahead == CHOOSE k \in 0 .. Len(ring) :
                    /\ \A i \in 1 .. k : ring[i][1] <= point[1]
                    /\ \A i \in k + 1 .. Len(ring) : ring[i][1] > point[1]
    IN  InsertAt(ring, ahead + 1, point)

(* Array.prototype.sort by position, which keeps the order of equals.       *)
sorting(points) ==
    LET after[n \in 0 .. Len(points)] ==
          IF n = 0 THEN <<>> ELSE insert(after[n - 1], points[n])
    IN  after

sort(points) == sorting(points)[Len(points)]

(* The points of the ring in order.                                         *)
HashRing(shardCount, position) ==
    LET vnodes == Len(position[0])
    IN  sort([i \in 1 .. shardCount * vnodes |->
                 LET shard == (i - 1) \div vnodes
                 IN  <<position[shard][1 + ((i - 1) % vnodes)], shard>>])

(* The binary search over the points, which are counted from 0 in the code: *)
(* where it ends, by lo and hi.                                             *)
searching(points, keyHash) ==
    LET search[span \in (0 .. Len(points)) \X (0 .. Len(points))] ==
          LET lo  == span[1]
              hi  == span[2]
              mid == (lo + hi) \div 2
          IN  IF lo >= hi THEN lo
              ELSE IF points[mid + 1][1] < keyHash THEN search[<<mid + 1, hi>>]
              ELSE search[<<lo, mid>>]
    IN  search

\* Mutant: past the last point the search stays there.
shardWithoutWrap(points, keyHash) ==
    LET lo == searching(points, keyHash)[<<0, Len(points)>>]
    IN  points[IF lo = Len(points) THEN lo ELSE lo + 1][2]

shardOf(points, keyHash) ==
    LET lo == searching(points, keyHash)[<<0, Len(points)>>]
    IN  points[1 + IF lo = Len(points) THEN 0 ELSE lo][2]

(* The shard of every key.                                                  *)
placement(scheme, shardCount, position, map) ==
    LET ring == HashRing(shardCount, position)
    IN  [hash \in Keys |->
            CASE scheme = "modulo"          -> hash % shardCount
              [] scheme = "virtual-buckets" -> map[hash % BUCKETS]
              [] scheme = "consistent-hash" -> shardOf(ring, hash)]

(* One row of the answer: the shard of each key before and after.           *)
simulateResharding(scheme, from, to, position) ==
    LET map == buildBucketMap(from, <<>>)
    IN  [scheme |-> scheme, from |-> from, to |-> to,
         before |-> placement(scheme, from, position, map),
         after |-> placement(scheme, to, position, rebalanceBuckets(map, to))]

-----------------------------------------------------------------------------
Positions(count) == [0 .. count - 1 -> [1 .. VNodes -> Keys]]

(* No shard ends with two buckets more than another, and a bucket has moved *)
(* only from a shard that had too many to one that had too few.             *)
MovesLeast(map, to) ==
    LET next == rebalanceBuckets(map, to)
        before(shard) == BucketsOf(map, shard)
        after(shard) == BucketsOf(next, shard)
    IN  \A s1, s2 \in 0 .. to - 1 :
           /\ Cardinality(after(s1)) - Cardinality(after(s2)) <= 1
           /\ before(s1) \subseteq after(s1) \/ after(s1) \subseteq before(s1)

(* Every key goes to the first point at or after it, and past the last one  *)
(* to the first of the ring.                                                *)
Clockwise(points) ==
    LET nodes == Range(points)
        earlier(p, q) == p[1] < q[1] \/ (p[1] = q[1] /\ p[2] <= q[2])
    IN  \A hash \in Keys :
           LET ahead == {p \in nodes : p[1] >= hash}
               candidates == IF ahead = {} THEN nodes ELSE ahead
           IN  \E first \in candidates :
                  /\ \A p \in candidates : earlier(first, p)
                  /\ shardOf(points, hash) = first[2]

(* No shard that was there takes a key from another.                        *)
NewShardsGain(row) ==
    \A hash \in Keys : row.after[hash] = row.before[hash] \/ row.after[hash] >= row.from
=============================================================================
