------------------------------ MODULE ShardKey ------------------------------
(***************************************************************************)
(* The key of the shards, src/src/sharding/shard-key.ts: an id carries a   *)
(* bucket in its first two hexadecimal digits, and a map takes buckets to  *)
(* shards.                                                                 *)
(*                                                                         *)
(* An id is a pair of what those digits say and the rest of the text, or   *)
(* of Foreign and the whole text when it does not begin with digits.       *)
(***************************************************************************)
EXTENDS Integers, Sequences

CONSTANTS
    BUCKETS,
    Hash,     \* fnv1a: normalized names of cities and foreign ids to numbers
    Normal    \* normalizeCity: spellings to names, trimmed and in lower case

\* A bucket fits into two digits.
ASSUME KeyAssumption ==
    /\ BUCKETS \in 1 .. 256
    /\ \A text \in DOMAIN Hash : Hash[text] \in Nat
    /\ \A city \in DOMAIN Normal : Normal[city] \in DOMAIN Hash

Bucket == 0 .. BUCKETS - 1

Foreign == 256

fnv1a(text) == Hash[text]

normalizeCity(city) == Normal[city]

bucketOf(id) ==
    IF id[1] # Foreign THEN id[1] % BUCKETS ELSE fnv1a(id[2]) % BUCKETS

idInBucket(bucket, rest) == <<bucket, rest>>

\* Mutant: the city is hashed as it was typed.
bucketAsTyped(strategy, uuidHash, city) ==
    (IF strategy = "city" THEN fnv1a(city) ELSE uuidHash) % BUCKETS

bucketForNewHotel(strategy, uuidHash, city) ==
    (IF strategy = "city" THEN fnv1a(normalizeCity(city)) ELSE uuidHash) % BUCKETS

\* A fragment "from-to:shard" of SHARD_BUCKET_MAP.
Accepted(part, shardCount) ==
    part.from <= part.to /\ part.to < BUCKETS /\ part.shard < shardCount

Refused == <<>>

(* The buckets go round the shards; the fragments overwrite, the last one   *)
(* wins, and one out of range keeps the API from starting.                  *)
buildBucketMap(shardCount, spec) ==
    LET naming(bucket) ==
          {i \in DOMAIN spec : spec[i].from <= bucket /\ bucket <= spec[i].to}
        last(bucket) ==
          CHOOSE i \in naming(bucket) : \A j \in naming(bucket) : j <= i
    IN  IF \E i \in DOMAIN spec : ~Accepted(spec[i], shardCount) THEN Refused
        ELSE [bucket \in Bucket |->
                 IF naming(bucket) = {} THEN bucket % shardCount
                 ELSE spec[last(bucket)].shard]
=============================================================================
