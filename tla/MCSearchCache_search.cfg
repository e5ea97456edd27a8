SPECIFICATION FairSpec
CONSTANTS
    Reader = {r1, r2}
    Writer = {w1}
    Shard = {s1, s2}
    Faults = {"get", "set", "bump", "flush", "evict", "shard", "overload"}
INVARIANTS TypeOK SearchIsFresh
PROPERTIES SearchIsAnswered
