SPECIFICATION Spec
CONSTANTS
    Request = {r1, r2}
    Offered = {"create", "update", "cancel", "remove", "relocate", "staff"}
    Bucket <- TwoBuckets
    ShardOf <- TwoShards
    Room <- ThreeRooms
    UnknownRoom <- NoRoom
    Day = {1, 2, 3}
    Seeded <- OneSeed
    Retries = 2
    Faults = {"down", "lost", "redis", "crash", "inject"}
    Listed = TRUE
SYMMETRY Symmetry
INVARIANTS TypeOK OverlapOnlyUnchecked Colocated
