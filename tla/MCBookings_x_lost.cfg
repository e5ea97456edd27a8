SPECIFICATION Spec
CONSTANTS
    Request = {r1, r2}
    Offered = {"relocate"}
    Bucket <- TwoBuckets
    ShardOf <- TwoShards
    Room <- TwoHotels
    UnknownRoom <- NoRoom
    Day = {1, 2}
    Seeded <- OneSeed
    Retries = 2
    Faults = {"lost"}
    Listed = FALSE
INVARIANTS StayNeverLost
