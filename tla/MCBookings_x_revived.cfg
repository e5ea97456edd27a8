SPECIFICATION Spec
CONSTANTS
    Request = {r1, r2, r3}
    Offered = {"create", "cancel", "relocate"}
    Bucket <- TwoBuckets
    ShardOf <- TwoShards
    Room <- TwoHotels
    UnknownRoom <- NoRoom
    Day = {1, 2}
    Seeded <- OneSeed
    Retries = 2
    Faults = {}
    Listed = TRUE
INVARIANTS NoDoubleBooking
