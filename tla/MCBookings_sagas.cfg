SPECIFICATION FairSpec
CONSTANTS
    Request = {r1, r2, r3}
    Offered = {"relocate"}
    Bucket <- ThreeBuckets
    ShardOf <- ThreeShards
    Room <- ThreeHotels
    UnknownRoom <- Missing
    Day = {1, 2}
    Seeded <- OneSeed
    Retries = 2
    Faults = {"inject", "crash"}
    Listed = FALSE
INVARIANTS StayConserved StayNeverLost ChangeIsAnnounced
PROPERTIES RequestsAreAnswered
