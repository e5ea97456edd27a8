SPECIFICATION Spec
CONSTANTS
    Request = {r1, r2, r3}
    Offered = {"create", "cancel", "remove", "relocate"}
    Bucket <- TwoBuckets
    ShardOf <- TwoShards
    Room <- ThreeRooms
    UnknownRoom <- NoRoom
    Day = {1, 2, 3}
    Seeded <- OneSeed
    Retries = 2
    Faults = {"lost", "inject", "crash"}
    Listed = FALSE
SYMMETRY Symmetry
INVARIANTS NoDoubleBooking
PROPERTIES ImplementsCalendar EndedStaysEnded
