SPECIFICATION Spec
CONSTANTS
    Guest <- TwoGuests
    Email = {"ann@", "bob@", "new@"}
    Shard = {"shard_a", "shard_b"}
    Remover = {r1, r2}
    Writer = {q1, q2}
    Seeded <- OneBooking
    Outages = {"shard_a"}
SYMMETRY Symmetry
INVARIANTS TypeOK
PROPERTIES BookedGuestIsKept HistoryIsWhole OnlyRacesAre500
