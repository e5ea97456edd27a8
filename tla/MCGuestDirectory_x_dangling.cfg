SPECIFICATION Spec
CONSTANTS
    Guest <- TwoGuests
    Email = {"ann@", "bob@", "new@"}
    Shard = {"shard_a", "shard_b"}
    Remover = {r1}
    Writer = {q1}
    Seeded <- OneBooking
    Outages = {}
INVARIANTS NoDanglingGuest
