SPECIFICATION Spec
CONSTANTS
    Hotel = {h1, h2}
    Home = h1
    Reader = {r1, r2}
    Writer = {w1, w2}
    Offered = {"update", "remove", "move"}
    Faults = {"get", "set", "del", "primary"}
SYMMETRY Symmetry
INVARIANTS TypeOK StaleCardHasCause
