SPECIFICATION Spec
CONSTANTS
    Instance = {i1, i2}
    Session = {s1}
    Request = {q1, q2}
    Situations <- Situated
    Faults = {"lost", "overload", "conflict", "redis"}
SYMMETRY Symmetry
INVARIANTS TypeOK ReadsOwnWrites StrongIsCurrent
