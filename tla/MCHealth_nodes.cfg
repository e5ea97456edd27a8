SPECIFICATION FairHealth
CONSTANTS
    q1 = q1
    a1 = a1
    k1 = k1
    k2 = k2
    w1 = w1
    sa = sa
    Instance = {i1}
    Session = {s1}
    Request = {q1}
    Statement = {a1}
    Kubelet = {k1, k2}
    Status = {w1}
    Shard = {sa}
    Faults = {"lost", "overload", "conflict", "redis"}
    Situations <- Situated
INVARIANTS HealthOK RefusedShardWasDown CaughtUpIsTrue
PROPERTIES FlagsFollow RequestsAreAnswered ReadinessFollows
