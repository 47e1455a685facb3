\* Overlapping requests and attempts, two tabs, two HTTP requests, three live variables, three jobs on accounts,
\* three calls of the cache, four edits of passwords, two uploads, three changes of plugins.
SPECIFICATION Spec
CONSTANTS
    Tokens = {t1, t2}
    MaxCrashes = 1
    Attempts = {a1, a2, a3, a4}
    Threshold = 2
    Conns = {c1, c2}
    MaxHits = 3
    Slots = {r1, r2}
    Vars = {v1, v2, v3}
    Names = {n1}
    MaxJobs = 3
    Values = {x, y}
    Garbled = garbled
    MaxCalls = 3
    Workers = {w1, w2}
    Found = {p1, p2}
    Silent = {p2}
    Stubborn = {p2}
    Gone = {p3}
    Passwords = {s1}
    MaxRequests = 4
    Images = {i1, i2}
    WorkerOf <- MCWorkerOf
    Sizes = {square}
    MaxClock = 1
CHECK_DEADLOCK FALSE
INVARIANTS
    TypeOK
    SessionsKept
    TabsKept
    RequestsHandled
    SecretsKept
    AccountsKept
    MemoryLinearizable
    WorkersAgree
PROPERTIES
    Served
