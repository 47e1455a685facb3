\* Retries one after the other.
SPECIFICATION Spec
CONSTANTS
    c1 = c1
    c2 = c2
    s1 = s1
    s2 = s2
    p1 = p1
    p2 = p2
    p3 = p3
    Posts = {p1}
    Contractors = {c1}
    AuthorOf <- OneAuthor
    Sites = {s1}
    SiteOf <- OneSite
    Dispatchers = {d1}
    Retriers = {r1}
    Payloads <- PayOne
    MaxRequests = 4
    Mishaps = {}
INVARIANTS
    NumbersPaidOnce
\* managers stop asking after MaxRequests
CHECK_DEADLOCK FALSE
