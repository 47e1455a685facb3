\* Two dispatches overlap.
SPECIFICATION Spec
CONSTANTS
    c1 = c1
    c2 = c2
    s1 = s1
    s2 = s2
    p1 = p1
    p2 = p2
    p3 = p3
    Posts = {p1}
    Contractors = {c1}
    AuthorOf <- OneAuthor
    Sites = {s1}
    SiteOf <- OneSite
    Dispatchers = {d1, d2}
    Retriers = {}
    Payloads <- PayOne
    MaxRequests = 2
    Mishaps = {}
PROPERTIES
    ChargesPendingOnly
\* managers stop asking after MaxRequests
CHECK_DEADLOCK FALSE
