\* A dispatch and two retries overlap saves and publications of one article, answers of Stripe are lost, and workers die.
SPECIFICATION Spec
CONSTANTS
    c1 = c1
    c2 = c2
    s1 = s1
    s2 = s2
    p1 = p1
    p2 = p2
    p3 = p3
    Posts = {p1}
    Contractors = {c1}
    AuthorOf <- OneAuthor
    Sites = {s1}
    SiteOf <- OneSite
    Dispatchers = {d1}
    Retriers = {r1, r2}
    Payloads <- PayOne
    MaxRequests = 4
    Mishaps = {"republish", "save", "unpublish", "no card", "lost answer", "crash"}
SYMMETRY Interchangeable
INVARIANTS
    TypeOK
    PaidIsSettled
    NumbersWithoutGaps
\* managers stop asking after MaxRequests
CHECK_DEADLOCK FALSE
