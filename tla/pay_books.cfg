\* One dispatch at a time, two contractors, two websites.
SPECIFICATION FairSpec
CONSTANTS
    c1 = c1
    c2 = c2
    s1 = s1
    s2 = s2
    p1 = p1
    p2 = p2
    p3 = p3
    Posts = {p1, p2, p3}
    Contractors = {c1, c2}
    AuthorOf <- TwoAuthors
    Sites = {s1, s2}
    SiteOf <- TwoSites
    Dispatchers = {d1}
    Retriers = {}
    Payloads <- PayBoth
    MaxRequests = 2
    Mishaps = {"no card", "lost answer"}
INVARIANTS
    NumbersUnique
PROPERTIES
    KeepsBooks
    EveryoneServed
\* managers stop asking after MaxRequests
CHECK_DEADLOCK FALSE
