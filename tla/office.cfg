\* Two requests at a time, of two users.
SPECIFICATION OfficeSpec
CONSTANTS
    Posts = {p1, p2}
    MaxTyped = 2
    MaxSaves = 2
    MaxOpened = 1
    Eds = {e1, e2, e3}
    Levels = {0, 1}
    Slots = {r1, r2}
    MaxMerges = 2
    Slugs = {s1, s2}
    MaxVisits = 2
    Users = {u1, u2}
    MaxEdits = 2
    Cards = {k1, k2}
    Currencies = {"CAD", "USD"}
    Managers = {m1, m2}
CHECK_DEADLOCK FALSE
INVARIANTS
    OfficeTypeOK
    OneDefault
    EditsKept
    EditionsKept
    PagesKept
    VersionsKept
PROPERTIES
    Ends
