\* Five tasks of two websites, four hooks, jobs over nine days, templates of up to seven blocks,
\* five requests of a list, three changes of a field, five clicks on topics, two requests at a time of one visitor.
SPECIFICATION Spec
CONSTANTS
    Websites = {w1, w2}
    OptedOut = {w2}
    MaxPushes = 3
    MaxStrays = 1
    Priorities = {1, 2, 3}
    MaxBinds = 4
    MaxAsync = 2
    Ticks = 2
    Week = 3
    Long = 4
    Short = 3
    Width = 5
    MaxDays = 9
    MaxBlocks = 6
    MaxLines = 7
    Filters = {f1, f2}
    Batch = 2
    MaxItems = 5
    MaxRequests = 5
    MaxChanges = 3
    MaxCuts = 2
    t1 = t1
    t2 = t2
    t3 = t3
    t4 = t4
    root = root
    Topics = {t1, t2, t3, t4}
    ChildrenOf <- MCChildren
    Category = root
    Directories = {t1}
    None = None
    MaxClicks = 5
    Posts = {q1}
    MaxEdits = 3
    MaxOthers = 1
    Pops = {c1, c2}
    MaxFlips = 1
    Visitors = {v1}
    Articles = {a1}
    Slots = {r1, r2}
    MaxTokens = 2
    MaxRestarts = 1
    BadgeLevels <- MCBadgeLevels
    MaxEvents = 3
CHECK_DEADLOCK FALSE
INVARIANTS
    TypeOK
    ServersKept
    RunWhenDue
    WrittenAsNested
    DashboardKept
PROPERTIES
    Ends
