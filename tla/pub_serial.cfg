\* One request at a time, every operation.
SPECIFICATION FairSpec
CONSTANTS
    Posts = {p1}
    Slots = {r1}
    Slugs = {s1, s2}
    Texts = {blank, v1}
    Incomplete = {blank}
    Editions = {e1}
    Paginated = {}
    TitleSlug <- MCTitleSlug
    DefaultSlug = s1
    Operations = {"save", "slug", "publish", "refresh", "autosave", "submit", "refuse", "unpublish", "destroy"}
    WorkersDie = FALSE
    None = None
INVARIANT
    HangsOnlyOnPages
PROPERTIES
    LinksKept
    AtomicStore
    RequestsAnswered
