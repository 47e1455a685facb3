\* Two requests overlap on one article: edits and decisions, and workers die.
SPECIFICATION Spec
CONSTANTS
    Posts = {p1}
    Slots = {r1, r2}
    Slugs = {s1}
    Texts = {blank, v1}
    Incomplete = {blank}
    Editions = {e1}
    Paginated = {p1}
    TitleSlug <- MCTitleSlug
    DefaultSlug = s1
    Operations = {"save", "slug", "publish", "destroy"}
    WorkersDie = TRUE
    None = None
SYMMETRY Interchangeable
INVARIANTS
    TypeOK
    PublishedAddressable
    StatusExplained
