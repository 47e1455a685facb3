\* A save brings a destroyed article back.
SPECIFICATION Spec
CONSTANTS
    Posts = {p1}
    Slots = {r1, r2}
    Slugs = {s1}
    Texts = {blank, v1}
    Incomplete = {blank}
    Editions = {e1}
    Paginated = {}
    TitleSlug <- MCTitleSlug
    DefaultSlug = s1
    Operations = {"save", "destroy"}
    WorkersDie = FALSE
    None = None
PROPERTY
    DestroyedIsFinal
