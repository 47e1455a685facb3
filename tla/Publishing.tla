----------------------------- MODULE Publishing -----------------------------
(***************************************************************************)
(* The life of an article: lib/content.js, as the admin routes of          *)
(* controllers/content.js drive it.                                        *)
(*                                                                         *)
(* Every handler is a chain of callbacks, one database round trip each.    *)
(* Handlers run in several worker processes, so between two round trips of *)
(* one handler any step of another may happen.  A handler in flight is a   *)
(* slot: pc says which round trip comes next, req is the request, snap is  *)
(* the article as the handler read it.                                     *)
(*                                                                         *)
(* Requests are those of a user who passes the author-or-editor checks; a  *)
(* request which fails them is answered at once and changes nothing.       *)
(***************************************************************************)
EXTENDS Articles

CONSTANTS
    Slots,       \* requests served at the same time
    Paginated,   \* the articles with more than one page
    Operations,  \* the requests which are made
    WorkersDie   \* whether worker processes may die

AllOperations == StatusOps \cup {"save", "slug", "publish", "refresh", "autosave"}

ASSUME PublishingAssumption ==
    /\ Paginated \subseteq Posts
    /\ Operations \subseteq AllOperations
    /\ WorkersDie \in BOOLEAN

VARIABLES
    posts,     \* the content collection
    history,   \* decisions in the contenthistory of each post
    autosave,  \* text of the latest autosave entry of each post, or None
    pc,        \* next round trip of each slot
    req,       \* request each slot serves
    snap,      \* the article as the slot's handler read it
    told,      \* what the last step told a client, if it told one anything
    lost       \* history entries a dying worker never wrote

vars == <<posts, history, autosave, pc, req, snap, told, lost>>

-----------------------------------------------------------------------------
(* Types *)

\* types of the history entries of a decision; those of an edit, "update" and
\* "slug", are left out of the state, though not the round trip which inserts them
EntryTypes == {"published", "submitted", "refused", "unpublished", "destroyed"}

\* type of the history entry each status handler inserts
EntryType == [o \in StatusOps |->
    CASE o = "submit"    -> "submitted"
      [] o = "refuse"    -> "refused"
      [] o = "unpublish" -> "unpublished"
      [] o = "destroy"   -> "destroyed"]

PCs == {"idle", "hung",
        "save.read", "save.history", "save.write",
        "slug.exists", "slug.read", "slug.write", "slug.history",
        "publish.read", "publish.write", "publish.autosave", "publish.history",
        "publish.generate",
        "refresh.read", "refresh.write", "refresh.history", "refresh.generate",
        "status.write", "status.history",
        "autosave.read", "autosave.insert"}

Requests == [op   : AllOperations \cup {"none"},
             post : Posts \cup {None},
             arg  : Edits \cup Slugs \cup Texts \cup {None}]

NoRequest == [op |-> "none", post |-> None, arg |-> None]

\* a handler's request is one its steps are made for
RequestOK(r) ==
    /\ pc[r] # "idle" => req[r].post \in Posts
    /\ pc[r] \in {"save.read", "save.history", "save.write"} => req[r].arg \in Edits
    /\ pc[r] \in {"slug.exists", "slug.read", "slug.write", "slug.history"} =>
           req[r].arg \in Slugs
    /\ pc[r] \in {"autosave.read", "autosave.insert"} => req[r].arg \in Texts
    /\ pc[r] \in {"status.write", "status.history"} => req[r].op \in StatusOps

TypeOK ==
    /\ posts \in [Posts -> PostRec]
    /\ history \in [Posts -> SUBSET EntryTypes]
    /\ autosave \in [Posts -> Texts \cup {None}]
    /\ pc \in [Slots -> PCs]
    /\ req \in [Slots -> Requests]
    /\ snap \in [Slots -> PostRec]
    /\ told \in {"none", "ok", "error"}
    /\ lost \subseteq Posts \X EntryTypes
    /\ \A r \in Slots : RequestOK(r)

Init ==
    /\ posts = [p \in Posts |-> Absent]
    /\ history = [p \in Posts |-> {}]
    /\ autosave = [p \in Posts |-> None]
    /\ pc = [r \in Slots |-> "idle"]
    /\ req = [r \in Slots |-> NoRequest]
    /\ snap = [r \in Slots |-> Absent]
    /\ told = "none"
    /\ lost = {}

-----------------------------------------------------------------------------
(* Steps every handler is made of *)

\* a request arrives, and its handler issues its first round trip; a request
\* left without an answer does not keep its slot
Begin(r, o, p, a, first) ==
    /\ pc[r] \in {"idle", "hung"}
    /\ o \in Operations
    /\ posts[p].status # "absent"
    /\ pc' = [pc EXCEPT ![r] = first]
    /\ req' = [req EXCEPT ![r] = [op |-> o, post |-> p, arg |-> a]]
    /\ snap' = [snap EXCEPT ![r] = Absent]
    /\ told' = "none"
    /\ UNCHANGED <<posts, history, autosave, lost>>

\* the handler of r has its result and issues the next round trip
Goto(r, at) ==
    /\ pc' = [pc EXCEPT ![r] = at]
    /\ told' = "none"
    /\ UNCHANGED req

Read(r, post, at) ==
    /\ snap' = [snap EXCEPT ![r] = post]
    /\ Goto(r, at)

\* the client is answered
Answer(r, what) ==
    /\ pc' = [pc EXCEPT ![r] = "idle"]
    /\ req' = [req EXCEPT ![r] = NoRequest]
    /\ snap' = [snap EXCEPT ![r] = Absent]
    /\ told' = what

\* an exception inside a callback reaches process.on('uncaughtException'): the
\* worker lives on, the request is never answered
Throw(r) == Goto(r, "hung") /\ UNCHANGED snap

Write(p, post) == posts' = [posts EXCEPT ![p] = post]

Log(p, type) == history' = [history EXCEPT ![p] = @ \cup {type}]

-----------------------------------------------------------------------------
(* POST new *)

\* create(): the subtitle of a new article is empty, so it is incomplete
Create(p) ==
    /\ posts[p].status = "absent"
    /\ \E t \in Incomplete : Write(p, Draft(t))
    /\ told' = "ok"
    /\ UNCHANGED <<history, autosave, pc, req, snap, lost>>

-----------------------------------------------------------------------------
(* PUT save: update() *)

StartSave(r, p) == \E e \in Edits : Begin(r, "save", p, e, "save.read")

SaveRead(r) ==
    /\ pc[r] = "save.read"
    /\ LET old == posts[req[r].post] IN
         IF Merge(old, req[r].arg) = old
         THEN Answer(r, "ok")
         ELSE Read(r, old, "save.history")
    /\ UNCHANGED <<posts, history, autosave, lost>>

SaveHistory(r) ==
    /\ pc[r] = "save.history"
    /\ Goto(r, "save.write")
    /\ UNCHANGED <<posts, history, autosave, snap, lost>>

\* $set of the whole merged document, not of the edited fields
SaveWrite(r) ==
    /\ pc[r] = "save.write"
    /\ Write(req[r].post, Merge(snap[r], req[r].arg))
    /\ Answer(r, "ok")
    /\ UNCHANGED <<history, autosave, lost>>

-----------------------------------------------------------------------------
(* PUT slug: editSlug() *)

StartSlug(r, p) == \E s \in Slugs : Begin(r, "slug", p, s, "slug.exists")

\* A mutant of SlugTaken: the check is gone.
SlugTakenNever(s) == FALSE

SlugTaken(s) == \E q \in Posts : posts[q].name = s

SlugExists(r) ==
    /\ pc[r] = "slug.exists"
    /\ IF SlugTaken(req[r].arg)
       THEN Answer(r, "error")
       ELSE Goto(r, "slug.read") /\ UNCHANGED snap
    /\ UNCHANGED <<posts, history, autosave, lost>>

SlugRead(r) ==
    /\ pc[r] = "slug.read"
    /\ Read(r, posts[req[r].post], "slug.write")
    /\ UNCHANGED <<posts, history, autosave, lost>>

SlugWrite(r) ==
    /\ pc[r] = "slug.write"
    /\ LET p == req[r].post IN
         Write(p, Renamed(posts[p], snap[r], req[r].arg))
    /\ Goto(r, "slug.history")
    /\ UNCHANGED <<history, autosave, snap, lost>>

\* diff() of equal names is undefined, whose filter() throws
SlugHistory(r) ==
    /\ pc[r] = "slug.history"
    /\ IF snap[r].name = req[r].arg
       THEN Throw(r)
       ELSE Answer(r, "ok")
    /\ UNCHANGED <<posts, history, autosave, lost>>

-----------------------------------------------------------------------------
(* PUT publish: publish() *)

StartPublish(r, p) == Begin(r, "publish", p, None, "publish.read")

\* validate(): refusal is answered {errors, code}, which the route takes for a
\* success because it looks for .error
PublishRead(r) ==
    /\ pc[r] = "publish.read"
    /\ LET post == posts[req[r].post] IN
         IF Complete(post)
         THEN Read(r, Named(post), "publish.write")
         ELSE Answer(r, "ok")
    /\ UNCHANGED <<posts, history, autosave, lost>>

PublishWrite(r) ==
    /\ pc[r] = "publish.write"
    /\ LET p == req[r].post IN
         Write(p, Published(posts[p], snap[r]))
    /\ Goto(r, "publish.autosave")
    /\ UNCHANGED <<history, autosave, snap, lost>>

PublishAutosave(r) ==
    /\ pc[r] = "publish.autosave"
    /\ autosave' = [autosave EXCEPT ![req[r].post] = None]
    /\ Goto(r, "publish.history")
    /\ UNCHANGED <<posts, history, snap, lost>>

\* A mutant of PublishHistory: the history entry is forgotten.
PublishUnlogged(r) ==
    /\ pc[r] = "publish.history"
    /\ Goto(r, "publish.generate")
    /\ UNCHANGED <<posts, history, autosave, snap, lost>>

PublishHistory(r) ==
    /\ pc[r] = "publish.history"
    /\ Log(req[r].post, "published")
    /\ Goto(r, "publish.generate")
    /\ UNCHANGED <<posts, autosave, snap, lost>>

\* generate(..., 'all') of several pages calls this.generateArticle, which is
\* not defined
PublishGenerate(r) ==
    /\ pc[r] = "publish.generate"
    /\ IF req[r].post \in Paginated THEN Throw(r) ELSE Answer(r, "ok")
    /\ UNCHANGED <<posts, history, autosave, lost>>

-----------------------------------------------------------------------------
(* PUT submit, PUT refuse, DELETE unpublish, DELETE destroy *)

\* A mutant of StartStatus: submit does not look at the status.
StartStatusUnchecked(r, p, o) == Begin(r, o, p, None, "status.write")

\* only submit looks at the status, and it does so before the write
StartStatus(r, p, o) ==
    /\ o = "submit" => posts[p].status # "published"
    /\ Begin(r, o, p, None, "status.write")

StatusWrite(r) ==
    /\ pc[r] = "status.write"
    /\ LET p == req[r].post IN
         Write(p, [posts[p] EXCEPT !.status = NewStatus[req[r].op]])
    /\ Goto(r, "status.history")
    /\ UNCHANGED <<history, autosave, snap, lost>>

\* A mutant of StatusHistory: the callback is not called.
StatusHistorySilent(r) ==
    /\ pc[r] = "status.history"
    /\ Log(req[r].post, EntryType[req[r].op])
    /\ UNCHANGED <<posts, autosave, pc, req, snap, told, lost>>

StatusHistory(r) ==
    /\ pc[r] = "status.history"
    /\ Log(req[r].post, EntryType[req[r].op])
    /\ Answer(r, "ok")
    /\ UNCHANGED <<posts, autosave, lost>>

-----------------------------------------------------------------------------
(* PUT refresh: getFull(), refreshURL(), generate() *)

StartRefresh(r, p) == Begin(r, "refresh", p, None, "refresh.read")

RefreshRead(r) ==
    /\ pc[r] = "refresh.read"
    /\ LET post == posts[req[r].post] IN
         Read(r, post, IF post.url # CurrentUrl(post) THEN "refresh.write"
                                                     ELSE "refresh.generate")
    /\ UNCHANGED <<posts, history, autosave, lost>>

RefreshWrite(r) ==
    /\ pc[r] = "refresh.write"
    /\ LET p == req[r].post IN
         Write(p, Refreshed(posts[p], snap[r]))
    /\ Goto(r, "refresh.history")
    /\ UNCHANGED <<history, autosave, snap, lost>>

RefreshHistory(r) ==
    /\ pc[r] = "refresh.history"
    /\ Goto(r, "refresh.generate")
    /\ UNCHANGED <<posts, history, autosave, snap, lost>>

\* an article without an edition is not generated, which is answered as success
RefreshGenerate(r) ==
    /\ pc[r] = "refresh.generate"
    /\ IF req[r].post \in Paginated /\ snap[r].edition # None
       THEN Throw(r) ELSE Answer(r, "ok")
    /\ UNCHANGED <<posts, history, autosave, lost>>

-----------------------------------------------------------------------------
(* POST auto: autosave() *)

StartAutosave(r, p) == \E t \in Texts : Begin(r, "autosave", p, t, "autosave.read")

AutosaveRead(r) ==
    /\ pc[r] = "autosave.read"
    /\ IF autosave[req[r].post] = req[r].arg
       THEN Answer(r, "ok")
       ELSE Goto(r, "autosave.insert") /\ UNCHANGED snap
    /\ UNCHANGED <<posts, history, autosave, lost>>

AutosaveInsert(r) ==
    /\ pc[r] = "autosave.insert"
    /\ autosave' = [autosave EXCEPT ![req[r].post] = req[r].arg]
    /\ Answer(r, "ok")
    /\ UNCHANGED <<posts, history, lost>>

-----------------------------------------------------------------------------
(* A worker process dies, and the gardener forks another *)

\* the history entry a handler owes for a status it has already written
OwedEntry(r) ==
    CASE pc[r] \in {"publish.autosave", "publish.history"} -> {"published"}
      [] pc[r] = "status.history" -> {EntryType[req[r].op]}
      [] OTHER -> {}

WorkerDies(r) ==
    /\ WorkersDie
    /\ pc[r] \notin {"idle", "hung"}
    /\ lost' = lost \cup ({req[r].post} \X OwedEntry(r))
    /\ Answer(r, "none")
    /\ UNCHANGED <<posts, history, autosave>>

-----------------------------------------------------------------------------

Start(r, p) ==
    \/ StartSave(r, p)
    \/ StartSlug(r, p)
    \/ StartPublish(r, p)
    \/ StartRefresh(r, p)
    \/ StartAutosave(r, p)
    \/ \E o \in StatusOps : StartStatus(r, p, o)

Step(r) ==
    \/ SaveRead(r) \/ SaveHistory(r) \/ SaveWrite(r)
    \/ SlugExists(r) \/ SlugRead(r) \/ SlugWrite(r) \/ SlugHistory(r)
    \/ PublishRead(r) \/ PublishWrite(r) \/ PublishAutosave(r)
    \/ PublishHistory(r) \/ PublishGenerate(r)
    \/ StatusWrite(r) \/ StatusHistory(r)
    \/ RefreshRead(r) \/ RefreshWrite(r) \/ RefreshHistory(r) \/ RefreshGenerate(r)
    \/ AutosaveRead(r) \/ AutosaveInsert(r)

Next ==
    \/ \E p \in Posts : Create(p)
    \/ \E r \in Slots, p \in Posts : Start(r, p)
    \/ \E r \in Slots : Step(r) \/ WorkerDies(r)

Spec == Init /\ [][Next]_vars

\* Node runs the callback of a finished round trip, and MongoDB answers
FairSpec == Spec /\ \A r \in Slots : WF_vars(Step(r))

-----------------------------------------------------------------------------
(* Properties *)

\* An article which is published has a name, a url and a publication date,
\* whatever saves, slug edits and other status changes overlapped (publish,
\* lib/content.js:775; update writes back whole documents, line 659).
PublishedAddressable ==
    \A p \in Posts : posts[p].status = "published" => Addressable(posts[p])

\* the history entry which explains a status
Explaining(s) ==
    CASE s = "reviewing" -> {"submitted"}
      [] s = "published" -> {"published"}
      [] s = "deleted"   -> {"unpublished"}
      [] s = "destroyed" -> {"destroyed"}
      [] OTHER -> {}

\* An entry of the type is in the history, is owed by a handler in flight, or
\* was owed by a handler which died.
Explained(p, type) ==
    \/ type \in history[p]
    \/ \E r \in Slots : req[r].post = p /\ type \in OwedEntry(r)
    \/ <<p, type>> \in lost

\* Whoever finds an article reviewing, published, deleted or destroyed finds the
\* history entry of the decision too, even when a slow save put an old status
\* back (pushHistoryEntryFromDiff after each status update).
StatusExplained ==
    \A p \in Posts : \A type \in Explaining(posts[p].status) : Explained(p, type)

\* What a handler in flight may still write is as good as what is stored.
SnapshotsAddressable ==
    \A r \in Slots :
        /\ pc[r] \in {"save.history", "save.write"} /\ snap[r].status = "published"
               => Addressable(snap[r])
        /\ pc[r] = "publish.write" => snap[r].name # None

SnapshotsExplained ==
    \A r \in Slots : pc[r] \in {"save.history", "save.write"} =>
        \A type \in Explaining(snap[r].status) : Explained(req[r].post, type)

\* the inductive invariants the two properties above follow from
AddressableInv == TypeOK /\ PublishedAddressable /\ SnapshotsAddressable
ExplainedInv == TypeOK /\ StatusExplained /\ SnapshotsExplained

\* Two articles never share a name: "Slug already used by another article"
\* (lib/content.js:600).
NamesUnique ==
    \A p, q \in Posts : posts[p].name = posts[q].name /\ posts[p].name # None => p = q

\* the slugs under which generateOrFallback finds an article
Links(post) == post.aliases \cup ({post.name} \cap Slugs)

\* A link once given out keeps finding its article: a changed slug stays as an
\* alias (editSlug's $addToSet, refreshURL's aliases).
LinksKept == [][\A p \in Posts : Links(posts[p]) \subseteq Links(posts'[p])]_vars

\* A destroyed article stays destroyed.
DestroyedIsFinal ==
    [][\A p \in Posts : posts[p].status = "destroyed" => posts'[p].status = "destroyed"]_vars

\* When requests do not overlap, each takes effect at once, on the article as it is
\* (the handlers' reads, and the one write each of them makes).
Store == INSTANCE ContentStore
AtomicStore == Store!Spec

\* Every request is answered, unless its handler threw.
RequestsAnswered == \A r \in Slots : pc[r] # "idle" ~> pc[r] \in {"idle", "hung"}

\* One editor at a time, a handler is left hanging by articles of several pages
\* only (generate, lib/content.js:225).
HangsOnlyOnPages ==
    \A r \in Slots : pc[r] = "hung" => req[r].post \in Paginated
=============================================================================
