------------------------------ MODULE Articles ------------------------------
(***************************************************************************)
(* What an article is to the handlers of lib/content.js: the fields they   *)
(* decide on, and the pure functions from one version of an article to     *)
(* another.  The words of an article are a member of Texts, of which       *)
(* Incomplete do not pass validation (title, subtitle, content or media    *)
(* missing).                                                               *)
(***************************************************************************)
EXTENDS Naturals

CONSTANTS
    Posts,       \* identities of the articles of one website
    Slugs,       \* values of a post's name
    Texts,       \* what title, subtitle, content and media say
    Incomplete,  \* the texts which do not pass validation
    Editions,    \* editions an article may be filed under
    TitleSlug,   \* the slug made of the title of a text
    None         \* an undefined field

StatusOps == {"submit", "refuse", "unpublish", "destroy"}

SlugOf(t) == TitleSlug[t]

Statuses == {"absent", "draft", "reviewing", "published", "deleted", "destroyed"}

\* "/" + the slug of the edition + "/" + name; None stands for an empty or an
\* "undefined" segment
Url(e, n) == [edition |-> e, name |-> n]
Urls == [edition : Editions \cup {None}, name : Slugs \cup {None}]

ASSUME ArticlesAssumption ==
    /\ Incomplete \subseteq Texts
    /\ Incomplete # {}
    /\ TitleSlug \in [Texts -> Slugs]
    /\ None \notin Slugs \cup Editions \cup Posts \cup Texts \cup Urls

\* aliases also receives undefined names and, from refreshURL, whole urls; they are
\* left out, for generateOrFallback looks up the last segment of a path
PostRec ==
    [status  : Statuses,
     name    : Slugs \cup {None},
     url     : Urls \cup {None},
     aliases : SUBSET Slugs,
     edition : Editions \cup {None},
     text    : Texts,
     dated   : BOOLEAN]

Draft(t) ==
    [status |-> "draft", name |-> None, url |-> None, aliases |-> {},
     edition |-> None, text |-> t, dated |-> FALSE]

Absent == [Draft(CHOOSE t \in Incomplete : TRUE) EXCEPT !.status = "absent"]

\* what the editor sends to /save: the fields that were edited
Edits == [field : {"text"}, value : Texts] \cup [field : {"edition"}, value : Editions]

\* Object.assign(newpost, oldpost, values)
Merge(post, edit) ==
    IF edit.field = "text" THEN [post EXCEPT !.text = edit.value]
                           ELSE [post EXCEPT !.edition = edit.value]

\* the outcome of lib/content validate
Complete(post) == post.text \notin Incomplete /\ post.edition # None

\* validate fills the missing name from the title
Named(post) ==
    IF post.name = None THEN [post EXCEPT !.name = SlugOf(post.text)] ELSE post

\* Mutants of Published: the url is the bare name; the name is not stored.
PublishedBareUrl(post, valid) ==
    [post EXCEPT !.status = "published", !.name = valid.name, !.url = valid.name,
                 !.dated = TRUE]
PublishedUnnamed(post, valid) ==
    [post EXCEPT !.status = "published", !.dated = TRUE,
                 !.url = Url(valid.edition, valid.name)]

\* the $set of publish(), of what validate() handed on
Published(post, valid) ==
    [post EXCEPT !.status = "published", !.name = valid.name,
                 !.url = Url(valid.edition, valid.name), !.dated = TRUE]

\* A mutant of Renamed: $addToSet is forgotten.
RenamedNoAlias(post, read, s) ==
    [post EXCEPT !.name = s, !.url = Url(None, read.name)]

\* editSlug(), of the article it read: the new url is built of x.slug, which an
\* edition does not have, and of the name before the edit
Renamed(post, read, s) ==
    [post EXCEPT !.name = s, !.url = Url(None, read.name),
                 !.aliases = @ \cup ({read.name} \cap Slugs)]

CurrentUrl(post) == Url(post.edition, post.name)

\* refreshURL(), of the article it read
Refreshed(post, read) ==
    [post EXCEPT !.url = CurrentUrl(read), !.aliases = read.aliases]

\* the status each status handler writes
NewStatus == [o \in StatusOps |->
    CASE o = "submit"    -> "reviewing"
      [] o = "refuse"    -> "draft"
      [] o = "unpublish" -> "deleted"
      [] o = "destroy"   -> "destroyed"]

\* What a reader's link needs: a name, a url and a date.
Addressable(post) == post.name # None /\ post.url # None /\ post.dated
=============================================================================
