------------------------------- MODULE Chains -------------------------------
(***************************************************************************)
(* A content chain in the database (lib/contentchains.js and its           *)
(* controller), and the page of the dashboard on which it is edited        *)
(* (pages/contentchains/edit.js).  The page's requests may overlap, and    *)
(* others may edit the chain as well.                                      *)
(***************************************************************************)
EXTENDS Naturals, Sequences

CONSTANTS
    Posts,     \* articles
    MaxEdits,  \* bound on the requests of the page; the n-th writes the title n
    MaxOthers  \* bound on what others do

VARIABLES
    chain,   \* as stored
    adding,  \* posts others are about to add to the chain they have read
    page,    \* every object the page has held the chain in, and which is the current one
    flight,  \* requests of the page: what is asked for, and how it was answered
    past     \* requests of the page and of others, posts answered as added, and what may excuse what is wrong

vars == <<chain, adding, page, flight, past>>

Contents == [title : 0..MaxEdits, media : BOOLEAN, articles : SUBSET Posts, status : {"draft", "live"}]

TypeOK ==
    /\ chain \in Contents
    /\ adding \subseteq Posts
    /\ page.objects \in Seq(Contents) /\ page.current \in DOMAIN page.objects
    /\ \A i \in DOMAIN flight :
          /\ flight[i].op \in {"title", "media", "articles", "live", "unpublish"}
          /\ flight[i].state \in {"sent", "read", "done", "refused"}
          /\ flight[i].object \in DOMAIN page.objects /\ flight[i].articles \subseteq Posts
    /\ past.edits \in 0..MaxEdits /\ past.others \in 0..MaxOthers
    /\ past.overlapped \in BOOLEAN /\ past.emptied \in BOOLEAN /\ past.lost \in BOOLEAN /\ past.listed \in BOOLEAN
    /\ past.added \subseteq Posts

\* insertNewChain(), and the page which loads it; it may have got its image and articles already
Init ==
    /\ \E media \in BOOLEAN, articles \in SUBSET Posts :
          chain = [title |-> 0, media |-> media, articles |-> articles, status |-> "draft"]
    /\ adding = {}
    /\ page = [objects |-> <<chain>>, current |-> 1]
    /\ flight = << >>
    /\ past = [edits |-> 0, others |-> 0, overlapped |-> FALSE, emptied |-> FALSE, lost |-> FALSE, listed |-> FALSE,
               added |-> {}]

Complete(c) == c.media /\ c.articles # {}
Shown == page.objects[page.current]

-----------------------------------------------------------------------------
(* The page *)

Ask(op, object, articles) ==
    /\ past.edits < MaxEdits
    /\ flight' = Append(flight, [op |-> op, object |-> object, articles |-> articles, title |-> past.edits + 1,
                                 state |-> "sent"])
    /\ past' = [past EXCEPT !.edits = @ + 1, !.overlapped = @ \/ flight # << >>]

\* updateValues(): a copy of the object is edited, which is not shown before the answer
EditTitle ==
    /\ Ask("title", Len(page.objects) + 1, {})
    /\ page' = [page EXCEPT !.objects = Append(@, [Shown EXCEPT !.title = past.edits + 1])]
    /\ UNCHANGED <<chain, adding>>

\* chooseFeaturedImage(): the object itself is edited at once
ChooseImage ==
    /\ Ask("media", page.current, {})
    /\ page' = [page EXCEPT !.objects[page.current].media = TRUE]
    /\ UNCHANGED <<chain, adding>>

ChangeArticles ==
    /\ \E articles \in SUBSET Posts : Ask("articles", page.current, articles)
    /\ UNCHANGED <<chain, adding, page>>

\* togglePublishState()
Toggle ==
    /\ Shown.status = "draft" => Complete(Shown)
    /\ Ask(IF Shown.status = "draft" THEN "live" ELSE "unpublish", page.current, {})
    /\ UNCHANGED <<chain, adding, page>>

\* what is shown after an answer: the copy, the object as it was, or the one the button was on
AfterAnswer(a) ==
    CASE a.op = "title" -> [page EXCEPT !.current = a.object]
      [] a.op = "media" -> page
      [] a.op = "articles" -> [page EXCEPT !.objects[page.current].articles = a.articles]
      [] OTHER -> [objects |-> [page.objects EXCEPT ![a.object].status =
                                    IF Shown.status = "draft" THEN "live" ELSE "draft"],
                   current |-> a.object]

\* the requests on their way, but the i-th
Without(i) == SubSeq(flight, 1, i - 1) \o SubSeq(flight, i + 1, Len(flight))

Answer(i) ==
    /\ flight[i].state \in {"done", "refused"}
    /\ page' = IF flight[i].state = "done" THEN AfterAnswer(flight[i]) ELSE page
    /\ flight' = Without(i)
    /\ UNCHANGED <<chain, adding, past>>

\* the request or its answer is lost
Lose(i) ==
    /\ flight' = Without(i)
    /\ past' = [past EXCEPT !.lost = TRUE]
    /\ UNCHANGED <<chain, adding, page>>

-----------------------------------------------------------------------------
(* The server *)

Edited(a) ==
    CASE a.op = "title" -> [chain EXCEPT !.title = a.title]
      [] a.op = "media" -> [chain EXCEPT !.media = TRUE]
      [] a.op = "articles" -> [chain EXCEPT !.articles = a.articles]
      [] a.op = "live" -> [chain EXCEPT !.status = "live"]
      [] a.op = "unpublish" -> [chain EXCEPT !.status = "draft"]

\* some publication has read the chain
Publishing == \E i \in DOMAIN flight : flight[i].op = "live" /\ flight[i].state = "read"

\* editChain()
Edit(i) ==
    /\ flight[i].state = IF flight[i].op = "live" THEN "read" ELSE "sent"
    /\ chain' = Edited(flight[i])
    /\ flight' = [flight EXCEPT ![i].state = "done"]
    /\ past' = [past EXCEPT !.emptied = @ \/ (flight[i].op = "articles" /\ (chain.status = "live" \/ Publishing)
                                               /\ ~Complete(chain')),
                            !.listed = @ \/ flight[i].op = "articles"]
    /\ UNCHANGED <<adding, page>>

\* A mutant of Check: nothing is missing.
CheckNothing(i) ==
    /\ flight[i].op = "live" /\ flight[i].state = "sent"
    /\ flight' = [flight EXCEPT ![i].state = "read"]
    /\ UNCHANGED <<chain, adding, page, past>>

\* adminPOST(), live: the chain is read, and refused if something is missing
Check(i) ==
    /\ flight[i].op = "live" /\ flight[i].state = "sent"
    /\ flight' = [flight EXCEPT ![i].state = IF Complete(chain) THEN "read" ELSE "refused"]
    /\ UNCHANGED <<chain, adding, page, past>>

-----------------------------------------------------------------------------
(* Others, who add posts: adminPOST(), addpost *)

AddCheck ==
    /\ past.others < MaxOthers
    /\ \E p \in Posts \ (chain.articles \union adding) : adding' = adding \union {p}
    /\ past' = [past EXCEPT !.others = @ + 1]
    /\ UNCHANGED <<chain, page, flight>>

AddWrite ==
    /\ \E p \in adding :
          /\ chain' = [chain EXCEPT !.articles = @ \union {p}]
          /\ adding' = adding \ {p}
          /\ past' = [past EXCEPT !.added = @ \union {p}]
    /\ UNCHANGED <<page, flight>>

Next ==
    \/ EditTitle \/ ChooseImage \/ ChangeArticles \/ Toggle
    \/ AddCheck \/ AddWrite
    \/ \E i \in DOMAIN flight : Answer(i) \/ Lose(i) \/ Edit(i) \/ Check(i)

Spec == Init /\ [][Next]_vars

-----------------------------------------------------------------------------
(* Properties *)

\* When everything is answered, the page shows what is stored, but for posts which others have added,
\* unless requests overlapped or were lost (edit.js:68).
ShownIsStored ==
    flight = << >> /\ ~past.overlapped /\ ~past.lost => Shown = [chain EXCEPT !.articles = @ \ (past.added \ Shown.articles)]

\* A chain which is live has its image and articles, unless they were taken away while it was live or
\* being published (contentchains.js:173).
LiveIsComplete == chain.status = "live" => Complete(chain) \/ past.emptied

\* A post which was answered as added is there, unless the page has written a list (contentchains.js:200).
AddedIsThere == ~past.listed => past.added \subseteq chain.articles
=============================================================================
